---------------------------- MODULE MCAtomFetch -----------------------------
(***************************************************************************)
(* Model-checking instances of AtomFetch: small tarballs with an entry of  *)
(* every kind the walk tells apart.                                        *)
(***************************************************************************)
EXTENDS AtomFetch

CONSTANTS gtfobins, sigma, r1, r2, a, b, c, d

Line(text, len) == [text |-> text, len |-> len, words |-> 2, comment |-> FALSE,
                    placeholder |-> FALSE, common |-> FALSE, structure |-> TRUE]
Blank == Line("", 0)
Word(text, len) == [Line(text, len) EXCEPT !.words = 1, !.structure = FALSE]
Codes(texts) == {<<Blank, Line(t, 9)>> : t \in texts}
Entry(codes) == [named |-> TRUE, matches |-> TRUE, size |-> 2, readable |-> TRUE, parses |-> TRUE, codes |-> codes]

Nameless == [Entry({}) EXCEPT !.named = FALSE, !.matches = FALSE, !.size = 9]

\* Scalars without an atom in them, one per reason.
Useless == {<<>>, <<Blank>>, <<Line("", 2)>>, <<Line("", 11), Line("x", 9)>>,
            <<[Line("#", 9) EXCEPT !.comment = TRUE]>>, <<[Line("p", 9) EXCEPT !.placeholder = TRUE]>>,
            <<[Word("w", 4) EXCEPT !.common = TRUE]>>, <<Word("w", 4)>>}

Good(texts) == <<[Entry({}) EXCEPT !.matches = FALSE, !.size = 5], Entry(Codes(texts) \cup Useless)>>
Holes(texts) == <<Nameless, [Entry(Codes({d})) EXCEPT !.readable = FALSE],
                  [Entry(Codes({d})) EXCEPT !.parses = FALSE], Entry(Codes(texts))>>
Padded == <<[Entry({}) EXCEPT !.matches = FALSE, !.size = 9], Entry(Codes({d}))>>

\* Both sources fit the cap at r1; gtfobins at r2 makes them one too many.
\* sigma at r2 declares more than the walk may decompress.
Tarballs == (gtfobins :> (r1 :> Good({a}) @@ r2 :> Holes({a, b})))
              @@ (sigma :> (r1 :> Good({c, d}) @@ r2 :> Padded))
TwoSources == <<gtfobins, sigma>>
GtfobinsMoved == gtfobins :> r2 @@ sigma :> r1
BothAtR1 == [s \in Sources |-> r1]
Edits == {Removed, Broken, gtfobins :> r1 @@ sigma :> r2}

=============================================================================
