----------------------------- MODULE MCClassify -----------------------------
(***************************************************************************)
(* Model-checking instances of Classify: the layouts of the detectors'     *)
(* spans over a short command, and a few commands that install packages.   *)
(***************************************************************************)
EXTENDS Classify, TLC

CONSTANTS lodash, evil, long, atom

Span(lo, hi) == [lo |-> lo, hi |-> hi]
Plain == [curl |-> NoSpan, urls |-> <<>>, npm |-> NoSpan, tail |-> <<>>, bash |-> NoSpan,
          arg_len |-> 0, base64 |-> 0, atoms |-> <<>>, shapes |-> {}, harmful |-> {},
          needles |-> {}, install |-> <<>>]
Pkg(p) == [flag |-> FALSE, name |-> p]
Flag == [flag |-> TRUE, name |-> lodash]

\* Every layout of a fetch-and-run span, a flagged URL and up to two atoms,
\* which never overlap each other, on five positions.
Curls == {NoSpan, Span(0, 5), Span(1, 3)}
Urls == {<<>>, <<Span(2, 4)>>, <<Span(2, 4), Span(0, 1)>>}
AtomSpans == {s \in [lo : 0..4, hi : 1..5] : s.lo < s.hi}
AtomLists == {<<>>} \cup {<<s>> : s \in AtomSpans} \cup {q \in AtomSpans \X AtomSpans : q[1].hi <= q[2].lo}
Layouts == {[Plain EXCEPT !.curl = c, !.urls = u, !.atoms = as] : c \in Curls, u \in Urls, as \in AtomLists}

\* What only one detector looks at.
Bash(len, ratio) == [Plain EXCEPT !.bash = Span(0, 3), !.arg_len = len, !.base64 = ratio]
Bashes == {Bash(40, 90), Bash(39, 90), Bash(40, 89)}
Shapes == {"process_substitution", "insecure_tls", "ip_address", "chmod_then_run"}
Shaped == {[Plain EXCEPT !.shapes = s, !.atoms = as] : s \in SUBSET Shapes, as \in {<<>>, <<Span(0, 1)>>}}
Harms == {[Plain EXCEPT !.harmful = h, !.atoms = as] :
            h \in {{30}, {45}, {60}, {95}}, as \in {<<>>, <<Span(0, 1)>>}}

Install(toks) == [Plain EXCEPT !.npm = Span(0, 2), !.tail = toks, !.install = toks, !.needles = {atom}]
Installs == {Install(<<Pkg(lodash), Flag, Pkg(evil), Pkg(long), Pkg(lodash)>>)}
Flagged == {Install(<<Flag, Pkg("event-stream")>>)}

Config(backend, threshold, warn, block) ==
    [backend |-> backend, block_threshold |-> threshold, onnx_warn |-> warn, onnx_block |-> block]
NoBlocking == Config("stub", 0, 50, 85)
Blocking == Config("heuristic", 90, 50, 85)
Guessing == Config("onnx", 97, 40, 88)
Refused == {Config("stub", 50, 50, 85), Config("heuristic", 101, 50, 85)}
AllConfigs == {NoBlocking, Blocking, Guessing} \cup Refused

\* Packages are installed under one configuration, which does not matter to
\* their lookup; the detectors' layouts are classified under each.
Sent == [k \in AllConfigs |-> IF k = NoBlocking THEN Installs
                               ELSE Layouts \cup Bashes \cup Shaped \cup Harms \cup Flagged]

Users == {[uid |-> "user", pid |-> "p1"]}
Known == {(lodash :> {"advisory"} @@ evil :> {"malicious"} @@ long :> {} @@ "event-stream" :> {})}

=============================================================================
