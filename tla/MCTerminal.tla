----------------------------- MODULE MCTerminal -----------------------------
(* Every combination of options, on a terminal or a pipe, on Unix and on *)
(* Windows.                                                              *)
EXTENDS Terminal

SomeWords == {"enter", "a", "s", "r"}

AllSetups ==
    {s \in [stepByStep : BOOLEAN, shellOnFail : BOOLEAN, tty : BOOLEAN, unix : BOOLEAN] :
        s.stepByStep \/ s.shellOnFail}
=============================================================================
