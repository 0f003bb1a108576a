------------------------------ MODULE Terminal ------------------------------
(***************************************************************************)
(* The debugger at the terminal: Interactive.AfterStep and its two prompts *)
(* (internal/debugger/interactive.go:43-114), Docker.Shell with the        *)
(* goroutine that forwards stdin (internal/executor/docker.go:716-791) and *)
(* the terminal's mode (tty_unix.go, tty_windows.go).  ctrlMu lets one job *)
(* in at a time (JobRun), so AfterStep is called again and again here, by  *)
(* whichever job.                                                          *)
(*                                                                         *)
(* The goroutine that keeps the shell's size in sync (tty_unix.go:38-51)   *)
(* reads no input and changes nothing of this; it is left out.             *)
(***************************************************************************)
EXTENDS Naturals, Sequences, FiniteSetsExt

CONSTANTS
    Words,      \* what the user may type
    MaxTyped,   \* bound on the words typed
    MaxCalls,   \* bound on the calls of AfterStep
    Setups      \* the options and platforms: records of stepByStep, shellOnFail,
                \* tty (stdin is a terminal) and unix (not Windows)

\* runCmd only makes a controller when one of the options is set.
ASSUME SetupsAssumption ==
    /\ MaxTyped \in Nat /\ MaxCalls \in Nat
    /\ Setups \subseteq {s \in [stepByStep : BOOLEAN, shellOnFail : BOOLEAN,
                                tty : BOOLEAN, unix : BOOLEAN] :
                            s.stepByStep \/ s.shellOnFail}

VARIABLES
    setup,      \* the options and the platform
    calls,      \* how many steps AfterStep was called for
    pc,         \* where AfterStep is; "step" outside it
    failed,     \* its local of that name
    decision,   \* what the last call returned
    said,       \* the lines this call has read, each with the prompt it answered
    stdin,      \* what was typed and not read, and whether in raw mode
    buf,        \* what bufio.Reader has read of it and not yet given out
    closed,     \* no more will be typed: stdin is at its end
    typed,      \* how many words were typed
    raw,        \* the terminal is in raw mode
    session,    \* the shell in the container: "none", "open" or "ended"
    eofSent,    \* CloseWrite has told it that its input is at its end
    fwd,        \* where the forwarding goroutine is
    stop        \* stopForwarding

callVars == <<calls, failed, decision, said>>
input == <<stdin, buf>>
user == <<closed, typed>>
remote == <<session, eofSent>>
forwarder == <<fwd, stop>>
vars == <<setup, pc, callVars, input, user, raw, remote, forwarder>>

Prompts == {"ask", "askAfter"}
Key == [word : Words \cup {"junk"}, raw : BOOLEAN]

Init ==
    /\ setup \in Setups
    /\ pc = "step"
    /\ calls = 0 /\ failed = FALSE /\ decision = "none" /\ said = <<>>
    /\ stdin = <<>> /\ buf = <<>>
    /\ closed = FALSE /\ typed = 0
    /\ raw = FALSE
    /\ session = "none" /\ eofSent = FALSE
    /\ fwd = "none" /\ stop = FALSE

-----------------------------------------------------------------------------
(* The user, whatever is on the screen, and the shell: external. *)

Type(word) ==
    /\ ~closed
    /\ typed < MaxTyped
    /\ typed' = typed + 1
    /\ stdin' = Append(stdin, [word |-> word, raw |-> raw])
    /\ UNCHANGED <<setup, pc, callVars, buf, closed, raw, remote, forwarder>>

CloseStdin ==
    /\ ~closed
    /\ closed' = TRUE
    /\ UNCHANGED <<setup, pc, callVars, input, typed, raw, remote, forwarder>>

\* By exit, by a crash or because its container is gone.
SessionEnds ==
    /\ session = "open"
    /\ session' = "ended"
    /\ UNCHANGED <<setup, pc, callVars, input, user, raw, eofSent, forwarder>>

-----------------------------------------------------------------------------
(* AfterStep *)

Decide(d) == pc' = "step" /\ decision' = d

\* A step ended and AfterStep is called: a shell, no question at all, or a prompt.
AfterStep(fails) ==
    /\ pc = "step"
    /\ calls < MaxCalls
    /\ calls' = calls + 1
    /\ failed' = fails
    /\ said' = <<>>
    /\ \/ /\ fails /\ setup.shellOnFail
          /\ pc' = "attach" /\ UNCHANGED decision
       \/ /\ ~(fails /\ setup.shellOnFail) /\ ~setup.stepByStep
          /\ Decide(IF fails THEN "Abort" ELSE "Continue")
       \/ /\ ~(fails /\ setup.shellOnFail) /\ setup.stepByStep
          /\ pc' = "ask" /\ UNCHANGED decision
    /\ UNCHANGED <<setup, input, user, raw, remote, forwarder>>

\* What ReadString sees: a key typed in raw mode sends \r, which ends no line, so
\* what a shell left unread is read together with the next line.
Unread == buf \o stdin
LineEnds == {n \in DOMAIN Unread : ~Unread[n].raw}
FirstLine == SubSeq(Unread, 1, Min(LineEnds))

\* TrimSpace drops a \r and an empty line; two words in one line are no answer.
WordOf(line) ==
    LET marks == {n \in DOMAIN line : line[n].word # "enter"} IN
    CASE marks = {} -> "enter"
      [] Cardinality(marks) = 1 -> line[CHOOSE n \in marks : TRUE].word
      [] OTHER -> "junk"

\* ReadString reads until it has a line.  A terminal gives it one line at a time,
\* a pipe all there is; the rest stays in the buffer.
ReadsLine(word) ==
    /\ LineEnds # {}
    /\ word = WordOf(FirstLine)
    /\ \E got \in IF Len(FirstLine) <= Len(buf) THEN {Len(buf)}
                                                ELSE Len(FirstLine)..Len(Unread) :
        /\ buf' = SubSeq(Unread, Len(FirstLine) + 1, got)
        /\ stdin' = SubSeq(Unread, got + 1, Len(Unread))
    /\ said' = Append(said, [at |-> pc, word |-> word])

\* An end of input without a line.
ReadsEof ==
    /\ LineEnds = {}
    /\ closed
    /\ buf' = <<>> /\ stdin' = <<>>
    /\ UNCHANGED said

AnswerStep(word) ==
    CASE word \in {"enter", "y"} -> "Continue"
      [] word \in {"n", "a"} -> "Abort"
      [] word = "s" -> "Shell"
      [] OTHER -> "again"

\* Mutant: what is no answer is taken for the default.
AnswerAfterShellDefault(word) ==
    CASE word = "a" -> "Abort"
      [] word = "r" -> "Retry"
      [] OTHER -> "Continue"

AnswerAfterShell(word) ==
    CASE word \in {"enter", "c"} -> "Continue"
      [] word = "a" -> "Abort"
      [] word = "r" -> "Retry"
      [] OTHER -> "again"

Prompted == UNCHANGED <<setup, calls, failed, user, raw, remote, forwarder>>

Ask ==
    /\ pc = "ask"
    /\ \E word \in Words \cup {"junk"} :
        /\ ReadsLine(word)
        /\ LET answer == AnswerStep(word) IN
           \/ answer \in {"Continue", "Abort"} /\ Decide(answer)
           \/ answer = "Shell" /\ pc' = "attach" /\ UNCHANGED decision
           \/ answer = "again" /\ UNCHANGED <<pc, decision>>
    /\ Prompted

AskAfterShell ==
    /\ pc = "askAfter"
    /\ \E word \in Words \cup {"junk"} :
        /\ ReadsLine(word)
        /\ LET answer == AnswerAfterShell(word) IN
           \/ answer # "again" /\ Decide(answer)
           \/ answer = "again" /\ UNCHANGED <<pc, decision>>
    /\ Prompted

\* Mutant: the loop asks again.
EofAsksAgain == pc \in Prompts /\ ReadsEof /\ UNCHANGED <<pc, decision>> /\ Prompted

Eof == pc \in Prompts /\ ReadsEof /\ Decide("Abort") /\ Prompted

-----------------------------------------------------------------------------
(* Shell *)

\* Exec create or attach fails; AfterStep asks all the same.
ShellFails ==
    /\ pc = "attach"
    /\ pc' = "askAfter"
    /\ UNCHANGED <<setup, callVars, input, user, raw, remote, forwarder>>

OpenShell ==
    /\ pc = "attach"
    /\ pc' = "copy"
    /\ session' = "open" /\ eofSent' = FALSE
    /\ raw' \in {FALSE, setup.unix /\ setup.tty}   \* MakeRaw may fail, unnoticed
    /\ fwd' = "check" /\ stop' = FALSE
    /\ UNCHANGED <<setup, callVars, input, user>>

\* io.Copy of the shell's output returns.
CopyEnds ==
    /\ pc = "copy"
    /\ session = "ended"
    /\ pc' = "join"
    /\ stop' = TRUE
    /\ UNCHANGED <<setup, callVars, input, user, raw, remote, fwd>>

Returns ==
    /\ pc = "join"
    /\ pc' = "askAfter"
    /\ raw' = FALSE
    /\ session' = "none"
    /\ UNCHANGED <<setup, callVars, input, user, eofSent, forwarder>>

\* Mutant: Shell does not wait for its goroutine.
ShellReturnsAtOnce == Returns

\* <-forwardDone, then the deferred restore and attach.Close.
ShellReturns == fwd = "done" /\ Returns

ForwarderMoves(from, to) ==
    /\ fwd = from /\ fwd' = to
    /\ UNCHANGED <<setup, pc, callVars, buf, user, raw, session, stop>>

ForwardCheck ==
    ForwarderMoves("check", IF stop THEN "done" ELSE "poll") /\ UNCHANGED <<stdin, eofSent>>

\* Mutant: stdin is read without polling it.
ForwardPollNot == ForwarderMoves("poll", "read") /\ UNCHANGED <<stdin, eofSent>>

\* waitStdinReadable: after 100 ms without input the flag is looked at again.
\* Windows has no poll, and reads.
ForwardPoll ==
    /\ ForwarderMoves("poll", IF setup.unix /\ stdin = <<>> /\ ~closed THEN "check" ELSE "read")
    /\ UNCHANGED <<stdin, eofSent>>

\* A signal, as when the terminal is resized, ends the poll early.
ForwardInterrupted ==
    setup.unix /\ ForwarderMoves("poll", "check") /\ UNCHANGED <<stdin, eofSent>>

\* Read returns some of what was typed, and Write sends it on.  To a shell that
\* has ended Write may fail, which ends the goroutine.
ForwardRead ==
    /\ stdin # <<>>
    /\ \E n \in DOMAIN stdin : stdin' = SubSeq(stdin, n + 1, Len(stdin))
    /\ \/ ForwarderMoves("read", "check")
       \/ session # "open" /\ ForwarderMoves("read", "done")
    /\ UNCHANGED eofSent

ForwardEof ==
    /\ stdin = <<>>
    /\ closed
    /\ ForwarderMoves("read", "done")
    /\ eofSent' = TRUE
    /\ UNCHANGED stdin

-----------------------------------------------------------------------------
Debugger == Ask \/ AskAfterShell \/ Eof \/ ShellFails \/ OpenShell \/ CopyEnds \/ ShellReturns
Forwards == ForwardCheck \/ ForwardPoll \/ ForwardInterrupted \/ ForwardRead \/ ForwardEof

Done == pc = "step" /\ calls = MaxCalls /\ UNCHANGED vars

Next ==
    \/ Debugger \/ Forwards
    \/ \E fails \in BOOLEAN : AfterStep(fails)
    \/ \E word \in Words : Type(word)
    \/ CloseStdin \/ SessionEnds
    \/ Done

Spec == Init /\ [][Next]_vars

\* Both goroutines run when they can, and a shell whose input has ended exits.
\* The user need not type and a shell need not end.  Signals do not come so fast
\* that no poll ever lasts until it finds input.
FairSpec ==
    /\ Spec
    /\ WF_vars(Debugger)
    /\ WF_vars(Forwards) /\ SF_vars(ForwardPoll)
    /\ WF_vars(eofSent /\ SessionEnds)

-----------------------------------------------------------------------------
\* A prompt has the terminal to itself: the goroutine of the last shell is gone
\* and cannot take the answer, and the terminal is in the mode in which a line
\* can be typed (docker.go:738-748, 777-781;
\* tty_unix.go:53-58).
PromptOwnsTheTerminal ==
    pc \in Prompts => fwd \in {"none", "done"} /\ ~raw /\ session # "open"

\* What the two prompts offer: a word typed at one may mean nothing at the other.
Offers == {<<"ask", "enter", "Continue">>, <<"ask", "y", "Continue">>,
           <<"ask", "n", "Abort">>, <<"ask", "a", "Abort">>,
           <<"askAfter", "enter", "Continue">>, <<"askAfter", "c", "Continue">>,
           <<"askAfter", "a", "Abort">>, <<"askAfter", "r", "Retry">>}

Means(line, d) == <<line.at, line.word, d>> \in Offers
IsAnswer(line) == \E d \in {"Continue", "Abort", "Retry"} : Means(line, d)
AsksForShell(line) == line = [at |-> "ask", word |-> "s"]

\* A call that has to ask does what the one answer among the lines it read says, at
\* the prompt that read it, and no line after an answer is read; at the end of the
\* input, when there was no answer, it aborts.  The prompt that offers a retry is
\* only shown after a shell, which a failure or a line asked for.  A call that need
\* not ask reads nothing and goes by the step's result (interactive.go:43-114).
\* When the line was typed is left open: the code drops nothing typed early.
DecisionsAreTheUsers ==
    LET toShell == failed /\ setup.shellOnFail
        answers == {k \in DOMAIN said : IsAnswer(said[k])}
    IN  /\ pc = "step" /\ calls > 0 =>
            IF toShell \/ setup.stepByStep
            THEN \/ answers = {Len(said)} /\ Means(said[Len(said)], decision)
                 \/ answers = {} /\ closed /\ decision = "Abort"
            ELSE said = <<>> /\ decision = IF failed THEN "Abort" ELSE "Continue"
        /\ \A k \in DOMAIN said : said[k].at = "askAfter" =>
            toShell \/ \E n \in 1..(k - 1) : AsksForShell(said[n])

\* At the end of the input no prompt waits or repeats itself, and no shell opened
\* from a prompt stays: the call returns (interactive.go:68-72, 97-101; docker.go:765-771).
PromptsEndAtEof == closed /\ pc \in Prompts ~> pc = "step"

\* Once the shell has ended, Shell returns without anything typed, where stdin can
\* be polled; elsewhere it may wait for a key (docker.go:738-748, 777-781).
ShellReturnsOnItsOwn == setup.unix /\ session = "ended" ~> pc = "askAfter"
=============================================================================
