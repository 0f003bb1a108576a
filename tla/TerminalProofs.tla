--------------------------- MODULE TerminalProofs ---------------------------
(***************************************************************************)
(* Proofs about the debugger at the terminal, for any words, any number of *)
(* calls and every combination of options and platform: a prompt has the   *)
(* terminal to itself, and what AfterStep decides is what the user said.   *)
(***************************************************************************)
EXTENDS Terminal, TLAPS

Pcs == {"step", "ask", "attach", "copy", "join", "askAfter"}
InShell == {"copy", "join"}
Forwarding == {"check", "poll", "read", "done"}

\* A line that was read, with the prompt that read it.
Line == [at : Prompts, word : Words \cup {"junk"}]

\* The types of all but the input, whose contents the theorems leave open.
TypeOK ==
    /\ setup \in Setups
    /\ pc \in Pcs
    /\ calls \in Nat /\ said \in Seq(Line)
    /\ failed \in BOOLEAN
    /\ decision \in {"none", "Continue", "Abort", "Retry"}
    /\ closed \in BOOLEAN
    /\ raw \in BOOLEAN
    /\ session \in {"none", "open", "ended"}
    /\ eofSent \in BOOLEAN
    /\ fwd \in {"none"} \cup Forwarding
    /\ stop \in BOOLEAN

\* What is there of a shell, by the place of AfterStep.
ShellIsWhere ==
    /\ pc \notin InShell => session = "none" /\ ~raw /\ fwd \in {"none", "done"}
    /\ pc = "copy" => session # "none" /\ fwd \in Forwarding /\ ~stop
    /\ pc = "join" => session = "ended" /\ fwd \in Forwarding /\ stop
    /\ raw => setup.unix /\ setup.tty

\* What led this call to where it is: a failure, or lines that were no answer.
GoesToShell == failed /\ setup.shellOnFail
ShellAsked == \E n \in DOMAIN said : AsksForShell(said[n])
NoAnswerYet == \A n \in DOMAIN said : ~IsAnswer(said[n])

CallIsJustified ==
    /\ pc # "step" => calls > 0 /\ NoAnswerYet /\ (GoesToShell \/ setup.stepByStep)
    /\ pc \in InShell \cup {"attach", "askAfter"} => GoesToShell \/ ShellAsked
    /\ DecisionsAreTheUsers

\* The inductive invariant.
IInv == TypeOK /\ ShellIsWhere /\ CallIsJustified

-----------------------------------------------------------------------------
(* Each step keeps the invariant. *)

LEMMA SetupData ==
    ASSUME TypeOK
    PROVE  /\ setup.stepByStep \in BOOLEAN /\ setup.shellOnFail \in BOOLEAN
           /\ setup.tty \in BOOLEAN /\ setup.unix \in BOOLEAN
BY SetupsAssumption DEF TypeOK

LEMMA InitIInv == Init => IInv
<1> SUFFICES ASSUME Init PROVE IInv
  OBVIOUS
<1> USE DEF Init
<1>1. TypeOK
  <2>1. said \in Seq(Line)
    OBVIOUS
  <2> QED BY <2>1 DEF TypeOK, Pcs
<1>2. ShellIsWhere
  BY DEF ShellIsWhere, InShell
<1>3. CallIsJustified
  BY DEF CallIsJustified, DecisionsAreTheUsers, NoAnswerYet, InShell
<1> QED BY <1>1, <1>2, <1>3 DEF IInv

\* A call of AfterStep begins, and may be decided at once.
LEMMA AfterStepStep ==
    ASSUME IInv, NEW fails \in BOOLEAN, AfterStep(fails)
    PROVE  IInv'
<1> USE DEF IInv, AfterStep, Decide, Pcs, InShell, Forwarding, input, user, remote, forwarder
<1>1. TypeOK'
  BY DEF TypeOK
<1>2. ShellIsWhere'
  BY DEF ShellIsWhere
<1>3. CallIsJustified'
  <2>1. said' = <<>> /\ DOMAIN said' = {} /\ calls' > 0
    BY DEF TypeOK
  <2>2. (GoesToShell' <=> fails /\ setup.shellOnFail) /\ setup' = setup
    BY DEF GoesToShell
  <2>3. pc' # "step" => pc' \in {"attach", "ask"} /\ (GoesToShell' \/ setup.stepByStep)
    BY <2>2
  <2>4. pc' = "attach" => GoesToShell'
    BY <2>2
  <2>5. DecisionsAreTheUsers'
    BY <2>1 DEF DecisionsAreTheUsers
  <2> QED BY <2>1, <2>2, <2>3, <2>4, <2>5 DEF CallIsJustified, NoAnswerYet
<1> QED BY <1>1, <1>2, <1>3

\* What the two prompts do with a line, whatever it says.
LEMMA AskUnderstands ==
    ASSUME NEW word, NEW line, line = [at |-> "ask", word |-> word]
    PROVE  LET d == AnswerStep(word) IN
           /\ d \in {"Continue", "Abort", "Shell", "again"}
           /\ d \in {"Continue", "Abort"} => Means(line, d)
           /\ d \in {"Shell", "again"} => ~IsAnswer(line)
           /\ d = "Shell" => AsksForShell(line)
BY DEF AnswerStep, IsAnswer, Means, Offers, AsksForShell

LEMMA AskAfterShellUnderstands ==
    ASSUME NEW word, NEW line, line = [at |-> "askAfter", word |-> word]
    PROVE  LET d == AnswerAfterShell(word) IN
           /\ d \in {"Continue", "Abort", "Retry", "again"}
           /\ d # "again" => Means(line, d)
           /\ d = "again" => ~IsAnswer(line)
BY DEF AnswerAfterShell, IsAnswer, Means, Offers

\* A prompt reads one more line: it is the answer, or the call goes on without one.
LEMMA OneMoreLine ==
    ASSUME IInv, pc \in Prompts, NEW word \in Words \cup {"junk"},
           NEW line, line = [at |-> pc, word |-> word], said' = Append(said, line), Prompted,
           \/ pc' = "step" /\ IsAnswer(line) /\ Means(line, decision')
           \/ /\ pc' \in {"ask", "askAfter", "attach"} /\ ~IsAnswer(line)
              /\ pc' # "ask" => pc = "askAfter" \/ AsksForShell(line)
    PROVE  said' \in Seq(Line) /\ CallIsJustified'
<1> USE DEF Prompted, user, InShell
<1>1. line \in Line /\ line.at = pc
  BY DEF Line
<1>2. said \in Seq(Line) /\ Len(said) \in Nat /\ DOMAIN said = 1..Len(said)
  BY DEF IInv, TypeOK
<1>3. /\ said' \in Seq(Line) /\ Len(said') = Len(said) + 1 /\ DOMAIN said' = 1..(Len(said) + 1)
      /\ said'[Len(said) + 1] = line /\ \A n \in 1..Len(said) : said'[n] = said[n]
  BY <1>1, <1>2
<1>4. calls' = calls /\ setup' = setup /\ failed' = failed /\ (GoesToShell' <=> GoesToShell)
  BY DEF GoesToShell
<1>5. calls > 0 /\ NoAnswerYet /\ (GoesToShell \/ setup.stepByStep)
  BY DEF IInv, CallIsJustified, Prompts
<1>6. pc = "askAfter" => GoesToShell \/ ShellAsked
  BY DEF IInv, CallIsJustified
<1>7. /\ ShellAsked => ShellAsked'
      /\ AsksForShell(line) => ShellAsked'
  BY <1>2, <1>3 DEF ShellAsked
<1>8. {k \in DOMAIN said' : IsAnswer(said'[k])} = IF IsAnswer(line) THEN {Len(said')} ELSE {}
  BY <1>2, <1>3, <1>5 DEF NoAnswerYet
<1>9. ASSUME NEW k \in DOMAIN said', said'[k].at = "askAfter"
      PROVE  GoesToShell \/ \E n \in 1..(k - 1) : AsksForShell(said'[n])
  <2>1. CASE k \in 1..Len(said)
    <3>1. said[k].at = "askAfter" /\ k \in DOMAIN said
      BY <1>2, <1>3, <1>9, <2>1
    <3>2. GoesToShell \/ \E n \in 1..(k - 1) : AsksForShell(said[n])
      BY <3>1 DEF IInv, CallIsJustified, DecisionsAreTheUsers, GoesToShell
    <3> QED BY <1>2, <1>3, <2>1, <3>2
  <2>2. CASE k = Len(said) + 1
    <3>1. pc = "askAfter"
      BY <1>1, <1>3, <1>9, <2>2
    <3> QED BY <1>2, <1>3, <1>6, <2>2, <3>1 DEF ShellAsked
  <2> QED BY <1>2, <1>3, <2>1, <2>2
<1>10. DecisionsAreTheUsers'
  <2>1. pc' = "step" =>
            /\ {k \in DOMAIN said' : IsAnswer(said'[k])} = {Len(said')}
            /\ Means(said'[Len(said')], decision')
    BY <1>3, <1>8
  <2> QED BY <1>4, <1>5, <1>9, <2>1 DEF DecisionsAreTheUsers, GoesToShell
<1>11. pc' # "step" => NoAnswerYet'
  BY <1>8 DEF NoAnswerYet
<1>12. pc' \in {"attach", "askAfter"} => GoesToShell' \/ ShellAsked'
  BY <1>4, <1>6, <1>7
<1> QED BY <1>3, <1>4, <1>5, <1>10, <1>11, <1>12 DEF CallIsJustified

LEMMA AskStep == ASSUME IInv, Ask PROVE IInv'
<1>1. PICK word \in Words \cup {"junk"} :
        /\ ReadsLine(word)
        /\ \/ AnswerStep(word) \in {"Continue", "Abort"} /\ Decide(AnswerStep(word))
           \/ AnswerStep(word) = "Shell" /\ pc' = "attach" /\ UNCHANGED decision
           \/ AnswerStep(word) = "again" /\ UNCHANGED <<pc, decision>>
  BY DEF Ask
<1>2. pc = "ask" /\ Prompted
  BY DEF Ask
<1> DEFINE line == [at |-> pc, word |-> word]
<1>3. said' = Append(said, line)
  BY <1>1 DEF ReadsLine
<1>4. /\ AnswerStep(word) \in {"Continue", "Abort"} => Means(line, AnswerStep(word))
      /\ AnswerStep(word) \in {"Shell", "again"} => ~IsAnswer(line)
      /\ AnswerStep(word) = "Shell" => AsksForShell(line)
  BY <1>2, AskUnderstands
<1>5. /\ \/ pc' = "step" /\ decision' \in {"Continue", "Abort"}
         \/ pc' \in {"ask", "attach"} /\ decision' = decision
      /\ \/ pc' = "step" /\ IsAnswer(line) /\ Means(line, decision')
         \/ /\ pc' \in {"ask", "askAfter", "attach"} /\ ~IsAnswer(line)
            /\ pc' # "ask" => pc = "askAfter" \/ AsksForShell(line)
  BY <1>1, <1>2, <1>4 DEF Decide, IsAnswer
<1> HIDE DEF line
<1>6. said' \in Seq(Line) /\ CallIsJustified'
  BY <1>2, <1>3, <1>5, OneMoreLine DEF line, Prompts
<1>7. TypeOK'
  BY <1>2, <1>5, <1>6 DEF IInv, TypeOK, Pcs, Prompted, user, remote, forwarder
<1>8. ShellIsWhere'
  BY <1>2, <1>5 DEF IInv, ShellIsWhere, InShell, Prompted, remote, forwarder
<1> QED BY <1>6, <1>7, <1>8 DEF IInv

LEMMA AskAfterShellStep == ASSUME IInv, AskAfterShell PROVE IInv'
<1>1. PICK word \in Words \cup {"junk"} :
        /\ ReadsLine(word)
        /\ \/ AnswerAfterShell(word) # "again" /\ Decide(AnswerAfterShell(word))
           \/ AnswerAfterShell(word) = "again" /\ UNCHANGED <<pc, decision>>
  BY DEF AskAfterShell
<1>2. pc = "askAfter" /\ Prompted
  BY DEF AskAfterShell
<1> DEFINE line == [at |-> pc, word |-> word]
<1>3. said' = Append(said, line)
  BY <1>1 DEF ReadsLine
<1>4. /\ AnswerAfterShell(word) \in {"Continue", "Abort", "Retry", "again"}
      /\ AnswerAfterShell(word) # "again" => Means(line, AnswerAfterShell(word))
      /\ AnswerAfterShell(word) = "again" => ~IsAnswer(line)
  BY <1>2, AskAfterShellUnderstands
<1>5. /\ \/ pc' = "step" /\ decision' \in {"Continue", "Abort", "Retry"}
         \/ pc' = "askAfter" /\ decision' = decision
      /\ \/ pc' = "step" /\ IsAnswer(line) /\ Means(line, decision')
         \/ /\ pc' \in {"ask", "askAfter", "attach"} /\ ~IsAnswer(line)
            /\ pc' # "ask" => pc = "askAfter" \/ AsksForShell(line)
  BY <1>1, <1>2, <1>4 DEF Decide, IsAnswer
<1> HIDE DEF line
<1>6. said' \in Seq(Line) /\ CallIsJustified'
  BY <1>2, <1>3, <1>5, OneMoreLine DEF line, Prompts
<1>7. TypeOK'
  BY <1>2, <1>5, <1>6 DEF IInv, TypeOK, Pcs, Prompted, user, remote, forwarder
<1>8. ShellIsWhere'
  BY <1>2, <1>5 DEF IInv, ShellIsWhere, InShell, Prompted, remote, forwarder
<1> QED BY <1>6, <1>7, <1>8 DEF IInv

LEMMA EofStep == ASSUME IInv, Eof PROVE IInv'
<1> USE DEF IInv, Pcs, InShell, Forwarding, Prompted, Prompts, Eof, ReadsEof, Decide,
            user, remote, forwarder
<1>1. TypeOK'
  BY DEF TypeOK
<1>2. ShellIsWhere'
  BY DEF ShellIsWhere
<1>3. CallIsJustified'
  <2>1. NoAnswerYet /\ (GoesToShell \/ setup.stepByStep)
    BY DEF CallIsJustified
  <2>2. {k \in DOMAIN said : IsAnswer(said[k])} = {}
    BY <2>1 DEF NoAnswerYet
  <2>3. DecisionsAreTheUsers'
    BY <2>1, <2>2 DEF CallIsJustified, DecisionsAreTheUsers, GoesToShell
  <2> QED BY <2>3 DEF CallIsJustified
<1> QED BY <1>1, <1>2, <1>3

\* Shell opens, ends and returns, or never opens.
LEMMA ShellStep ==
    ASSUME IInv, ShellFails \/ OpenShell \/ CopyEnds \/ ShellReturns
    PROVE  IInv'
<1> USE DEF IInv, Pcs, InShell, Forwarding, callVars, input, user, remote, forwarder,
            ShellFails, OpenShell, CopyEnds, ShellReturns, Returns
<1>1. TypeOK'
  <2>1. (setup.unix /\ setup.tty) \in BOOLEAN
    OBVIOUS
  <2>2. CASE OpenShell
    BY <2>1, <2>2 DEF TypeOK
  <2>3. CASE ShellFails \/ CopyEnds \/ ShellReturns
    BY <2>3 DEF TypeOK
  <2> QED BY <2>2, <2>3
<1>2. ShellIsWhere'
  <2>1. CASE ShellFails
    BY <2>1 DEF ShellIsWhere
  <2>2. CASE OpenShell
    BY <2>2 DEF ShellIsWhere
  <2>3. CASE CopyEnds
    BY <2>3 DEF ShellIsWhere
  <2>4. CASE ShellReturns
    BY <2>4 DEF ShellIsWhere
  <2> QED BY <2>1, <2>2, <2>3, <2>4
<1>3. CallIsJustified'
  <2>1. /\ pc \in {"attach", "copy", "join"} /\ pc' \in {"copy", "join", "askAfter"}
        /\ setup' = setup /\ UNCHANGED <<calls, failed, said>>
    OBVIOUS
  <2>2. NoAnswerYet' /\ calls' > 0 /\ (GoesToShell' \/ setup'.stepByStep)
    BY <2>1 DEF CallIsJustified, NoAnswerYet, GoesToShell
  <2>3. GoesToShell' \/ ShellAsked'
    BY <2>1 DEF CallIsJustified, GoesToShell, ShellAsked
  <2>4. DecisionsAreTheUsers'
    BY <2>1 DEF CallIsJustified, DecisionsAreTheUsers
  <2> QED BY <2>1, <2>2, <2>3, <2>4 DEF CallIsJustified
<1> QED BY <1>1, <1>2, <1>3

\* The goroutine that forwards stdin never comes back once it is done.
LEMMA ForwardsStep == ASSUME IInv, Forwards PROVE IInv'
<1>1. /\ fwd \in {"check", "poll", "read"} /\ fwd' \in Forwarding /\ eofSent' \in BOOLEAN
      /\ UNCHANGED <<setup, pc, callVars, user, raw, session, stop>>
  BY DEF IInv, TypeOK, Forwards, ForwardCheck, ForwardPoll, ForwardInterrupted, ForwardRead,
     ForwardEof, ForwarderMoves, Forwarding
<1>2. TypeOK'
  BY <1>1 DEF IInv, TypeOK, callVars, user
<1>3. ShellIsWhere'
  BY <1>1 DEF IInv, ShellIsWhere, InShell
<1>4. CallIsJustified'
  BY <1>1 DEF IInv, CallIsJustified, DecisionsAreTheUsers, GoesToShell, ShellAsked, NoAnswerYet,
     callVars, user
<1> QED BY <1>2, <1>3, <1>4 DEF IInv

\* The user and the shell in the container.
LEMMA OutsideStep ==
    ASSUME IInv, (\E word \in Words : Type(word)) \/ CloseStdin \/ SessionEnds
    PROVE  IInv'
<1>1. /\ UNCHANGED <<setup, pc, callVars, raw, eofSent, forwarder>>
      /\ closed' = closed \/ closed' = TRUE
      /\ session' = session \/ (session = "open" /\ session' = "ended")
  BY DEF Type, CloseStdin, SessionEnds, user, remote
<1>2. TypeOK'
  BY <1>1 DEF IInv, TypeOK, callVars, forwarder
<1>3. ShellIsWhere'
  BY <1>1 DEF IInv, ShellIsWhere, InShell, forwarder
<1>4. CallIsJustified'
  <2>1. DecisionsAreTheUsers'
    BY <1>1 DEF IInv, CallIsJustified, DecisionsAreTheUsers, callVars
  <2> QED BY <1>1, <2>1 DEF IInv, CallIsJustified, GoesToShell, ShellAsked, NoAnswerYet, callVars
<1> QED BY <1>2, <1>3, <1>4 DEF IInv

LEMMA NextIInv == IInv /\ [Next]_vars => IInv'
<1> SUFFICES ASSUME IInv, [Next]_vars PROVE IInv'
  OBVIOUS
<1>1. CASE UNCHANGED vars
  BY <1>1 DEF vars, callVars, input, user, remote, forwarder, IInv, TypeOK, ShellIsWhere,
     CallIsJustified, DecisionsAreTheUsers, GoesToShell, ShellAsked, NoAnswerYet
<1>2. CASE Debugger
  BY <1>2, AskStep, AskAfterShellStep, EofStep, ShellStep DEF Debugger
<1> QED BY <1>1, <1>2, AfterStepStep, ForwardsStep, OutsideStep DEF Next, Done

-----------------------------------------------------------------------------
(* The theorems. *)

\* At any time the session, the mode of the terminal and the goroutine that forwards
\* stdin are those of the place where AfterStep is, and what it read so far justifies
\* that place (interactive.go:43-114, docker.go:716-791).
THEOREM InductiveInvariant == Spec => []IInv
<1> QED BY InitIInv, NextIInv, PTL DEF Spec

\* Whatever was typed and whenever the shell ended, a prompt has the terminal to
\* itself, and in the mode in which a line can be typed (docker.go:735-736, 749-781).
THEOREM PromptsOwnTheTerminal == Spec => []PromptOwnsTheTerminal
<1>1. IInv => PromptOwnsTheTerminal
  BY DEF IInv, ShellIsWhere, InShell, PromptOwnsTheTerminal, Prompts
<1> QED BY <1>1, InductiveInvariant, PTL

\* A call of AfterStep does what the one answer among the lines it read says, and
\* aborts at the end of the input; without a question it goes by the step's result,
\* whatever was typed and whenever (interactive.go:43-114).
THEOREM UsersDecide == Spec => []DecisionsAreTheUsers
<1>1. IInv => DecisionsAreTheUsers
  BY DEF IInv, CallIsJustified
<1> QED BY <1>1, InductiveInvariant, PTL

\* The terminal is raw only while Shell is at work, on a Unix terminal: whatever ends
\* a shell, no step is executed and nothing is asked in raw mode (docker.go:735-736;
\* tty_unix.go:26-29, 53-58).
THEOREM RawOnlyInShell == Spec => [](raw => pc \in InShell /\ setup.unix /\ setup.tty)
<1>1. IInv => (raw => pc \in InShell /\ setup.unix /\ setup.tty)
  BY DEF IInv, ShellIsWhere
<1> QED BY <1>1, InductiveInvariant, PTL

\* Two goroutines never forward stdin at once: a shell starts its own only when that
\* of the shell before is done (docker.go:749-781).
THEOREM OneForwarder == Spec => [][OpenShell => fwd \in {"none", "done"}]_vars
<1>1. IInv => (OpenShell => fwd \in {"none", "done"})
  BY DEF IInv, ShellIsWhere, InShell, OpenShell
<1> QED BY <1>1, InductiveInvariant, PTL
=============================================================================
