--------------------------- MODULE JobRunProofs ---------------------------
(***************************************************************************)
(* Proofs about JobRun for any jobs of any size: nothing is left behind,   *)
(* a step has its containers, the terminal has one user, and the steps and *)
(* the result of a job are those its history calls for.                    *)
(***************************************************************************)
EXTENDS JobRun, TLAPS

\* A free lock is nobody's.
FreeIsNobody == NoName \notin Name

\* Where runJob is says what it has found, created and registered.
InSteps == {"steps", "exec", "attach", "stream", "inspect", "lock", "prompt"}

PlaceOf(j) ==
    /\ jpc[j] \in {"idle", "image", "svcImage", "createNet", "returned"} => cleanups[j] = <<>>
    /\ jpc[j] \in {"svcImage", "createNet"} => Services(j) # {}
    /\ jpc[j] = "createNet" => svc[j] = 1
    /\ jpc[j] \in {"createSvc", "startSvc"} =>
        /\ svc[j] \in Services(j)
        /\ Net \in live[j]
        /\ 1..(svc[j] - 1) \subseteq live[j] \cap started[j]
    /\ jpc[j] = "startSvc" => svc[j] \in live[j]
    /\ jpc[j] \in {"create", "start"} \cup InSteps =>
        /\ Services(j) \subseteq live[j] \cap started[j]
        /\ Services(j) # {} => Net \in live[j]
    /\ jpc[j] \in {"start"} \cup InSteps => Main \in live[j]
    /\ jpc[j] \in InSteps => Main \in started[j]
    /\ Main \in started[j] => Services(j) \subseteq started[j]
    /\ jpc[j] \in {"lock", "prompt"} => trace[j] # <<>>

\* Whoever is to answer for a resource that exists: a registered cleanup, or the
\* daemon.  A network may outlast its removal, but only with a container that the
\* daemon answers for.
Covered(j, r) ==
    \/ r \in ToSet(cleanups[j])
    \/ r \in excused[j]
    \/ /\ r = Net /\ cleanups[j] = <<>> /\ jpc[j] \in {"cleanup", "returned"}
       /\ live[j] \cap excused[j] # {}

\* The network is the last to be removed, and what runs is there to be removed.
HoldingsOf(j) ==
    /\ running[j] \subseteq live[j] \ {Net}
    /\ astray[j] => Main \in running[j]
    /\ \A k \in DOMAIN cleanups[j] : k > 1 => cleanups[j][k] # Net
    /\ \A r \in live[j] : Covered(j, r)

\* Exactly the job at the prompt holds the lock on the terminal.
LockIsHeld == \A j \in Name : jpc[j] = "prompt" <=> ctrlMu = j

IInv ==
    /\ TypeOK
    /\ \A j \in Name : PlaceOf(j)
    /\ \A j \in Name : HoldingsOf(j)
    /\ LockIsHeld

-----------------------------------------------------------------------------
(* Facts about sequences. *)

LEMMA AppendAdds ==
    ASSUME NEW S, NEW s \in Seq(S), NEW e \in S
    PROVE  /\ Append(s, e) \in Seq(S)
           /\ Append(s, e) # <<>>
           /\ ToSet(Append(s, e)) = ToSet(s) \cup {e}
<1>1. /\ Len(Append(s, e)) = Len(s) + 1 /\ Len(s) \in Nat
      /\ Append(s, e)[Len(s) + 1] = e /\ \A i \in 1..Len(s) : Append(s, e)[i] = s[i]
  OBVIOUS
<1>2. DOMAIN Append(s, e) = 1..(Len(s) + 1) /\ DOMAIN s = 1..Len(s)
  OBVIOUS
<1> QED BY <1>1, <1>2 DEF ToSet

LEMMA FrontAndLast ==
    ASSUME NEW S, NEW s \in Seq(S), s # <<>>
    PROVE  /\ Front(s) \in Seq(S) /\ Last(s) \in S
           /\ ToSet(s) = ToSet(Front(s)) \cup {Last(s)}
           /\ \A k \in DOMAIN Front(s) : k \in DOMAIN s /\ Front(s)[k] = s[k]
           /\ Last(s) = s[Len(s)] /\ Len(s) \in DOMAIN s
           /\ Len(s) = 1 => Front(s) = <<>>
<1>1. Len(s) \in Nat \ {0} /\ DOMAIN s = 1..Len(s)
  OBVIOUS
<1>2. /\ Front(s) \in Seq(S) /\ DOMAIN Front(s) = 1..(Len(s) - 1)
      /\ \A k \in 1..(Len(s) - 1) : Front(s)[k] = s[k]
  BY <1>1 DEF Front
<1>3. Last(s) = s[Len(s)] /\ Last(s) \in S
  BY <1>1 DEF Last
<1>4. Len(s) = 1 => Front(s) = <<>>
  BY <1>1 DEF Front
<1> QED BY <1>1, <1>2, <1>3, <1>4 DEF ToSet

-----------------------------------------------------------------------------
(* A step of one job leaves the others alone. *)

Same(i) ==
    /\ jpc'[i] = jpc[i] /\ config'[i] = config[i] /\ svc'[i] = svc[i]
    /\ cleanups'[i] = cleanups[i] /\ live'[i] = live[i] /\ running'[i] = running[i]
    /\ started'[i] = started[i] /\ astray'[i] = astray[i] /\ excused'[i] = excused[i]
    /\ trace'[i] = trace[i]

LEMMA SameKeeps ==
    ASSUME NEW i \in Name, PlaceOf(i), HoldingsOf(i), Same(i)
    PROVE  PlaceOf(i)' /\ HoldingsOf(i)'
BY DEF PlaceOf, HoldingsOf, Covered, Same, Services, InSteps

\* What is left to show of a step of job j.
LEMMA StepOf ==
    ASSUME IInv, NEW j \in Name, TypeOK', \A i \in Name \ {j} : Same(i),
           PlaceOf(j)', HoldingsOf(j)', LockIsHeld'
    PROVE  IInv'
BY SameKeeps DEF IInv

LEMMA ConfigData ==
    ASSUME TypeOK, NEW j \in Name
    PROVE  /\ config[j].services \in 0..MaxServices
           /\ config[j].main \in Nat /\ config[j].after \in Nat
           /\ MaxServices \in Nat
BY ConfigsAssumption DEF TypeOK

LEMMA InitIInv == FreeIsNobody /\ Init => IInv
<1> SUFFICES ASSUME FreeIsNobody, Init PROVE IInv
  OBVIOUS
<1>1. TypeOK
  BY ConfigsAssumption DEF Init, TypeOK, Pcs, Phases, Errs
<1>2. \A j \in Name : PlaceOf(j) /\ HoldingsOf(j)
  BY DEF Init, PlaceOf, HoldingsOf, InSteps
<1>3. LockIsHeld
  BY DEF Init, LockIsHeld, FreeIsNobody
<1> QED BY <1>1, <1>2, <1>3 DEF IInv

-----------------------------------------------------------------------------
(* Each step of a job keeps the invariant. *)

LEMMA QuietKeeps ==
    ASSUME IInv, NEW j \in Name, UNCHANGED <<cleanups, daemon>>,
           jpc[j] \in {"cleanup", "returned"} => jpc'[j] \in {"cleanup", "returned"}
    PROVE  HoldingsOf(j)'
BY DEF IInv, HoldingsOf, Covered, daemon

LEMMA LockKeeps ==
    ASSUME IInv, NEW j \in Name, NEW to, jpc' = Set(jpc, j, to),
           jpc[j] # "prompt", to # "prompt", ctrlMu' = ctrlMu
    PROVE  LockIsHeld'
BY DEF IInv, TypeOK, LockIsHeld, Set

LEMMA BeginStep ==
    ASSUME IInv, NEW j \in Name, Begin(j)
    PROVE  IInv'
<1> USE DEF Begin, Goto, Set, jobLocals, daemon
<1>1. TypeOK'
  BY DEF IInv, TypeOK, Pcs, Phases, Errs
<1>2. \A i \in Name \ {j} : Same(i)
  BY DEF IInv, TypeOK, Same
<1>3. PlaceOf(j)'
  BY DEF IInv, TypeOK, PlaceOf, InSteps, Services
<1>4. HoldingsOf(j)'
  BY QuietKeeps DEF IInv, TypeOK
<1>5. LockIsHeld'
  BY LockKeeps
<1> QED BY <1>1, <1>2, <1>3, <1>4, <1>5, StepOf

LEMMA EnsureImageStep ==
    ASSUME IInv, NEW j \in Name, EnsureImage(j)
    PROVE  IInv'
<1> USE DEF EnsureImage, SetupFails, Goto, Set, jobLocals, daemon
<1>1. TypeOK'
  BY DEF IInv, TypeOK, Pcs, Phases, Errs
<1>2. \A i \in Name \ {j} : Same(i)
  BY DEF IInv, TypeOK, Same
<1>3. PlaceOf(j)'
  BY DEF IInv, TypeOK, PlaceOf, InSteps, Services
<1>4. HoldingsOf(j)'
  BY QuietKeeps DEF IInv, TypeOK
<1>5. LockIsHeld'
  BY LockKeeps
<1> QED BY <1>1, <1>2, <1>3, <1>4, <1>5, StepOf

LEMMA EnsureSvcImageStep ==
    ASSUME IInv, NEW j \in Name, EnsureSvcImage(j)
    PROVE  IInv'
<1> USE DEF EnsureSvcImage, SetupFails, Services, Goto, Set, jobLocals, daemon
<1>0. svc' \in [Name -> 1..(MaxServices + 1)]
  <2>1. svc[j] \in 1..config[j].services => svc[j] + 1 \in 1..(MaxServices + 1)
    BY ConfigData DEF IInv
  <2>2. svc \in [Name -> 1..(MaxServices + 1)] /\ 1 \in 1..(MaxServices + 1)
    BY ConfigData DEF IInv, TypeOK
  <2> QED BY <2>1, <2>2
<1>1. TypeOK'
  BY <1>0 DEF IInv, TypeOK, Pcs, Phases, Errs
<1>2. \A i \in Name \ {j} : Same(i)
  BY DEF IInv, TypeOK, Same
<1>3. PlaceOf(j)'
  BY ConfigData DEF IInv, TypeOK, PlaceOf, InSteps, Services
<1>4. HoldingsOf(j)'
  BY QuietKeeps DEF IInv, TypeOK
<1>5. LockIsHeld'
  BY LockKeeps
<1> QED BY <1>1, <1>2, <1>3, <1>4, <1>5, StepOf

LEMMA StartStepStep ==
    ASSUME IInv, NEW j \in Name, StartStep(j)
    PROVE  IInv'
<1> USE DEF StartStep, Goto, Set, jobLocals, daemon
<1>1. TypeOK'
  BY DEF IInv, TypeOK, Pcs, Phases, Errs
<1>2. \A i \in Name \ {j} : Same(i)
  BY DEF IInv, TypeOK, Same
<1>3. PlaceOf(j)'
  BY DEF IInv, TypeOK, PlaceOf, InSteps, Services
<1>4. HoldingsOf(j)'
  BY QuietKeeps DEF IInv, TypeOK
<1>5. LockIsHeld'
  BY LockKeeps
<1> QED BY <1>1, <1>2, <1>3, <1>4, <1>5, StepOf

LEMMA EndMainStep ==
    ASSUME IInv, NEW j \in Name, EndMain(j)
    PROVE  IInv'
<1> USE DEF EndMain, Goto, Set, jobLocals, daemon
<1>1. TypeOK'
  BY DEF IInv, TypeOK, Pcs, Phases, Errs
<1>2. \A i \in Name \ {j} : Same(i)
  BY DEF IInv, TypeOK, Same
<1>3. PlaceOf(j)'
  BY DEF IInv, TypeOK, PlaceOf, InSteps, Services
<1>4. HoldingsOf(j)'
  BY QuietKeeps DEF IInv, TypeOK
<1>5. LockIsHeld'
  BY LockKeeps
<1> QED BY <1>1, <1>2, <1>3, <1>4, <1>5, StepOf

LEMMA EndAfterStep ==
    ASSUME IInv, NEW j \in Name, EndAfter(j)
    PROVE  IInv'
<1> USE DEF EndAfter, Goto, Set, jobLocals, daemon
<1>1. TypeOK'
  BY DEF IInv, TypeOK, Pcs, Phases, Errs
<1>2. \A i \in Name \ {j} : Same(i)
  BY DEF IInv, TypeOK, Same
<1>3. PlaceOf(j)'
  BY DEF IInv, TypeOK, PlaceOf, InSteps, Services
<1>4. HoldingsOf(j)'
  BY QuietKeeps DEF IInv, TypeOK
<1>5. LockIsHeld'
  BY LockKeeps
<1> QED BY <1>1, <1>2, <1>3, <1>4, <1>5, StepOf

LEMMA LogDoneStep ==
    ASSUME IInv, NEW j \in Name, LogDone(j)
    PROVE  IInv'
<1> USE DEF LogDone, Goto, Set, jobLocals, daemon
<1>1. TypeOK'
  BY DEF IInv, TypeOK, Pcs, Phases, Errs
<1>2. \A i \in Name \ {j} : Same(i)
  BY DEF IInv, TypeOK, Same
<1>3. PlaceOf(j)'
  BY DEF IInv, TypeOK, PlaceOf, InSteps, Services
<1>4. HoldingsOf(j)'
  BY QuietKeeps DEF IInv, TypeOK
<1>5. LockIsHeld'
  BY LockKeeps
<1> QED BY <1>1, <1>2, <1>3, <1>4, <1>5, StepOf

LEMMA ReturnStep ==
    ASSUME IInv, NEW j \in Name, Return(j)
    PROVE  IInv'
<1> USE DEF Return, Goto, Set, jobLocals, daemon
<1>1. TypeOK'
  BY DEF IInv, TypeOK, Pcs, Phases, Errs
<1>2. \A i \in Name \ {j} : Same(i)
  BY DEF IInv, TypeOK, Same
<1>3. PlaceOf(j)'
  BY DEF IInv, TypeOK, PlaceOf, InSteps, Services
<1>4. HoldingsOf(j)'
  BY QuietKeeps DEF IInv, TypeOK
<1>5. LockIsHeld'
  BY LockKeeps
<1> QED BY <1>1, <1>2, <1>3, <1>4, <1>5, StepOf

-----------------------------------------------------------------------------
(* Calls that create or start a resource. *)

LEMMA CreatesKeeps ==
    ASSUME IInv, NEW j \in Name, NEW r \in Resources, NEW from \in Pcs, NEW to \in Pcs,
           NEW answer \in Answers, Creates(j, r, from, to, answer),
           from \notin {"prompt", "cleanup", "returned"}, to # "prompt",
           r = Net => cleanups[j] = <<>>
    PROVE  /\ TypeOK' /\ LockIsHeld' /\ HoldingsOf(j)'
           /\ \A i \in Name \ {j} : Same(i)
<1> USE DEF Creates, SetupFails, Goto, Set
<1>1. /\ cleanups[j] \in Seq(Resources)
      /\ Append(cleanups[j], r) \in Seq(Resources)
      /\ ToSet(Append(cleanups[j], r)) = ToSet(cleanups[j]) \cup {r}
  BY AppendAdds DEF IInv, TypeOK
<1>2. TypeOK'
  BY <1>1 DEF IInv, TypeOK, Pcs, Errs
<1>3. \A i \in Name \ {j} : Same(i)
  BY DEF IInv, TypeOK, Same
<1>4. LockIsHeld'
  BY DEF IInv, TypeOK, LockIsHeld
<1>5. HoldingsOf(j)'
  <2>1. CASE answer = "ok"
    <3>1. /\ cleanups'[j] = Append(cleanups[j], r) /\ live'[j] = live[j] \cup {r}
          /\ running'[j] = running[j] /\ astray'[j] = astray[j] /\ excused'[j] = excused[j]
      BY <2>1 DEF IInv, TypeOK
    <3>2. \A k \in DOMAIN cleanups'[j] : k > 1 => cleanups'[j][k] # Net
      BY <1>1, <3>1 DEF IInv, HoldingsOf
    <3>3. \A x \in live'[j] : Covered(j, x)'
      BY <1>1, <2>1, <3>1 DEF IInv, HoldingsOf, Covered
    <3> QED BY <3>1, <3>2, <3>3 DEF IInv, HoldingsOf
  <2>2. CASE answer # "ok"
    <3>1. /\ cleanups'[j] = cleanups[j] /\ running'[j] = running[j] /\ astray'[j] = astray[j]
          /\ \/ live'[j] = live[j] /\ excused'[j] = excused[j]
             \/ live'[j] = live[j] \cup {r} /\ excused'[j] = excused[j] \cup {r}
      BY <2>2 DEF IInv, TypeOK, Answers
    <3> QED BY <2>2, <3>1 DEF IInv, HoldingsOf, Covered
  <2> QED BY <2>1, <2>2
<1> QED BY <1>2, <1>3, <1>4, <1>5

LEMMA CreateNetworkStep ==
    ASSUME IInv, NEW j \in Name, NEW answer \in Answers, CreateNetwork(j, answer)
    PROVE  IInv'
<1> USE DEF CreateNetwork
<1>1. /\ TypeOK' /\ LockIsHeld' /\ HoldingsOf(j)'
      /\ \A i \in Name \ {j} : Same(i)
  <2>1. cleanups[j] = <<>>
    BY DEF IInv, PlaceOf, Creates, SetupFails, Goto
  <2>2. Net \in Resources
    BY ConfigsAssumption DEF Net, Resources, Main
  <2> QED BY <2>1, <2>2, CreatesKeeps DEF Pcs
<1>2. PlaceOf(j)'
  <2>1. svc[j] = 1 /\ 1 \in Services(j) /\ config' = config /\ svc' = svc
    BY ConfigData DEF IInv, PlaceOf, Services, Creates, SetupFails, Goto
  <2>2. \/ jpc'[j] = "createSvc" /\ Net \in live'[j]
        \/ jpc'[j] = "logDone"
    BY DEF IInv, TypeOK, Creates, SetupFails, Goto, Set, Answers
  <2>3. started' = started /\ (Main \in started[j] => Services(j) \subseteq started[j])
    BY DEF IInv, PlaceOf, Creates
  <2> QED BY <2>1, <2>2, <2>3 DEF PlaceOf, InSteps, Services
<1> QED BY <1>1, <1>2, StepOf

LEMMA CreateServiceStep ==
    ASSUME IInv, NEW j \in Name, NEW answer \in Answers, CreateService(j, answer)
    PROVE  IInv'
<1> USE DEF CreateService
<1>1. /\ TypeOK' /\ LockIsHeld' /\ HoldingsOf(j)'
      /\ \A i \in Name \ {j} : Same(i)
  <2>1. svc[j] \in Resources /\ svc[j] # Net
    BY ConfigsAssumption DEF IInv, TypeOK, Net, Resources, Main
  <2> QED BY <2>1, CreatesKeeps DEF Pcs
<1>2. PlaceOf(j)'
  <2>1. /\ svc[j] \in Services(j) /\ Net \in live[j]
        /\ 1..(svc[j] - 1) \subseteq live[j] \cap started[j]
        /\ Main \in started[j] => Services(j) \subseteq started[j]
        /\ config' = config /\ svc' = svc /\ started' = started
    BY DEF IInv, PlaceOf, Creates, SetupFails, Goto
  <2>2. \/ jpc'[j] = "startSvc" /\ live'[j] = live[j] \cup {svc[j]}
        \/ jpc'[j] = "logDone"
    BY DEF IInv, TypeOK, Creates, SetupFails, Goto, Set, Answers
  <2> QED BY <2>1, <2>2 DEF PlaceOf, InSteps, Services
<1> QED BY <1>1, <1>2, StepOf

LEMMA CreateContainerStep ==
    ASSUME IInv, NEW j \in Name, NEW answer \in Answers, CreateContainer(j, answer)
    PROVE  IInv'
<1> USE DEF CreateContainer
<1>1. /\ TypeOK' /\ LockIsHeld' /\ HoldingsOf(j)'
      /\ \A i \in Name \ {j} : Same(i)
  <2>1. Main \in Resources /\ Main # Net
    BY ConfigsAssumption DEF Net, Resources, Main
  <2> QED BY <2>1, CreatesKeeps DEF Pcs
<1>2. PlaceOf(j)'
  BY DEF IInv, TypeOK, PlaceOf, InSteps, Services, Creates, SetupFails, Goto, Set
<1> QED BY <1>1, <1>2, StepOf

LEMMA StartsKeeps ==
    ASSUME IInv, NEW j \in Name, NEW r \in live[j], r # Net, NEW from \in Pcs, NEW to \in Pcs,
           NEW answer \in Answers, Starts(j, r, from, to, answer),
           from \notin {"prompt", "cleanup", "returned"}, to \notin {"prompt", "logDone"},
           svc' \in [Name -> 1..(MaxServices + 1)], \A i \in Name \ {j} : svc'[i] = svc[i]
    PROVE  /\ TypeOK' /\ LockIsHeld' /\ HoldingsOf(j)'
           /\ \A i \in Name \ {j} : Same(i)
           /\ jpc'[j] = to => started'[j] = started[j] \cup {r}
           /\ started'[j] = started[j] \/ started'[j] = started[j] \cup {r}
<1> USE DEF Starts, SetupFails, Goto, Set
<1>0. r \in Resources
  BY DEF IInv, TypeOK
<1>1. TypeOK'
  <2>1. running' \in [Name -> SUBSET Resources] /\ started' \in [Name -> SUBSET Resources]
    <3>1. running \in [Name -> SUBSET Resources] /\ started \in [Name -> SUBSET Resources]
      BY DEF IInv, TypeOK
    <3>2. running[j] \cup {r} \in SUBSET Resources /\ started[j] \cup {r} \in SUBSET Resources
      BY <1>0, <3>1
    <3>3. /\ running' = running \/ running' = [running EXCEPT ![j] = running[j] \cup {r}]
          /\ started' = started \/ started' = [started EXCEPT ![j] = started[j] \cup {r}]
      OBVIOUS
    <3> HIDE DEF Starts
    <3> QED BY <3>1, <3>2, <3>3
  <2>2. jpc' \in [Name -> Pcs] /\ retErr' \in [Name -> Errs]
    BY DEF IInv, TypeOK, Pcs, Errs
  <2> QED BY <2>1, <2>2 DEF IInv, TypeOK
<1>2. \A i \in Name \ {j} : Same(i)
  BY DEF IInv, TypeOK, Same
<1>3. LockIsHeld'
  BY DEF IInv, TypeOK, LockIsHeld
<1>4. HoldingsOf(j)'
  BY DEF IInv, TypeOK, HoldingsOf, Covered
<1>5. /\ jpc'[j] = to => started'[j] = started[j] \cup {r}
      /\ started'[j] = started[j] \/ started'[j] = started[j] \cup {r}
  BY DEF IInv, TypeOK, Answers
<1> QED BY <1>1, <1>2, <1>3, <1>4, <1>5

LEMMA StartServiceStep ==
    ASSUME IInv, NEW j \in Name, NEW answer \in Answers, StartService(j, answer)
    PROVE  IInv'
<1> USE DEF StartService
<1>1. /\ svc[j] \in Services(j) /\ svc[j] \in live[j] /\ svc[j] # Net /\ jpc[j] = "startSvc"
      /\ Net \in live[j] /\ 1..(svc[j] - 1) \subseteq live[j] \cap started[j]
      /\ Main \in started[j] => Services(j) \subseteq started[j]
  BY ConfigData DEF IInv, PlaceOf, Services, Net, Starts, SetupFails, Goto
<1>2. svc' \in [Name -> 1..(MaxServices + 1)] /\ \A i \in Name \ {j} : svc'[i] = svc[i]
  BY <1>1, ConfigData DEF IInv, TypeOK, Services, Set
<1>3. /\ TypeOK' /\ LockIsHeld' /\ HoldingsOf(j)'
      /\ \A i \in Name \ {j} : Same(i)
      /\ jpc'[j] \in {"createSvc", "create"} => started'[j] = started[j] \cup {svc[j]}
      /\ started'[j] = started[j] \/ started'[j] = started[j] \cup {svc[j]}
  <2> DEFINE to == IF svc[j] + 1 \in Services(j) THEN "createSvc" ELSE "create"
  <2>1. Starts(j, svc[j], "startSvc", to, answer)
    OBVIOUS
  <2>2. jpc'[j] \in {"createSvc", "create"} => jpc'[j] = to
    BY DEF IInv, TypeOK, Starts, SetupFails, Goto, Set
  <2>3. to \in Pcs /\ to \notin {"prompt", "logDone"} /\ "startSvc" \in Pcs
    BY DEF Pcs
  <2> HIDE DEF to, StartService
  <2>4. /\ TypeOK' /\ LockIsHeld' /\ HoldingsOf(j)'
        /\ \A i \in Name \ {j} : Same(i)
        /\ jpc'[j] = to => started'[j] = started[j] \cup {svc[j]}
        /\ started'[j] = started[j] \/ started'[j] = started[j] \cup {svc[j]}
    BY <1>1, <1>2, <2>1, <2>3, StartsKeeps
  <2> QED BY <2>2, <2>4
<1>4. PlaceOf(j)'
  <2>1. config' = config /\ live' = live /\ svc'[j] = svc[j] + 1
    BY DEF IInv, TypeOK, Starts, Set
  <2>3. Main \in started'[j] => Services(j) \subseteq started'[j]
    <3>1. svc[j] # Main
      BY <1>1, ConfigData DEF IInv, Main, Services
    <3> QED BY <1>1, <1>3, <3>1
  <2>2. \/ jpc'[j] = "logDone"
        \/ jpc'[j] = "createSvc" /\ svc[j] + 1 \in Services(j)
        \/ jpc'[j] = "create" /\ svc[j] + 1 \notin Services(j)
    BY <1>1 DEF IInv, TypeOK, Starts, SetupFails, Goto, Set
  <2>4. svc[j] \in Nat /\ 1..svc[j] = 1..(svc[j] - 1) \cup {svc[j]}
    BY <1>1, ConfigData DEF IInv, Services
  <2>8. /\ 1..svc[j] \subseteq live[j]
        /\ jpc'[j] \in {"createSvc", "create"} => 1..svc[j] \subseteq started'[j]
    BY <1>1, <1>3, <2>4
  <2>5. CASE jpc'[j] = "createSvc"
    BY <1>1, <2>1, <2>2, <2>3, <2>4, <2>5, <2>8 DEF PlaceOf, InSteps, Services
  <2>6. CASE jpc'[j] = "create"
    <3>1. Services(j) \subseteq 1..svc[j]
      BY <1>1, <2>2, <2>4, <2>6, ConfigData DEF IInv, Services
    <3> QED BY <1>1, <2>1, <2>3, <2>6, <2>8, <3>1 DEF PlaceOf, InSteps, Services
  <2>7. CASE jpc'[j] = "logDone"
    BY <2>1, <2>3, <2>7 DEF PlaceOf, InSteps, Services
  <2> QED BY <2>2, <2>5, <2>6, <2>7
<1> QED BY <1>3, <1>4, StepOf

LEMMA StartContainerStep ==
    ASSUME IInv, NEW j \in Name, NEW answer \in Answers, StartContainer(j, answer)
    PROVE  IInv'
<1> USE DEF StartContainer
<1>1. Main \in live[j] /\ Main # Net
  BY ConfigsAssumption DEF IInv, PlaceOf, Net, Main, Starts, SetupFails, Goto
<1>2. /\ TypeOK' /\ LockIsHeld' /\ HoldingsOf(j)'
      /\ \A i \in Name \ {j} : Same(i)
      /\ jpc'[j] = "steps" => started'[j] = started[j] \cup {Main}
      /\ started'[j] = started[j] \/ started'[j] = started[j] \cup {Main}
  BY <1>1, StartsKeeps DEF IInv, TypeOK, Pcs
<1>3. PlaceOf(j)'
  BY <1>2 DEF IInv, TypeOK, PlaceOf, InSteps, Services, Starts, SetupFails, Goto, Set
<1> QED BY <1>2, <1>3, StepOf

-----------------------------------------------------------------------------
(* runSteps and execStep. *)

\* What execStep's return changes, but for where the job goes.
LEMMA FinishKeeps ==
    ASSUME IInv, NEW j \in Name, NEW from \in InSteps \ {"prompt"}, NEW failed \in BOOLEAN,
           FinishStep(j, from, failed)
    PROVE  /\ jpc \in [Name -> Pcs] /\ jpc' \in [Name -> Pcs]
           /\ jpc[j] = from /\ jpc'[j] \in {"lock", "steps"}
           /\ \A i \in Name \ {j} : jpc'[i] = jpc[i] /\ trace'[i] = trace[i]
           /\ step' \in [Name -> Nat \ {0}] /\ firstErr' \in [Name -> Errs]
           /\ trace' \in [Name -> Seq(StepRun)] /\ trace'[j] # <<>>
<1> USE DEF FinishStep, Goto, Set
<1>1. /\ jpc \in [Name -> Pcs] /\ jpc' \in [Name -> Pcs]
      /\ jpc[j] = from /\ jpc'[j] \in {"lock", "steps"}
      /\ \A i \in Name \ {j} : jpc'[i] = jpc[i]
  BY DEF IInv, TypeOK, Pcs
<1>2. step' \in [Name -> Nat \ {0}]
  <2>1. StepCount(j) + 1 \in Nat \ {0} /\ step[j] + 1 \in Nat \ {0}
    <3>1. TypeOK /\ step[j] \in Nat
      BY DEF IInv, TypeOK
    <3>2. StepCount(j) \in Nat
      BY <3>1, ConfigData DEF StepCount
    <3> QED BY <3>1, <3>2
  <2>2. \/ step' = step
        \/ \E n \in Nat \ {0} : step' = [step EXCEPT ![j] = n]
    BY <2>1
  <2> QED BY <2>2 DEF IInv, TypeOK
<1>3. firstErr' \in [Name -> Errs]
  <2>1. phase[j] \in Errs /\ firstErr[j] \in Errs
    BY DEF IInv, TypeOK, Errs, Phases
  <2>2. \/ firstErr' = firstErr
        \/ \E e \in Errs : firstErr' = [firstErr EXCEPT ![j] = e]
    BY <2>1
  <2> QED BY <2>2 DEF IInv, TypeOK
<1>4. DEFINE r == [phase |-> phase[j], step |-> step[j], failed |-> failed, decision |-> "none"]
<1>5. r \in StepRun
  BY DEF IInv, TypeOK, StepRun
<1>6. Append(trace[j], r) \in Seq(StepRun) /\ Append(trace[j], r) # <<>>
  BY <1>5, AppendAdds DEF IInv, TypeOK
<1>7. trace' = [trace EXCEPT ![j] = Append(trace[j], r)]
  OBVIOUS
<1> HIDE DEF r
<1>8. /\ trace' \in [Name -> Seq(StepRun)] /\ trace'[j] # <<>>
      /\ \A i \in Name \ {j} : trace'[i] = trace[i]
  BY <1>6, <1>7 DEF IInv, TypeOK
<1> QED BY <1>1, <1>2, <1>3, <1>8

LEMMA ExecKeeps ==
    ASSUME IInv, NEW j \in Name, NEW from \in InSteps \ {"prompt"},
           NEW to \in InSteps \ {"lock", "prompt"}, NEW goesOn \in BOOLEAN,
           ExecGoesOn(j, from, to, goesOn),
           NEW more \in BOOLEAN, more => Main \in running[j],
           astray' = Set(astray, j, astray[j] \/ more)
    PROVE  IInv'
<1> USE DEF ExecGoesOn
<1>1. /\ jpc \in [Name -> Pcs] /\ jpc' \in [Name -> Pcs]
      /\ jpc[j] = from /\ jpc'[j] \in InSteps \ {"prompt"}
      /\ jpc'[j] = "lock" => trace'[j] # <<>>
      /\ \A i \in Name \ {j} : jpc'[i] = jpc[i] /\ trace'[i] = trace[i]
      /\ step' \in [Name -> Nat \ {0}] /\ firstErr' \in [Name -> Errs]
      /\ trace' \in [Name -> Seq(StepRun)]
  <2>1. CASE goesOn
    <3>1. Goto(j, from, to) /\ trace' = trace /\ firstErr' = firstErr /\ step' = step
      BY <2>1
    <3>2. InSteps \subseteq Pcs /\ to # "lock"
      BY DEF InSteps, Pcs
    <3> QED BY <3>1, <3>2 DEF IInv, TypeOK, Goto, Set
  <2>2. CASE ~goesOn
    BY <2>2, FinishKeeps DEF InSteps
  <2> QED BY <2>1, <2>2
<1>2. astray' \in [Name -> BOOLEAN] /\ \A i \in Name \ {j} : astray'[i] = astray[i]
  BY DEF IInv, TypeOK, Set
<1>3. TypeOK'
  BY <1>1, <1>2 DEF IInv, TypeOK
<1>4. \A i \in Name \ {j} : Same(i)
  BY <1>1, <1>2 DEF Same
<1>5. PlaceOf(j)'
  BY <1>1 DEF IInv, PlaceOf, InSteps, Services
<1>6. HoldingsOf(j)'
  <2>1. astray'[j] = (astray[j] \/ more)
    BY DEF IInv, TypeOK, Set
  <2>2. jpc[j] \notin {"cleanup", "returned"}
    BY <1>1 DEF InSteps
  <2> QED BY <2>1, <2>2 DEF IInv, HoldingsOf, Covered
<1>7. LockIsHeld'
  BY <1>1 DEF IInv, LockIsHeld, InSteps
<1> QED BY <1>3, <1>4, <1>5, <1>6, <1>7, StepOf

LEMMA ExecCreateStep ==
    ASSUME IInv, NEW j \in Name, NEW answer \in Answers, ExecCreate(j, answer)
    PROVE  IInv'
<1>1. astray' = Set(astray, j, astray[j] \/ FALSE)
  BY DEF IInv, TypeOK, ExecCreate, Set
<1>2. ExecGoesOn(j, "exec", "attach", answer = "ok" /\ Main \in running[j])
  BY DEF ExecCreate
<1> QED BY <1>1, <1>2, ExecKeeps DEF InSteps

LEMMA ExecAttachStep ==
    ASSUME IInv, NEW j \in Name, NEW answer \in Answers, ExecAttach(j, answer)
    PROVE  IInv'
BY ExecKeeps DEF ExecAttach, InSteps

LEMMA StreamEndsStep ==
    ASSUME IInv, NEW j \in Name, NEW how, StreamEnds(j, how)
    PROVE  IInv'
BY ExecKeeps DEF StreamEnds, InSteps

LEMMA InspectStep ==
    ASSUME IInv, NEW j \in Name, NEW failed \in BOOLEAN, Inspect(j, failed)
    PROVE  IInv'
<1> USE DEF Inspect, jobLocals, daemon
<1>1. /\ jpc' \in [Name -> Pcs] /\ jpc[j] = "inspect" /\ jpc'[j] \in {"lock", "steps"}
      /\ \A i \in Name \ {j} : jpc'[i] = jpc[i] /\ trace'[i] = trace[i]
      /\ step' \in [Name -> Nat \ {0}] /\ firstErr' \in [Name -> Errs]
      /\ trace' \in [Name -> Seq(StepRun)] /\ trace'[j] # <<>>
  BY FinishKeeps DEF InSteps
<1>2. TypeOK'
  BY <1>1 DEF IInv, TypeOK
<1>3. \A i \in Name \ {j} : Same(i)
  BY <1>1 DEF Same
<1>4. PlaceOf(j)'
  BY <1>1 DEF IInv, PlaceOf, InSteps, Services
<1>5. HoldingsOf(j)'
  BY <1>1, QuietKeeps
<1>6. LockIsHeld'
  BY <1>1 DEF IInv, LockIsHeld
<1> QED BY <1>2, <1>3, <1>4, <1>5, <1>6, StepOf

LEMMA LockCtrlStep ==
    ASSUME FreeIsNobody, IInv, NEW j \in Name, LockCtrl(j)
    PROVE  IInv'
<1> USE DEF LockCtrl, Goto, Set, jobLocals, daemon
<1>1. TypeOK'
  BY DEF IInv, TypeOK, Pcs
<1>2. \A i \in Name \ {j} : Same(i)
  BY DEF IInv, TypeOK, Same
<1>3. PlaceOf(j)'
  BY DEF IInv, TypeOK, PlaceOf, InSteps, Services
<1>4. HoldingsOf(j)'
  BY QuietKeeps DEF IInv, TypeOK
<1>5. LockIsHeld'
  BY DEF IInv, TypeOK, LockIsHeld, FreeIsNobody
<1> QED BY <1>1, <1>2, <1>3, <1>4, <1>5, StepOf

LEMMA DecideStep ==
    ASSUME FreeIsNobody, IInv, NEW j \in Name, NEW decision \in Decisions, Decide(j, decision)
    PROVE  IInv'
<1> USE DEF Decide, Decided, Goto, Set, daemon
<1>1. /\ trace' \in [Name -> Seq(StepRun)]
      /\ \A i \in Name \ {j} : trace'[i] = trace[i]
  <2>1. trace[j] \in Seq(StepRun) /\ trace[j] # <<>>
    BY DEF IInv, TypeOK, PlaceOf
  <2>2. Front(trace[j]) \in Seq(StepRun) /\ Last(trace[j]) \in StepRun
    BY <2>1, FrontAndLast
  <2>3. [Last(trace[j]) EXCEPT !.decision = decision] \in StepRun
    BY <2>2 DEF StepRun
  <2>4. Append(Front(trace[j]), [Last(trace[j]) EXCEPT !.decision = decision]) \in Seq(StepRun)
    BY <2>2, <2>3, AppendAdds
  <2> QED BY <2>4 DEF IInv, TypeOK
<1>2. retErr' \in [Name -> Errs]
  <2>1. Errs = Phases \cup {"nil", "setup", "aborted"}
    BY DEF Errs, Phases
  <2> QED BY <2>1 DEF IInv, TypeOK, AbortErr, FailureOr
<1>3. step' \in [Name -> Nat \ {0}]
  BY DEF IInv, TypeOK, MovesOn
<1>4. /\ jpc' \in [Name -> Pcs] /\ jpc[j] = "prompt" /\ jpc'[j] \in {"logDone", "steps"}
      /\ \A i \in Name \ {j} : jpc'[i] = jpc[i]
  BY DEF IInv, TypeOK, Pcs
<1>5. TypeOK'
  BY <1>1, <1>2, <1>3, <1>4 DEF IInv, TypeOK
<1>6. \A i \in Name \ {j} : Same(i)
  BY <1>1, <1>4 DEF Same
<1>7. PlaceOf(j)'
  BY <1>4 DEF IInv, PlaceOf, InSteps, Services
<1>8. HoldingsOf(j)'
  BY <1>4, QuietKeeps
<1>9. LockIsHeld'
  BY <1>4 DEF IInv, LockIsHeld, FreeIsNobody
<1> QED BY <1>5, <1>6, <1>7, <1>8, <1>9, StepOf

-----------------------------------------------------------------------------
(* The end, and what the daemon does by itself. *)

LEMMA CleanupStep ==
    ASSUME IInv, NEW j \in Name, NEW answer \in Answers, Cleanup(j, answer)
    PROVE  IInv'
<1> DEFINE r == Last(cleanups[j])
           rest == Front(cleanups[j])
<1>1. /\ cleanups[j] \in Seq(Resources) /\ rest \in Seq(Resources) /\ r \in Resources
      /\ ToSet(cleanups[j]) = ToSet(rest) \cup {r}
      /\ \A k \in DOMAIN rest : k \in DOMAIN cleanups[j] /\ rest[k] = cleanups[j][k]
      /\ r = Net => rest = <<>>
  <2>1. cleanups[j] \in Seq(Resources) /\ cleanups[j] # <<>> /\ Len(cleanups[j]) \in Nat \ {0}
    BY DEF IInv, TypeOK, Cleanup
  <2>2. r = cleanups[j][Len(cleanups[j])] /\ Len(cleanups[j]) \in DOMAIN cleanups[j]
    BY <2>1, FrontAndLast
  <2>3. Len(cleanups[j]) > 1 => r # Net
    BY <2>2 DEF IInv, HoldingsOf
  <2>4. r = Net => Len(cleanups[j]) = 1
    <3>1. \A n \in Nat \ {0} : n > 1 \/ n = 1
      OBVIOUS
    <3> QED BY <2>1, <2>3, <3>1, Zenon
  <2> QED BY <2>1, <2>4, FrontAndLast
<1>2. RunCleanup(j, r, rest, answer)
  BY DEF Cleanup
<1> HIDE DEF r, rest
<1> USE DEF RunCleanup, Set
<1>3. jpc[j] = "cleanup" /\ jpc' = jpc
  BY <1>2
<1>4. TypeOK'
  <2>1. cleanups' \in [Name -> Seq(Resources)]
    BY <1>1, <1>2 DEF IInv, TypeOK
  <2>2. /\ live[j] \ {r} \in SUBSET Resources /\ running[j] \ {r} \in SUBSET Resources
        /\ excused[j] \cup {r} \in SUBSET Resources
    BY <1>1 DEF IInv, TypeOK
  <2>3. /\ live' = live \/ live' = [live EXCEPT ![j] = live[j] \ {r}]
        /\ running' = running \/ running' = [running EXCEPT ![j] = running[j] \ {r}]
        /\ excused' = excused \/ excused' = [excused EXCEPT ![j] = excused[j] \cup {r}]
    BY <1>2
  <2>4. astray' \in [Name -> BOOLEAN]
    <3>1. (astray[j] /\ r # Main) \in BOOLEAN
      OBVIOUS
    <3> QED BY <1>2, <3>1 DEF IInv, TypeOK
  <2>5. live' \in [Name -> SUBSET Resources]
    BY <2>2, <2>3 DEF IInv, TypeOK
  <2>6. running' \in [Name -> SUBSET Resources]
    BY <2>2, <2>3 DEF IInv, TypeOK
  <2>7. excused' \in [Name -> SUBSET Resources]
    BY <2>2, <2>3 DEF IInv, TypeOK
  <2> QED BY <1>2, <2>1, <2>4, <2>5, <2>6, <2>7 DEF IInv, TypeOK
<1>5. \A i \in Name \ {j} : Same(i)
  BY <1>2 DEF IInv, TypeOK, Same
<1>6. PlaceOf(j)'
  BY <1>2, <1>3 DEF IInv, PlaceOf, InSteps, Services
<1>7. HoldingsOf(j)'
  <2>1. cleanups'[j] = rest
    BY <1>2 DEF IInv, TypeOK
  <2>2. \A k \in DOMAIN rest : k > 1 => rest[k] # Net
    BY <1>1 DEF IInv, HoldingsOf
  <2>3. /\ running[j] \subseteq live[j] \ {Net} /\ (astray[j] => Main \in running[j])
        /\ \A x \in live[j] : x \in ToSet(rest) \/ x = r \/ x \in excused[j]
    BY <1>1, <1>2, <1>3 DEF IInv, HoldingsOf, Covered, Cleanup
  <2>4. CASE /\ live' = Set(live, j, live[j] \ {r})
             /\ running' = Set(running, j, running[j] \ {r})
             /\ astray' = Set(astray, j, astray[j] /\ r # Main)
             /\ excused' = excused
    BY <2>1, <2>2, <2>3, <2>4 DEF IInv, TypeOK, HoldingsOf, Covered
  <2>5. CASE /\ excused' = Set(excused, j, excused[j] \cup {r})
             /\ UNCHANGED <<live, running, astray>>
    BY <2>1, <2>2, <2>3, <2>5 DEF IInv, TypeOK, HoldingsOf, Covered
  <2>6. CASE MustRefuse(j, r) /\ UNCHANGED <<live, running, astray, excused>>
    <3>1. r = Net /\ rest = <<>> /\ running[j] # {}
      BY <1>1, <2>6 DEF MustRefuse
    <3>2. ToSet(rest) = {}
      BY <3>1 DEF ToSet
    <3>3. live[j] \cap excused[j] # {}
      <4>1. PICK x \in running[j] : TRUE
        BY <3>1
      <4>2. x \in live[j] /\ x # r
        BY <2>3, <3>1, <4>1
      <4> QED BY <2>3, <3>2, <4>2
    <3>4. \A x \in live'[j] : Covered(j, x)'
      BY <1>3, <2>1, <2>3, <2>6, <3>1, <3>2, <3>3 DEF Covered
    <3>5. running'[j] \subseteq live'[j] \ {Net} /\ (astray'[j] => Main \in running'[j])
      BY <2>3, <2>6
    <3>6. \A k \in DOMAIN cleanups'[j] : k > 1 => cleanups'[j][k] # Net
      BY <2>1, <2>2
    <3> QED BY <3>4, <3>5, <3>6 DEF HoldingsOf
  <2> QED BY <1>2, <2>4, <2>5, <2>6
<1>8. LockIsHeld'
  BY <1>2 DEF IInv, LockIsHeld
<1> QED BY <1>4, <1>5, <1>6, <1>7, <1>8, StepOf

LEMMA ContainerExitsStep ==
    ASSUME IInv, NEW j \in Name, NEW r \in Resources, ContainerExits(j, r)
    PROVE  IInv'
<1> USE DEF ContainerExits, Set, jobLocals
<1>1. TypeOK'
  BY DEF IInv, TypeOK
<1>2. \A i \in Name \ {j} : Same(i)
  BY DEF IInv, TypeOK, Same
<1>3. PlaceOf(j)' /\ LockIsHeld'
  BY DEF IInv, PlaceOf, LockIsHeld, InSteps, Services
<1>4. HoldingsOf(j)'
  BY DEF IInv, TypeOK, HoldingsOf, Covered
<1> QED BY <1>1, <1>2, <1>3, <1>4, StepOf

LEMMA StrayEndsStep ==
    ASSUME IInv, NEW j \in Name, StrayEnds(j)
    PROVE  IInv'
<1> USE DEF StrayEnds, Set, jobLocals
<1>1. TypeOK'
  BY DEF IInv, TypeOK
<1>2. \A i \in Name \ {j} : Same(i)
  BY DEF IInv, TypeOK, Same
<1>3. PlaceOf(j)' /\ LockIsHeld'
  BY DEF IInv, PlaceOf, LockIsHeld, InSteps, Services
<1>4. HoldingsOf(j)'
  BY DEF IInv, TypeOK, HoldingsOf, Covered
<1> QED BY <1>1, <1>2, <1>3, <1>4, StepOf

LEMMA NextIInv ==
    ASSUME FreeIsNobody, IInv, [Next]_vars
    PROVE  IInv'
<1>1. ASSUME NEW j \in Name, Inner(j)
      PROVE  IInv'
  <2>1. CASE DockerCall(j)
    BY <2>1, EnsureImageStep, EnsureSvcImageStep, CreateNetworkStep, CreateServiceStep,
       StartServiceStep, CreateContainerStep, StartContainerStep, CleanupStep,
       ExecCreateStep, ExecAttachStep, InspectStep DEF DockerCall
  <2> QED BY <1>1, <2>1, StartStepStep, LockCtrlStep, EndMainStep, EndAfterStep DEF Inner
<1>2. ASSUME NEW j \in Name, StepEnds(j)
      PROVE  IInv'
  BY <1>2, StreamEndsStep DEF StepEnds
<1>3. ASSUME NEW j \in Name, Answered(j)
      PROVE  IInv'
  BY <1>3, DecideStep DEF Answered
<1>4. ASSUME NEW j \in Name, Begin(j) \/ LogDone(j) \/ Return(j)
      PROVE  IInv'
  BY <1>4, BeginStep, LogDoneStep, ReturnStep
<1>5. ASSUME NEW j \in Name, Daemon(j)
      PROVE  IInv'
  BY <1>5, StrayEndsStep, ContainerExitsStep DEF Daemon
<1>6. CASE UNCHANGED vars
  <2>1. \A i \in Name : Same(i)
    BY <1>6 DEF vars, jobLocals, daemon, Same
  <2>2. TypeOK' /\ LockIsHeld'
    BY <1>6 DEF vars, jobLocals, daemon, IInv, TypeOK, LockIsHeld
  <2> QED BY <2>1, <2>2, SameKeeps DEF IInv
<1> QED BY <1>1, <1>2, <1>3, <1>4, <1>5, <1>6 DEF Next, Terminated

-----------------------------------------------------------------------------
(* The theorems. *)

\* Every reachable state of the jobs satisfies the inductive invariant, the types
\* included, however many jobs, services and steps there are (docker.go:385-569).
THEOREM InductiveInvariant == ASSUME FreeIsNobody PROVE Spec => []IInv
<1>1. Init => IInv
  BY InitIInv
<1>2. IInv /\ [Next]_vars => IInv'
  BY NextIInv
<1> QED BY <1>1, <1>2, PTL DEF Spec

\* The variables of the jobs have their types.
THEOREM TypesAreRight == ASSUME FreeIsNobody PROVE Spec => []TypeOK
<1>1. IInv => TypeOK
  BY DEF IInv
<1> QED BY <1>1, InductiveInvariant, PTL

\* A job that returned has left nothing behind but what the daemon failed it on, and
\* a network such a container holds on to (docker.go:394-404).
THEOREM JobsCleanUp == ASSUME FreeIsNobody PROVE Spec => []NothingLeftBehind
<1>1. IInv => NothingLeftBehind
  <2> SUFFICES ASSUME IInv, NEW j \in Name, jpc[j] = "returned"
               PROVE  /\ live[j] \ excused[j] \subseteq {Net}
                      /\ Net \in live[j] \ excused[j] => live[j] \cap excused[j] # {}
                      /\ astray[j] => Main \in excused[j]
    BY DEF NothingLeftBehind
  <2>1. cleanups[j] = <<>> /\ ToSet(cleanups[j]) = {}
    BY DEF IInv, PlaceOf, ToSet
  <2>2. \A r \in live[j] : r \in excused[j] \/ (r = Net /\ live[j] \cap excused[j] # {})
    BY <2>1 DEF IInv, HoldingsOf, Covered
  <2> QED BY <2>2 DEF IInv, HoldingsOf
<1> QED BY <1>1, InductiveInvariant, PTL

\* While a step may run, the job's container, its services and their network are
\* there and were started, the job's container after its services (docker.go:406-464).
THEOREM StepsAreServed == ASSUME FreeIsNobody PROVE Spec => []StepsHaveTheirContainers
<1>1. IInv => StepsHaveTheirContainers
  BY DEF IInv, PlaceOf, HoldingsOf, InSteps, StepsHaveTheirContainers
<1> QED BY <1>1, InductiveInvariant, PTL

\* However many jobs debug their steps, one at a time is at the prompt, and no job
\* keeps the lock when it leaves it (docker.go:534-536).
THEOREM TerminalIsExclusive == ASSUME FreeIsNobody PROVE Spec => []OnePromptAtATime
<1>1. IInv => OnePromptAtATime
  BY DEF IInv, TypeOK, LockIsHeld, OnePromptAtATime
<1> QED BY <1>1, InductiveInvariant, PTL

-----------------------------------------------------------------------------
(* What a job executes and reports: each step follows from the decision before *)
(* it, after_script runs in full, and the error is the right one.              *)

BeforeSteps == {"idle", "image", "svcImage", "createNet", "createSvc", "startSvc", "create", "start"}
InExec == {"exec", "attach", "stream", "inspect"}
InLoop == {"steps"} \cup InExec
AtPrompt == {"lock", "prompt"}

CountOf(j, p) == IF p = "main" THEN config[j].main ELSE config[j].after

\* s may come after r: what StepsFollowDecisions says of two executions.
Succeeds(j, r, s) ==
    LET Follows == \/ s.phase = r.phase /\ s.step = r.step + 1
                   \/ /\ r.phase = "main" /\ s.phase = "after" /\ s.step = 1
                      /\ r.step = config[j].main
    IN  CASE r.decision = "Retry" -> s.phase = r.phase /\ s.step = r.step
          [] r.decision = "Continue" -> Follows
          [] r.decision = "none" ->
                IF r.failed /\ r.phase = "main" THEN s.phase = "after" /\ s.step = 1
                                                ELSE Follows
          [] OTHER -> FALSE

Chained(j) == \A k \in 1..(Len(trace[j]) - 1) : Succeeds(j, trace[j][k], trace[j][k + 1])

\* Where the loop over the steps is follows from the last execution.
LedTo(j, r) ==
    /\ r.step \in 1..CountOf(j, r.phase)
    /\ r.decision # "Abort"
    /\ r.phase = phase[j] =>
        step[j] = IF r.decision = "Retry" THEN r.step
                  ELSE IF r.decision = "none" /\ r.failed /\ r.phase = "main"
                       THEN config[j].main + 1 ELSE r.step + 1
    /\ r.phase # phase[j] =>
        /\ phase[j] = "after" /\ step[j] = 1 /\ r.decision # "Retry"
        /\ r.step = config[j].main \/ (r.decision = "none" /\ r.failed)

ErrOf(j, p) == IF \E r \in Ran(j, p) : r.failed THEN p ELSE "nil"

AfterSteps(j) == {r.step : r \in Ran(j, "after")}

\* The locals of runSteps and of runJob agree with what was executed.
LocalsOf(j) ==
    /\ jpc[j] \in BeforeSteps =>
        trace[j] = <<>> /\ phase[j] = "main" /\ firstErr[j] = "nil" /\ mainErr[j] = "nil"
    /\ ~Over(j) => retErr[j] = "nil" /\ ~AbortedJob(j)
    /\ phase[j] = "main" => Ran(j, "after") = {}
    /\ ctrl => firstErr[j] = "nil" /\ mainErr[j] = "nil"
    /\ ~ctrl =>
        /\ jpc[j] \notin AtPrompt
        /\ \A r \in ToSet(trace[j]) : r.decision = "none"
        /\ phase[j] = "main" => firstErr[j] = ErrOf(j, "main") /\ mainErr[j] = "nil"
        /\ phase[j] = "after" => firstErr[j] = ErrOf(j, "after") /\ mainErr[j] = ErrOf(j, "main")

\* Where the loop is.
LoopOf(j) ==
    /\ jpc[j] \in InLoop /\ trace[j] # <<>> => LedTo(j, Last(trace[j]))
    /\ jpc[j] \in InExec \cup AtPrompt => step[j] \in 1..StepCount(j)
    /\ jpc[j] \in AtPrompt =>
        /\ Last(trace[j]).phase = phase[j] /\ Last(trace[j]).step = step[j]
        /\ Last(trace[j]).decision = "none"
    /\ jpc[j] \in InLoop \cup AtPrompt /\ phase[j] = "after" =>
        1..(step[j] - 1) \subseteq AfterSteps(j) /\ AfterSteps(j) \subseteq 1..config[j].after

\* What a job that is over ran and returns.
VerdictOf(j) ==
    Over(j) /\ retErr[j] # "setup" =>
        IF AbortedJob(j)
        THEN /\ ctrl
             /\ trace[j] # <<>>
             /\ retErr[j] = IF Last(trace[j]).failed THEN Last(trace[j]).phase ELSE "aborted"
        ELSE /\ phase[j] = "after"
             /\ AfterSteps(j) = 1..config[j].after
             /\ retErr[j] = IF mainErr[j] # "nil" THEN mainErr[j] ELSE firstErr[j]

NoFailure(j) == \A r \in ToSet(trace[j]) : ~r.failed

\* How many steps the loops of both phases are past.
Passed(j) == IF phase[j] = "main" THEN step[j] - 1 ELSE config[j].main + (step[j] - 1)

\* The k-th execution of a job in which each step is executed once, in order.
InTurn(j, k, r) ==
    IF k <= config[j].main THEN r.phase = "main" /\ r.step = k
                           ELSE r.phase = "after" /\ r.step = k - config[j].main

\* With no controller and no failure the steps run once each, in order.
InOrderOf(j) ==
    /\ ~ctrl /\ NoFailure(j) =>
        /\ Len(trace[j]) = Passed(j) /\ step[j] <= StepCount(j) + 1
        /\ \A k \in 1..Len(trace[j]) : InTurn(j, k, trace[j][k])
    /\ Over(j) /\ retErr[j] # "setup" /\ ~ctrl => step[j] > StepCount(j)

AccountOf(j) == Chained(j) /\ LocalsOf(j) /\ LoopOf(j) /\ VerdictOf(j) /\ InOrderOf(j)

TraceInv == \A j \in Name : AccountOf(j)

-----------------------------------------------------------------------------
(* What a step of another job, or one that only moves on, leaves as it is. *)

SameData(i) ==
    /\ ctrl' = ctrl /\ config'[i] = config[i] /\ phase'[i] = phase[i] /\ step'[i] = step[i]
    /\ firstErr'[i] = firstErr[i] /\ mainErr'[i] = mainErr[i] /\ trace'[i] = trace[i]

Alike(i) == SameData(i) /\ retErr'[i] = retErr[i] /\ jpc'[i] = jpc[i]

LEMMA SameViews ==
    ASSUME NEW i \in Name, SameData(i)
    PROVE  /\ Chained(i)' <=> Chained(i)
           /\ \A p : Ran(i, p)' = Ran(i, p) /\ ErrOf(i, p)' = ErrOf(i, p)
           /\ \A p : CountOf(i, p)' = CountOf(i, p)
           /\ AbortedJob(i)' <=> AbortedJob(i)
           /\ AfterSteps(i)' = AfterSteps(i) /\ StepCount(i)' = StepCount(i)
           /\ \A r : LedTo(i, r)' <=> LedTo(i, r)
BY DEF SameData, Chained, Succeeds, Ran, ErrOf, CountOf, AbortedJob, AfterSteps, StepCount, LedTo

LEMMA SameOrder ==
    ASSUME NEW i \in Name, AccountOf(i), SameData(i),
           Over(i)' /\ retErr'[i] # "setup" => Over(i) /\ retErr[i] # "setup"
    PROVE  InOrderOf(i)'
BY DEF AccountOf, SameData, InOrderOf, NoFailure, Passed, InTurn, StepCount

LEMMA AlikeKeeps ==
    ASSUME NEW i \in Name, AccountOf(i), Alike(i)
    PROVE  AccountOf(i)'
<1>1. SameData(i) /\ (Over(i)' <=> Over(i))
  BY DEF Alike, Over
<1>2. Chained(i)' /\ LocalsOf(i)'
  BY <1>1, SameViews DEF AccountOf, Alike, SameData, LocalsOf
<1>3. LoopOf(i)'
  BY <1>1, SameViews DEF AccountOf, Alike, SameData, LoopOf
<1>4. VerdictOf(i)'
  BY <1>1, SameViews DEF AccountOf, Alike, SameData, VerdictOf
<1>5. InOrderOf(i)'
  BY <1>1, SameOrder DEF Alike
<1> QED BY <1>2, <1>3, <1>4, <1>5 DEF AccountOf

\* A step that only moves on, at each of the places where it may.
LEMMA MovesOnKeeps ==
    ASSUME NEW j \in Name, AccountOf(j), SameData(j), retErr'[j] = retErr[j],
           \/ jpc[j] \in BeforeSteps /\ jpc'[j] \in BeforeSteps \cup {"steps"}
           \/ jpc[j] \in InLoop /\ jpc'[j] \in InExec /\ step[j] \in 1..StepCount(j)
           \/ jpc[j] \in AtPrompt /\ jpc'[j] \in AtPrompt
           \/ jpc[j] \in {"logDone", "cleanup"} /\ jpc'[j] \in {"cleanup", "returned"}
    PROVE  AccountOf(j)'
<1> USE DEF BeforeSteps, InExec, InLoop, AtPrompt
<1>1. Over(j)' <=> Over(j)
  BY DEF Over
<1>2. Chained(j)'
  BY SameViews DEF AccountOf
<1>3. LocalsOf(j)'
  BY <1>1, SameViews DEF AccountOf, SameData, LocalsOf
<1>4. LoopOf(j)'
  BY SameViews DEF AccountOf, SameData, LocalsOf, LoopOf
<1>5. VerdictOf(j)'
  BY <1>1, SameViews DEF AccountOf, SameData, VerdictOf
<1>6. InOrderOf(j)'
  BY <1>1, SameOrder
<1> QED BY <1>2, <1>3, <1>4, <1>5, <1>6 DEF AccountOf

\* An error of the setup ends a job that has executed nothing.
LEMMA SetupErrorKeeps ==
    ASSUME NEW j \in Name, AccountOf(j), SameData(j),
           jpc[j] \in BeforeSteps, jpc'[j] = "logDone", retErr'[j] = "setup"
    PROVE  AccountOf(j)'
<1> USE DEF BeforeSteps, InExec, InLoop, AtPrompt
<1>1. Chained(j)'
  BY SameViews DEF AccountOf
<1>2. LocalsOf(j)'
  BY SameViews DEF AccountOf, SameData, LocalsOf, Over
<1>3. LoopOf(j)' /\ VerdictOf(j)'
  BY DEF LoopOf, VerdictOf
<1>4. InOrderOf(j)'
  BY SameOrder
<1> QED BY <1>1, <1>2, <1>3, <1>4 DEF AccountOf

-----------------------------------------------------------------------------
(* execStep returns. *)

LEMMA AppendOne ==
    ASSUME NEW s \in Seq(StepRun), NEW e \in StepRun
    PROVE  LET t == Append(s, e) IN
           /\ t \in Seq(StepRun) /\ t # <<>> /\ Len(t) = Len(s) + 1 /\ Last(t) = e
           /\ ToSet(t) = ToSet(s) \cup {e}
           /\ \A k \in 1..Len(s) : t[k] = s[k]
           /\ s # <<>> => Last(s) = s[Len(s)] /\ Len(s) \in 1..Len(s)
<1> DEFINE t == Append(s, e)
<1>1. /\ t \in Seq(StepRun) /\ t # <<>> /\ Len(t) = Len(s) + 1 /\ t[Len(s) + 1] = e
      /\ \A k \in 1..Len(s) : t[k] = s[k]
  OBVIOUS
<1>2. Last(t) = e
  BY <1>1 DEF Last
<1>3. ToSet(t) = ToSet(s) \cup {e}
  BY AppendAdds
<1>4. s # <<>> => Last(s) = s[Len(s)] /\ Len(s) \in 1..Len(s)
  BY DEF Last
<1> QED BY <1>1, <1>2, <1>3, <1>4

\* The step that ends was the right one to execute.
LEMMA RightNext ==
    ASSUME NEW j \in Name, NEW r \in StepRun, NEW e \in StepRun, config[j].main \in Nat,
           LedTo(j, r), e.phase = phase[j], e.step = step[j], step[j] \in 1..StepCount(j)
    PROVE  Succeeds(j, r, e)
BY DEF LedTo, Succeeds, StepCount, CountOf, StepRun, Decisions, Phases

\* What the end of a step leaves: all that the trace says but for the new entry.
LEMMA FinishTrace ==
    ASSUME IInv, NEW j \in Name, AccountOf(j), jpc[j] \in InExec, config' = config,
           NEW r \in StepRun, r.phase = phase[j], r.step = step[j],
           trace' = Set(trace, j, Append(trace[j], r))
    PROVE  /\ ToSet(trace'[j]) = ToSet(trace[j]) \cup {r}
           /\ trace'[j] # <<>> /\ Last(trace'[j]) = r
           /\ Len(trace[j]) \in Nat /\ Len(trace'[j]) = Len(trace[j]) + 1
           /\ trace'[j][Len(trace[j]) + 1] = r
           /\ \A k \in 1..Len(trace[j]) : trace'[j][k] = trace[j][k]
           /\ Chained(j)'
<1>1. trace[j] \in Seq(StepRun) /\ Len(trace[j]) \in Nat
  BY DEF IInv, TypeOK
<1>2. trace'[j] = Append(trace[j], r)
  BY DEF IInv, TypeOK, Set
<1>3. /\ Len(trace'[j]) = Len(trace[j]) + 1 /\ Last(trace'[j]) = r /\ trace'[j] # <<>>
      /\ ToSet(trace'[j]) = ToSet(trace[j]) \cup {r}
      /\ \A k \in 1..Len(trace[j]) : trace'[j][k] = trace[j][k]
      /\ trace[j] # <<>> => Last(trace[j]) = trace[j][Len(trace[j])]
  <2> DEFINE t == Append(trace[j], r)
  <2>1. /\ Len(t) = Len(trace[j]) + 1 /\ Last(t) = r /\ t # <<>>
        /\ ToSet(t) = ToSet(trace[j]) \cup {r}
        /\ \A k \in 1..Len(trace[j]) : t[k] = trace[j][k]
        /\ trace[j] # <<>> => Last(trace[j]) = trace[j][Len(trace[j])]
    BY <1>1, AppendOne
  <2> QED BY <1>2, <2>1
<1>5. ASSUME NEW k \in 1..Len(trace[j])
      PROVE  Succeeds(j, trace'[j][k], trace'[j][k + 1])
  <2>1. CASE k < Len(trace[j])
    <3>1. k \in 1..(Len(trace[j]) - 1) /\ k + 1 \in 1..Len(trace[j])
      BY <1>3, <2>1
    <3> QED BY <1>3, <3>1 DEF AccountOf, Chained
  <2>2. CASE k = Len(trace[j])
    <3>1. /\ trace[j] # <<>> /\ trace'[j][k] = Last(trace[j]) /\ Last(trace[j]) \in StepRun
          /\ trace'[j][k + 1] = r
      BY <1>1, <1>2, <1>3, <2>2
    <3>2. LedTo(j, Last(trace[j])) /\ step[j] \in 1..StepCount(j)
      BY <3>1 DEF AccountOf, LoopOf, InLoop, InExec
    <3>3. config[j].main \in Nat
      BY ConfigData DEF IInv
    <3> QED BY <3>1, <3>2, <3>3, RightNext
  <2> QED BY <1>3, <2>1, <2>2
<1>6. Chained(j)'
  BY <1>3, <1>5 DEF Chained, Succeeds
<1> QED BY <1>1, <1>2, <1>3, <1>6

LEMMA FinishAccount ==
    ASSUME IInv, NEW j \in Name, AccountOf(j), NEW from \in InExec, NEW failed \in BOOLEAN,
           FinishStep(j, from, failed), UNCHANGED <<ctrl, config, phase, mainErr, retErr>>
    PROVE  AccountOf(j)'
<1>1. PICK r \in StepRun : /\ r.phase = phase[j] /\ r.step = step[j] /\ r.failed = failed
                           /\ r.decision = "none"
                           /\ trace' = Set(trace, j, Append(trace[j], r))
  BY DEF IInv, TypeOK, StepRun, FinishStep
<1>2. jpc[j] \in InExec /\ jpc'[j] = IF ctrl THEN "lock" ELSE "steps"
  BY DEF FinishStep, Goto, Set, IInv, TypeOK
<1>3. /\ ToSet(trace'[j]) = ToSet(trace[j]) \cup {r}
      /\ trace'[j] # <<>> /\ Last(trace'[j]) = r
      /\ Len(trace[j]) \in Nat /\ Len(trace'[j]) = Len(trace[j]) + 1
      /\ trace'[j][Len(trace[j]) + 1] = r
      /\ \A k \in 1..Len(trace[j]) : trace'[j][k] = trace[j][k]
      /\ Chained(j)'
  BY <1>1, <1>2, FinishTrace
<1>4. /\ LocalsOf(j) /\ LoopOf(j) /\ ~Over(j) /\ step[j] \in 1..StepCount(j)
      /\ phase[j] \in Phases /\ ctrl \in BOOLEAN /\ step[j] \in Nat \ {0}
      /\ config[j].main \in Nat /\ config[j].after \in Nat
  BY <1>2, ConfigData, ConfigsAssumption
     DEF AccountOf, LoopOf, Over, InExec, IInv, TypeOK
<1>5. ~Over(j)' /\ retErr'[j] = retErr[j] /\ mainErr'[j] = mainErr[j] /\ phase'[j] = phase[j]
  BY <1>2 DEF Over
<1>6. \A p : Ran(j, p)' = IF p = phase[j] THEN Ran(j, p) \cup {r} ELSE Ran(j, p)
  BY <1>1, <1>3 DEF Ran
<1>7. ~AbortedJob(j)'
  BY <1>1, <1>3, <1>4 DEF LocalsOf, AbortedJob
<1>8. phase'[j] = "main" => Ran(j, "after")' = {}
  BY <1>4, <1>5, <1>6 DEF LocalsOf
<1>9. AfterSteps(j)' = IF phase[j] = "after" THEN AfterSteps(j) \cup {step[j]} ELSE AfterSteps(j)
  BY <1>1, <1>6 DEF AfterSteps
<1>10. CASE ctrl
  <2>1. firstErr' = firstErr /\ step' = step
    BY <1>10 DEF FinishStep
  <2>2. LocalsOf(j)'
    BY <1>2, <1>4, <1>5, <1>7, <1>8, <1>10, <2>1 DEF LocalsOf, BeforeSteps
  <2>3. LoopOf(j)'
    <3>1. phase'[j] = "after" =>
            1..(step[j] - 1) \subseteq AfterSteps(j)' /\ AfterSteps(j)' \subseteq 1..config[j].after
      BY <1>2, <1>4, <1>5, <1>9 DEF LoopOf, InLoop, InExec, StepCount
    <3> QED BY <1>1, <1>2, <1>3, <1>4, <1>10, <2>1, <3>1
            DEF LoopOf, InLoop, InExec, AtPrompt, StepCount
  <2> QED BY <1>3, <1>4, <1>5, <1>10, <2>2, <2>3 DEF AccountOf, VerdictOf, InOrderOf
<1>11. CASE ~ctrl
  <2>1. /\ firstErr'[j] = IF failed /\ firstErr[j] = "nil" THEN phase[j] ELSE firstErr[j]
        /\ step'[j] = IF failed /\ phase[j] = "main" THEN StepCount(j) + 1 ELSE step[j] + 1
    BY <1>11 DEF FinishStep, Set, IInv, TypeOK
  <2>2. LocalsOf(j)'
    <3>1. \A x \in ToSet(trace'[j]) : x.decision = "none"
      BY <1>1, <1>3, <1>4, <1>11 DEF LocalsOf
    <3>2. firstErr[j] = ErrOf(j, phase[j])
      BY <1>4, <1>11 DEF LocalsOf, Phases
    <3>3. firstErr'[j] = ErrOf(j, phase[j])'
      <4>1. ErrOf(j, phase[j])' = IF (\E x \in Ran(j, phase[j]) : x.failed) \/ failed
                                  THEN phase[j] ELSE "nil"
        BY <1>1, <1>5, <1>6 DEF ErrOf
      <4>2. CASE failed
        BY <1>4, <2>1, <3>2, <4>1, <4>2 DEF ErrOf, Phases
      <4>3. CASE ~failed
        BY <2>1, <3>2, <4>1, <4>3 DEF ErrOf
      <4> QED BY <4>2, <4>3
    <3>4. phase[j] = "after" => ErrOf(j, "main")' = ErrOf(j, "main")
      BY <1>6 DEF ErrOf
    <3> QED BY <1>2, <1>4, <1>5, <1>7, <1>8, <1>11, <3>1, <3>3, <3>4
            DEF LocalsOf, BeforeSteps, AtPrompt, Phases
  <2>3. LoopOf(j)'
    <3>1. LedTo(j, r)'
      BY <1>1, <1>4, <1>5, <2>1 DEF LedTo, CountOf, StepCount, Phases
    <3>2. phase'[j] = "after" =>
            1..(step'[j] - 1) \subseteq AfterSteps(j)' /\ AfterSteps(j)' \subseteq 1..config'[j].after
      BY <1>2, <1>4, <1>5, <1>9, <2>1 DEF LoopOf, InLoop, InExec, StepCount
    <3> QED BY <1>2, <1>3, <1>11, <3>1, <3>2 DEF LoopOf, InLoop, InExec, AtPrompt
  <2>4. ASSUME NoFailure(j)'
        PROVE  /\ Len(trace'[j]) = Passed(j)' /\ step'[j] <= StepCount(j)' + 1
               /\ \A k \in 1..Len(trace'[j]) : InTurn(j, k, trace[j][k])'
    <3>1. NoFailure(j) /\ ~failed
      BY <1>1, <1>3, <2>4 DEF NoFailure
    <3>2. /\ Len(trace[j]) = Passed(j)
          /\ \A k \in 1..Len(trace[j]) : InTurn(j, k, trace[j][k])
      BY <1>11, <3>1 DEF AccountOf, InOrderOf
    <3>3. Len(trace'[j]) = Passed(j)' /\ step'[j] <= StepCount(j)' + 1
      <4>1. step'[j] = step[j] + 1 /\ config' = config
        BY <2>1, <3>1
      <4>2. StepCount(j)' = StepCount(j) /\ StepCount(j) \in Nat
        BY <1>4, <1>5, <4>1 DEF StepCount
      <4>3. Passed(j)' = Passed(j) + 1
        BY <1>4, <1>5, <4>1 DEF Passed
      <4> QED BY <1>3, <1>4, <3>2, <4>1, <4>2, <4>3
    <3>4. InTurn(j, Len(trace[j]) + 1, r)
      BY <1>1, <1>3, <1>4, <3>2 DEF InTurn, Passed, StepCount, Phases
    <3>5. ASSUME NEW k \in 1..Len(trace'[j])
          PROVE  InTurn(j, k, trace[j][k])'
      <4>1. CASE k = Len(trace[j]) + 1
        BY <1>3, <1>4, <3>4, <4>1 DEF InTurn
      <4>2. CASE k \in 1..Len(trace[j])
        BY <1>3, <1>4, <3>2, <4>2 DEF InTurn
      <4> QED BY <1>3, <4>1, <4>2
    <3> QED BY <3>3, <3>5
  <2>5. InOrderOf(j)'
    BY <1>5, <2>4 DEF InOrderOf
  <2> QED BY <1>3, <1>5, <2>2, <2>3, <2>5 DEF AccountOf, VerdictOf
<1> QED BY <1>4, <1>10, <1>11

-----------------------------------------------------------------------------
(* The controller decides. *)

LEMMA ReplaceLast ==
    ASSUME NEW s \in Seq(StepRun), s # <<>>, NEW e \in StepRun
    PROVE  LET t == Append(Front(s), e) IN
           /\ t # <<>> /\ Len(t) = Len(s) /\ Len(s) \in Nat \ {0} /\ Last(t) = e
           /\ ToSet(t) = ToSet(Front(s)) \cup {e}
           /\ ToSet(s) = ToSet(Front(s)) \cup {Last(s)}
           /\ \A k \in 1..(Len(s) - 1) : t[k] = s[k]
           /\ t[Len(s)] = e /\ s[Len(s)] = Last(s)
<1> DEFINE f == Front(s)
           t == Append(f, e)
<1>1. f \in Seq(StepRun) /\ ToSet(s) = ToSet(f) \cup {Last(s)} /\ Last(s) = s[Len(s)]
  BY FrontAndLast
<1>2. Len(s) \in Nat \ {0} /\ Len(f) = Len(s) - 1 /\ \A k \in 1..(Len(s) - 1) : f[k] = s[k]
  <2>1. Len(s) \in Nat \ {0}
    OBVIOUS
  <2>2. DOMAIN f = 1..(Len(s) - 1) /\ \A k \in 1..(Len(s) - 1) : f[k] = s[k]
    BY <2>1 DEF Front
  <2> HIDE DEF f
  <2> QED BY <1>1, <2>1, <2>2
<1> HIDE DEF f
<1>3. /\ t # <<>> /\ Len(t) = Len(f) + 1 /\ t[Len(f) + 1] = e
      /\ \A k \in 1..Len(f) : t[k] = f[k]
  BY <1>1
<1>4. Last(t) = e /\ ToSet(t) = ToSet(f) \cup {e}
  BY <1>1, AppendOne
<1> QED BY <1>1, <1>2, <1>3, <1>4 DEF f

LEMMA DecideTrace ==
    ASSUME IInv, NEW j \in Name, AccountOf(j), trace[j] # <<>>, config' = config,
           NEW e \in StepRun, e.phase = Last(trace[j]).phase, e.step = Last(trace[j]).step,
           trace' = Set(trace, j, Append(Front(trace[j]), e))
    PROVE  /\ trace'[j] # <<>> /\ Last(trace'[j]) = e
           /\ Last(trace[j]) \in ToSet(trace[j]) /\ e \in ToSet(trace'[j])
           /\ \A r \in ToSet(trace'[j]) : r = e \/ r \in ToSet(trace[j])
           /\ AfterSteps(j)' = AfterSteps(j)
           /\ Ran(j, "after") = {} /\ e.phase # "after" => Ran(j, "after")' = {}
           /\ Chained(j)'
<1> DEFINE s == trace[j]
           front == ToSet(Front(s))
<1>1. s \in Seq(StepRun) /\ trace'[j] = Append(Front(s), e)
  BY DEF IInv, TypeOK, Set
<1>2. /\ trace'[j] # <<>> /\ Len(trace'[j]) = Len(s) /\ Len(s) \in Nat \ {0}
      /\ Last(trace'[j]) = e
      /\ ToSet(trace'[j]) = front \cup {e} /\ ToSet(s) = front \cup {Last(s)}
      /\ \A k \in 1..(Len(s) - 1) : trace'[j][k] = s[k]
      /\ trace'[j][Len(s)] = e /\ s[Len(s)] = Last(s)
  BY <1>1, ReplaceLast
<1> HIDE DEF front
<1>3. AfterSteps(j)' = AfterSteps(j)
  BY <1>2 DEF AfterSteps, Ran
<1>4. Ran(j, "after") = {} /\ e.phase # "after" => Ran(j, "after")' = {}
  BY <1>2 DEF Ran
<1>5. ASSUME NEW k \in 1..(Len(s) - 1)
      PROVE  Succeeds(j, trace'[j][k], trace'[j][k + 1])
  <2>1. Succeeds(j, s[k], s[k + 1]) /\ trace'[j][k] = s[k]
    BY <1>2 DEF AccountOf, Chained
  <2>2. CASE k + 1 < Len(s)
    BY <1>2, <2>1, <2>2
  <2>3. CASE k + 1 = Len(s)
    BY <1>2, <2>1, <2>3 DEF Succeeds
  <2> QED BY <1>2, <2>2, <2>3
<1>6. Chained(j)'
  BY <1>2, <1>5 DEF Chained, Succeeds
<1> QED BY <1>2, <1>3, <1>4, <1>6

LEMMA DecideAccount ==
    ASSUME IInv, NEW j \in Name, AccountOf(j), NEW decision \in Decisions, Decide(j, decision)
    PROVE  AccountOf(j)'
<1>1. jpc[j] = "prompt" /\ trace[j] # <<>> /\ trace[j] \in Seq(StepRun)
  BY DEF IInv, TypeOK, PlaceOf, Decide, Decided, Goto
<1>2. Last(trace[j]) \in StepRun
  BY <1>1, FrontAndLast
<1>3. PICK e \in StepRun : /\ e.phase = Last(trace[j]).phase /\ e.step = Last(trace[j]).step
                           /\ e.failed = Last(trace[j]).failed /\ e.decision = decision
                           /\ trace' = Set(trace, j, Append(Front(trace[j]), e))
  BY <1>2 DEF Decide, Decided, StepRun
<1>4. /\ LocalsOf(j) /\ LoopOf(j) /\ ~Over(j) /\ ctrl /\ step[j] \in 1..StepCount(j)
      /\ e.phase = phase[j] /\ e.step = step[j]
      /\ phase[j] \in Phases /\ step[j] \in Nat \ {0}
      /\ config[j].main \in Nat /\ config[j].after \in Nat
  BY <1>1, <1>3, ConfigData
     DEF AccountOf, LoopOf, LocalsOf, Over, AtPrompt, IInv, TypeOK
<1>5. /\ UNCHANGED <<ctrl, config, phase, firstErr, mainErr>>
      /\ jpc'[j] = IF decision = "Abort" THEN "logDone" ELSE "steps"
      /\ step'[j] = IF decision = "Continue" THEN step[j] + 1 ELSE step[j]
      /\ retErr'[j] = IF decision = "Abort"
                      THEN IF e.failed THEN phase[j] ELSE "aborted" ELSE retErr[j]
  BY <1>3 DEF Decide, Decided, Goto, Set, MovesOn, AbortErr, FailureOr, IInv, TypeOK
<1>6. /\ trace'[j] # <<>> /\ Last(trace'[j]) = e
      /\ Last(trace[j]) \in ToSet(trace[j]) /\ e \in ToSet(trace'[j])
      /\ \A r \in ToSet(trace'[j]) : r = e \/ r \in ToSet(trace[j])
      /\ AfterSteps(j)' = AfterSteps(j)
      /\ Ran(j, "after") = {} /\ e.phase # "after" => Ran(j, "after")' = {}
      /\ Chained(j)'
  BY <1>1, <1>3, <1>5, DecideTrace
<1>7. AbortedJob(j)' <=> decision = "Abort"
  BY <1>3, <1>4, <1>6 DEF LocalsOf, AbortedJob
<1>8. Over(j)' <=> decision = "Abort"
  BY <1>5 DEF Over
<1>9. LocalsOf(j)'
  BY <1>4, <1>5, <1>6, <1>7, <1>8 DEF LocalsOf, BeforeSteps, Phases
<1>10. VerdictOf(j)'
  BY <1>4, <1>5, <1>6, <1>7, <1>8 DEF VerdictOf
<1>11. LoopOf(j)'
  <2>1. CASE decision = "Abort"
    BY <1>5, <2>1 DEF LoopOf, InLoop, InExec, AtPrompt
  <2>2. CASE decision # "Abort"
    <3>1. LedTo(j, e)'
      BY <1>3, <1>4, <1>5, <2>2 DEF LedTo, CountOf, StepCount, Decisions
    <3>2. phase[j] = "after" =>
            1..(step'[j] - 1) \subseteq AfterSteps(j)' /\ AfterSteps(j)' \subseteq 1..config[j].after
      <4>1. phase[j] = "after" => step[j] \in AfterSteps(j)
        BY <1>3, <1>4, <1>6 DEF AfterSteps, Ran
      <4> QED BY <1>1, <1>4, <1>5, <1>6, <4>1 DEF LoopOf, AtPrompt
    <3> QED BY <1>5, <1>6, <2>2, <3>1, <3>2 DEF LoopOf, InLoop, InExec, AtPrompt
  <2> QED BY <2>1, <2>2
<1>12. InOrderOf(j)'
  BY <1>4, <1>5 DEF InOrderOf
<1> QED BY <1>6, <1>9, <1>10, <1>11, <1>12 DEF AccountOf

-----------------------------------------------------------------------------
(* The two calls of runSteps return. *)

LEMMA EndMainAccount ==
    ASSUME IInv, NEW j \in Name, AccountOf(j), EndMain(j)
    PROVE  AccountOf(j)'
<1>1. /\ jpc[j] = "steps" /\ jpc'[j] = "steps" /\ phase[j] = "main" /\ step[j] > config[j].main
      /\ UNCHANGED <<ctrl, config, retErr, trace>>
      /\ mainErr'[j] = firstErr[j] /\ phase'[j] = "after" /\ step'[j] = 1 /\ firstErr'[j] = "nil"
  BY DEF EndMain, Goto, Set, StepCount, IInv, TypeOK
<1>2. /\ LocalsOf(j) /\ LoopOf(j) /\ Ran(j, "after") = {} /\ AfterSteps(j) = {}
      /\ config[j].main \in Nat /\ trace[j] \in Seq(StepRun)
  BY <1>1, ConfigData DEF AccountOf, LocalsOf, AfterSteps, IInv, TypeOK
<1>3. /\ \A p : Ran(j, p)' = Ran(j, p) /\ ErrOf(j, p)' = ErrOf(j, p)
      /\ AbortedJob(j)' <=> AbortedJob(j)
      /\ AfterSteps(j)' = AfterSteps(j) /\ ~Over(j) /\ ~Over(j)'
  BY <1>1 DEF Ran, ErrOf, AbortedJob, AfterSteps, Over
<1>4. Chained(j)'
  BY <1>1 DEF AccountOf, Chained, Succeeds
<1>5. LocalsOf(j)'
  BY <1>1, <1>2, <1>3 DEF LocalsOf, BeforeSteps, AtPrompt, ErrOf
<1>6. LoopOf(j)'
  <2>1. ASSUME trace[j] # <<>>
        PROVE  LedTo(j, Last(trace[j]))'
    <3>1. PICK r \in StepRun : r = Last(trace[j]) /\ r \in ToSet(trace[j])
      <4>1. /\ Last(trace[j]) \in StepRun
            /\ ToSet(trace[j]) = ToSet(Front(trace[j])) \cup {Last(trace[j])}
        BY <1>2, <2>1, FrontAndLast
      <4> QED BY <4>1
    <3>2. r.phase = "main" /\ LedTo(j, r)
      BY <1>1, <1>2, <2>1, <3>1 DEF LoopOf, InLoop, Ran, StepRun, Phases
    <3>3. LedTo(j, r)'
      BY <1>1, <1>2, <3>1, <3>2 DEF LedTo, CountOf, StepRun, Decisions
    <3>4. Last(trace[j])' = r
      BY <1>1, <3>1
    <3> QED BY <3>3, <3>4 DEF LedTo, CountOf
  <2> QED BY <1>1, <1>2, <1>3, <2>1 DEF LoopOf, InLoop, InExec, AtPrompt
<1>7. InOrderOf(j)'
  <2>1. ASSUME ~ctrl, NoFailure(j)'
        PROVE  /\ Len(trace[j]) = Passed(j)' /\ step'[j] <= StepCount(j)' + 1
               /\ \A k \in 1..Len(trace[j]) : InTurn(j, k, trace[j][k])
    <3>1. NoFailure(j) /\ StepCount(j) = config[j].main /\ step[j] \in Nat
      BY <1>1, <2>1 DEF NoFailure, StepCount, IInv, TypeOK
    <3>2. /\ Len(trace[j]) = Passed(j) /\ step[j] <= StepCount(j) + 1
          /\ \A k \in 1..Len(trace[j]) : InTurn(j, k, trace[j][k])
      BY <2>1, <3>1 DEF AccountOf, InOrderOf
    <3>3. config[j].after \in Nat /\ config' = config
      BY <1>1, ConfigData DEF IInv, TypeOK
    <3> QED BY <1>1, <1>2, <3>1, <3>2, <3>3 DEF Passed, StepCount
  <2> QED BY <1>1, <1>3, <2>1 DEF InOrderOf, InTurn
<1> QED BY <1>3, <1>4, <1>5, <1>6, <1>7 DEF AccountOf, VerdictOf

LEMMA EndAfterAccount ==
    ASSUME IInv, NEW j \in Name, AccountOf(j), EndAfter(j)
    PROVE  AccountOf(j)'
<1>1. /\ jpc[j] = "steps" /\ jpc'[j] = "logDone" /\ phase[j] = "after"
      /\ step[j] > config[j].after /\ SameData(j)
      /\ retErr'[j] = IF mainErr[j] # "nil" THEN mainErr[j] ELSE firstErr[j]
  BY DEF EndAfter, Goto, Set, StepCount, SameData, IInv, TypeOK
<1>2. /\ LocalsOf(j) /\ LoopOf(j) /\ ~Over(j) /\ ~AbortedJob(j)
      /\ config[j].after \in Nat /\ step[j] \in Nat \ {0}
  BY <1>1, ConfigData DEF AccountOf, LocalsOf, Over, IInv, TypeOK
<1>3. AfterSteps(j) = 1..config[j].after
  <2>1. 1..(step[j] - 1) \subseteq AfterSteps(j) /\ AfterSteps(j) \subseteq 1..config[j].after
    BY <1>1, <1>2 DEF LoopOf, InLoop
  <2>2. 1..config[j].after \subseteq 1..(step[j] - 1)
    BY <1>1, <1>2
  <2> QED BY <2>1, <2>2
<1>4. LocalsOf(j)' /\ LoopOf(j)'
  BY <1>1, <1>2, SameViews DEF SameData, LocalsOf, LoopOf, Over, BeforeSteps, AtPrompt, InLoop, InExec
<1>5. VerdictOf(j)'
  BY <1>1, <1>2, <1>3, SameViews DEF SameData, VerdictOf
<1>6. InOrderOf(j)'
  BY <1>1, <1>2 DEF AccountOf, InOrderOf, SameData, NoFailure, Passed, InTurn, StepCount
<1> QED BY <1>1, <1>4, <1>5, <1>6, SameViews DEF AccountOf

-----------------------------------------------------------------------------
(* Every step keeps the account. *)

LEMMA AccountStep ==
    ASSUME TraceInv, NEW j \in Name, \A i \in Name \ {j} : Alike(i), AccountOf(j)'
    PROVE  TraceInv'
BY AlikeKeeps DEF TraceInv

\* Begin, the setup, and what only moves on.
LEMMA QuietAccounts ==
    ASSUME IInv, TraceInv, NEW j \in Name, NEW answer \in Answers,
           \/ Begin(j) \/ EnsureImage(j) \/ EnsureSvcImage(j)
           \/ CreateNetwork(j, answer) \/ CreateService(j, answer) \/ CreateContainer(j, answer)
           \/ StartService(j, answer) \/ StartContainer(j, answer)
           \/ StartStep(j) \/ LockCtrl(j) \/ LogDone(j) \/ Return(j) \/ Cleanup(j, answer)
    PROVE  TraceInv'
<1> USE DEF Goto, Set, SetupFails, SameData, jobLocals, daemon, BeforeSteps
<1>1. AccountOf(j)
  BY DEF TraceInv
<1>2. /\ \A i \in Name : SameData(i)
      /\ \A i \in Name \ {j} : retErr'[i] = retErr[i] /\ jpc'[i] = jpc[i]
  <2>1. CASE Begin(j) \/ EnsureImage(j) \/ EnsureSvcImage(j)
    BY <2>1 DEF IInv, TypeOK, Begin, EnsureImage, EnsureSvcImage
  <2>2. CASE \/ CreateNetwork(j, answer) \/ CreateService(j, answer)
             \/ CreateContainer(j, answer)
    BY <2>2 DEF IInv, TypeOK, CreateNetwork, CreateService, CreateContainer, Creates
  <2>3. CASE StartService(j, answer) \/ StartContainer(j, answer)
    BY <2>3 DEF IInv, TypeOK, StartService, StartContainer, Starts
  <2>4. CASE StartStep(j) \/ LockCtrl(j) \/ LogDone(j) \/ Return(j) \/ Cleanup(j, answer)
    BY <2>4 DEF IInv, TypeOK, StartStep, LockCtrl, LogDone, Return, Cleanup, RunCleanup
  <2> QED BY <2>1, <2>2, <2>3, <2>4
<1>3. \/ jpc[j] \in BeforeSteps /\ jpc'[j] \in BeforeSteps \cup {"steps"} /\ retErr'[j] = retErr[j]
      \/ jpc[j] \in BeforeSteps /\ jpc'[j] = "logDone" /\ retErr'[j] = "setup"
      \/ /\ jpc[j] \in InLoop /\ jpc'[j] \in InExec /\ step[j] \in 1..StepCount(j)
         /\ retErr'[j] = retErr[j]
      \/ jpc[j] \in AtPrompt /\ jpc'[j] \in AtPrompt /\ retErr'[j] = retErr[j]
      \/ /\ jpc[j] \in {"logDone", "cleanup"} /\ jpc'[j] \in {"cleanup", "returned"}
         /\ retErr'[j] = retErr[j]
  <2>1. CASE Begin(j) \/ EnsureImage(j) \/ EnsureSvcImage(j)
    BY <2>1 DEF IInv, TypeOK, Begin, EnsureImage, EnsureSvcImage
  <2>2. CASE \/ CreateNetwork(j, answer) \/ CreateService(j, answer)
             \/ CreateContainer(j, answer)
    BY <2>2 DEF IInv, TypeOK, CreateNetwork, CreateService, CreateContainer, Creates
  <2>3. CASE StartService(j, answer) \/ StartContainer(j, answer)
    BY <2>3 DEF IInv, TypeOK, StartService, StartContainer, Starts
  <2>4. CASE StartStep(j)
    <3>1. step[j] \in Nat \ {0} /\ StepCount(j) \in Nat /\ step[j] <= StepCount(j)
      BY <2>4, ConfigData DEF IInv, TypeOK, StartStep, StepCount
    <3> QED BY <2>4, <3>1 DEF IInv, TypeOK, StartStep, InLoop, InExec
  <2>5. CASE LockCtrl(j) \/ LogDone(j) \/ Return(j) \/ Cleanup(j, answer)
    BY <2>5 DEF IInv, TypeOK, LockCtrl, LogDone, Return, Cleanup, RunCleanup, AtPrompt
  <2> QED BY <2>1, <2>2, <2>3, <2>4, <2>5
<1> HIDE DEF Goto, Set, SetupFails, SameData, jobLocals, daemon, BeforeSteps
<1>4. AccountOf(j)'
  BY <1>1, <1>2, <1>3, MovesOnKeeps, SetupErrorKeeps
<1> QED BY <1>2, <1>4, AccountStep DEF Alike

LEMMA ExecAccounts ==
    ASSUME IInv, TraceInv, NEW j \in Name, NEW from \in InExec, NEW to \in InExec,
           NEW goesOn \in BOOLEAN, ExecGoesOn(j, from, to, goesOn)
    PROVE  TraceInv'
<1>1. AccountOf(j)
  BY DEF TraceInv
<1>2. UNCHANGED <<ctrl, config, phase, mainErr, retErr>>
  BY DEF ExecGoesOn
<1>3. CASE goesOn
  <2>1. /\ \A i \in Name : SameData(i)
        /\ \A i \in Name \ {j} : jpc'[i] = jpc[i]
        /\ jpc[j] \in InExec /\ jpc'[j] \in InExec
    BY <1>3 DEF ExecGoesOn, SameData, Goto, Set, IInv, TypeOK
  <2>2. jpc[j] \in InLoop /\ step[j] \in 1..StepCount(j)
    BY <1>1, <2>1 DEF AccountOf, LoopOf, InLoop
  <2> QED BY <1>1, <1>2, <2>1, <2>2, MovesOnKeeps, AccountStep DEF Alike
<1>4. CASE ~goesOn
  <2>1. FinishStep(j, from, TRUE)
    BY <1>4 DEF ExecGoesOn
  <2>2. \A i \in Name \ {j} : Alike(i)
    BY <1>2, <2>1 DEF FinishStep, Alike, SameData, Goto, Set, IInv, TypeOK
  <2> QED BY <1>1, <1>2, <2>1, <2>2, FinishAccount, AccountStep
<1> QED BY <1>3, <1>4

LEMMA NextTraceInv ==
    ASSUME IInv, TraceInv, [Next]_vars
    PROVE  TraceInv'
<1>0. \A j \in Name : AccountOf(j)
  BY DEF TraceInv
<1>1. ASSUME NEW j \in Name, DockerCall(j)
      PROVE  TraceInv'
  <2>1. ASSUME NEW answer \in Answers, ExecCreate(j, answer) \/ ExecAttach(j, answer)
        PROVE  TraceInv'
    BY <2>1, ExecAccounts DEF ExecCreate, ExecAttach, InExec
  <2>2. ASSUME NEW failed \in BOOLEAN, Inspect(j, failed)
        PROVE  TraceInv'
    <3>1. FinishStep(j, "inspect", failed) /\ UNCHANGED <<ctrl, config, phase, mainErr, retErr>>
      BY <2>2 DEF Inspect
    <3>2. \A i \in Name \ {j} : Alike(i)
      BY <3>1 DEF FinishStep, Alike, SameData, Goto, Set, IInv, TypeOK
    <3> QED BY <1>0, <3>1, <3>2, FinishAccount, AccountStep DEF InExec
  <2>3. "ok" \in Answers
    BY DEF Answers
  <2> QED BY <1>1, <2>1, <2>2, <2>3, QuietAccounts DEF DockerCall
<1>2. ASSUME NEW j \in Name, EndMain(j) \/ EndAfter(j)
      PROVE  TraceInv'
  <2>1. \A i \in Name \ {j} : Alike(i)
    BY <1>2 DEF EndMain, EndAfter, Alike, SameData, Goto, Set, IInv, TypeOK
  <2> QED BY <1>0, <1>2, <2>1, EndMainAccount, EndAfterAccount, AccountStep
<1>3. ASSUME NEW j \in Name, NEW how, StreamEnds(j, how)
      PROVE  TraceInv'
  BY <1>3, ExecAccounts DEF StreamEnds, InExec
<1>4. ASSUME NEW j \in Name, NEW decision \in Decisions, Decide(j, decision)
      PROVE  TraceInv'
  <2>1. \A i \in Name \ {j} : Alike(i)
    BY <1>4 DEF Decide, Decided, MovesOn, AbortErr, Alike, SameData, Goto, Set, IInv, TypeOK
  <2> QED BY <1>0, <1>4, <2>1, DecideAccount, AccountStep
<1>5. ASSUME NEW j \in Name, Begin(j) \/ LogDone(j) \/ Return(j) \/ StartStep(j) \/ LockCtrl(j)
      PROVE  TraceInv'
  <2>1. "ok" \in Answers
    BY DEF Answers
  <2> QED BY <1>5, <2>1, QuietAccounts
<1>6. ASSUME UNCHANGED <<jobLocals, jpc, trace>>
      PROVE  TraceInv'
  <2>1. \A i \in Name : Alike(i)
    BY <1>6 DEF jobLocals, Alike, SameData
  <2> QED BY <1>0, <2>1, AlikeKeeps DEF TraceInv
<1>7. ASSUME NEW j \in Name, Daemon(j)
      PROVE  TraceInv'
  BY <1>6, <1>7 DEF Daemon, StrayEnds, ContainerExits
<1>8. CASE UNCHANGED vars
  BY <1>6, <1>8 DEF vars
<1> QED BY <1>1, <1>2, <1>3, <1>4, <1>5, <1>7, <1>8
        DEF Next, Inner, StepEnds, Answered, Terminated

-----------------------------------------------------------------------------
(* The theorems. *)

\* At any time what runSteps and runJob keep in their locals agrees with what the
\* job has executed and with what was decided (docker.go:484-567).
THEOREM LocalsAgreeWithTrace == ASSUME FreeIsNobody PROVE Spec => []TraceInv
<1>1. Init => TraceInv
  BY ConfigsAssumption DEF Init, TraceInv, AccountOf, Chained, LocalsOf, LoopOf, VerdictOf,
     InOrderOf, Passed, InTurn, StepCount, NoFailure, Over, AbortedJob, Ran, ToSet,
         AtPrompt, InLoop, InExec, BeforeSteps, ErrOf
<1>2. IInv /\ TraceInv /\ [Next]_vars => TraceInv'
  BY NextTraceInv
<1> QED BY <1>1, <1>2, InductiveInvariant, PTL DEF Spec

\* However many steps a job has and however often they are repeated, each execution
\* is the one that the decision before it calls for (docker.go:537-564).
THEOREM EachStepFollows == ASSUME FreeIsNobody PROVE Spec => []StepsFollowDecisions
<1>1. TraceInv => StepsFollowDecisions
  BY DEF TraceInv, AccountOf, Chained, Succeeds, StepsFollowDecisions
<1> QED BY <1>1, LocalsAgreeWithTrace, PTL

\* after_script runs in full in every job that got as far as its steps and was not
\* aborted (docker.go:484-487).
THEOREM AfterScriptRuns == ASSUME FreeIsNobody PROVE Spec => []AfterScriptAlwaysRuns
<1>1. TraceInv => AfterScriptAlwaysRuns
  BY DEF TraceInv, AccountOf, VerdictOf, AfterSteps, AfterScriptAlwaysRuns
<1> QED BY <1>1, LocalsAgreeWithTrace, PTL

\* The error a job reports is the one its steps and decisions call for
\* (docker.go:118-121, 494-502, 540-545).
THEOREM JobsReportTheRightError == ASSUME FreeIsNobody PROVE Spec => []ErrorIsTheRightOne
<1>1. IInv /\ TraceInv => ErrorIsTheRightOne
  <2> SUFFICES ASSUME IInv, TraceInv, NEW j \in Name, Over(j), retErr[j] # "setup"
               PROVE  IF ctrl
                      THEN /\ retErr[j] # "nil" <=> AbortedJob(j)
                           /\ AbortedJob(j) =>
                                retErr[j] = IF Last(trace[j]).failed THEN Last(trace[j]).phase
                                                                     ELSE "aborted"
                      ELSE retErr[j] = IF \E r \in Ran(j, "main") : r.failed THEN "main"
                                       ELSE IF \E r \in Ran(j, "after") : r.failed THEN "after"
                                       ELSE "nil"
    BY DEF ErrorIsTheRightOne
  <2>1. LocalsOf(j) /\ VerdictOf(j) /\ ctrl \in BOOLEAN
    BY ConfigsAssumption DEF TraceInv, AccountOf, IInv, TypeOK
  <2>2. CASE AbortedJob(j)
    <3>1. trace[j] \in Seq(StepRun) /\ trace[j] # <<>>
      BY <2>1, <2>2 DEF VerdictOf, IInv, TypeOK
    <3>2. Last(trace[j]).phase \in Phases
      <4>1. Last(trace[j]) \in StepRun
        BY <3>1, FrontAndLast
      <4> QED BY <4>1 DEF StepRun
    <3>3. ctrl /\ retErr[j] = IF Last(trace[j]).failed THEN Last(trace[j]).phase ELSE "aborted"
      BY <2>1, <2>2 DEF VerdictOf
    <3>4. retErr[j] # "nil"
      BY <3>2, <3>3 DEF Phases
    <3> QED BY <2>2, <3>3, <3>4
  <2>3. CASE ~AbortedJob(j)
    <3>1. phase[j] = "after" /\ retErr[j] = IF mainErr[j] # "nil" THEN mainErr[j] ELSE firstErr[j]
      BY <2>1, <2>3 DEF VerdictOf
    <3>2. CASE ctrl
      BY <2>1, <2>3, <3>1, <3>2 DEF LocalsOf
    <3>3. CASE ~ctrl
      <4>1. mainErr[j] = ErrOf(j, "main") /\ firstErr[j] = ErrOf(j, "after")
        BY <2>1, <3>1, <3>3 DEF LocalsOf
      <4> QED BY <3>1, <3>3, <4>1 DEF ErrOf
    <3> QED BY <3>2, <3>3
  <2> QED BY <2>2, <2>3
<1> QED BY <1>1, InductiveInvariant, LocalsAgreeWithTrace, PTL

\* What a job without a controller has executed when it is over and reports no error.
Complete(j) ==
    /\ NoFailure(j)
    /\ Len(trace[j]) = config[j].main + config[j].after
    /\ \A k \in 1..Len(trace[j]) : InTurn(j, k, trace[j][k]) /\ trace[j][k].decision = "none"

LEMMA NoErrorIsComplete ==
    ASSUME IInv, TraceInv, NEW j \in Name, Over(j), retErr[j] = "nil", ~ctrl
    PROVE  Complete(j)
<1>1. LocalsOf(j) /\ VerdictOf(j) /\ InOrderOf(j)
  BY DEF TraceInv, AccountOf
<1>2. /\ ~AbortedJob(j) /\ phase[j] = "after" /\ step[j] > config[j].after
      /\ mainErr[j] = "nil" /\ firstErr[j] = "nil"
  BY <1>1 DEF VerdictOf, InOrderOf, StepCount
<1>3. /\ trace[j] \in Seq(StepRun) /\ step[j] \in Nat
      /\ config[j].main \in Nat /\ config[j].after \in Nat
  BY ConfigData DEF IInv, TypeOK
<1>4. \A k \in 1..Len(trace[j]) : trace[j][k] \in ToSet(trace[j])
  BY <1>3 DEF ToSet
<1>5. \A r \in ToSet(trace[j]) : r \in StepRun /\ r.decision = "none"
  BY <1>1, <1>3 DEF ToSet, LocalsOf
<1>6. NoFailure(j)
  <2>1. ErrOf(j, "main") = "nil" /\ ErrOf(j, "after") = "nil"
    BY <1>1, <1>2 DEF LocalsOf
  <2>2. \A r \in Ran(j, "main") \cup Ran(j, "after") : ~r.failed
    BY <2>1 DEF ErrOf
  <2> QED BY <1>5, <2>2 DEF NoFailure, Ran, StepRun, Phases
<1>7. /\ Len(trace[j]) = config[j].main + (step[j] - 1) /\ step[j] <= config[j].after + 1
      /\ \A k \in 1..Len(trace[j]) : InTurn(j, k, trace[j][k])
  BY <1>1, <1>2, <1>6 DEF InOrderOf, Passed, StepCount
<1> QED BY <1>2, <1>3, <1>4, <1>5, <1>6, <1>7 DEF Complete

\* A job that nobody debugs reports no error only if each of its steps was executed
\* exactly once, in order, and succeeded: none is skipped, repeated or put after a
\* failure (docker.go:474-487, 518-567).
THEOREM SuccessIsComplete ==
    ASSUME FreeIsNobody
    PROVE  Spec => [](\A j \in Name : Over(j) /\ retErr[j] = "nil" /\ ~ctrl => Complete(j))
<1>1. IInv /\ TraceInv => \A j \in Name : Over(j) /\ retErr[j] = "nil" /\ ~ctrl => Complete(j)
  BY NoErrorIsComplete
<1> QED BY <1>1, LocalsAgreeWithTrace, InductiveInvariant, PTL
=============================================================================
