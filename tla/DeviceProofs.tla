---------------------------- MODULE DeviceProofs -----------------------------
(***************************************************************************)
(* Proofs about what stands between the kernel and its devices: joining a  *)
(* Wi-Fi access point, the deferred half of the receive interrupt, the     *)
(* keys of a protected association, and the cache of disk sectors.         *)
(***************************************************************************)
EXTENDS WifiLink, WifiRuntime, WifiSession, BlockCache, TLAPS

(***************************************************************************)
(* Proofs about joining an access point, for any access points, any scan   *)
(* list and any number of machines under way at once: the station the      *)
(* manager reports has answered both requests of the machine that          *)
(* reported it.                                                            *)
(*                                                                         *)
(* The property needs two more facts about every machine: while a request  *)
(* is outstanding its candidate is an access point, so the NoStation of a  *)
(* fresh machine never answers; and once association is requested its      *)
(* candidate has answered the authentication.                              *)
(***************************************************************************)
LinkConstants == NoStation \notin AccessPoints /\ NoMachine \notin Machines

Waiting == {"AuthenticationPending", "AssociationPending"}

ManagerStates == {"Down", "Idle", "Scanning", "Associating", "Associated"}

ManagerRecord == [state : ManagerStates, scan : SUBSET AccessPoints,
                  associated : AccessPoints \cup {NoStation}]

LinkRecord == [state : {"Idle", "Failed", "Associated"} \cup Waiting,
               candidate : AccessPoints \cup {NoStation}, aid : {1, NoStation}]

Answers == [kind : {"authentication", "association"}, from : AccessPoints]

LinkTypeOK ==
    /\ manager \in ManagerRecord
    /\ link \in [Machines -> LinkRecord]
    /\ answered \in [Machines -> SUBSET Answers]
    /\ owed \in Machines \cup {NoMachine}
    /\ last \in Machines \cup {NoMachine}

Requested ==
    \A m \in Machines :
      /\ link[m].state \in Waiting => link[m].candidate \in AccessPoints
      /\ link[m].state = "AssociationPending" =>
            [kind |-> "authentication", from |-> link[m].candidate] \in answered[m]

LinkInv == LinkTypeOK /\ AssociationEarned /\ Requested

\* The radio is down and no station has answered.
LEMMA LinkStart ==
    ASSUME LinkConstants, LinkInit
    PROVE  LinkInv
<1>1. LinkTypeOK
  BY DEF LinkInit, Down, FreshLink, LinkTypeOK, ManagerRecord, LinkRecord, ManagerStates, Waiting
<1>2. /\ manager.state = "Down" /\ manager.associated = NoStation
      /\ \A m \in Machines : link[m].state = "Idle"
      /\ owed = NoMachine /\ last = NoMachine
  BY DEF LinkInit, Down, FreshLink
<1> QED BY <1>1, <1>2 DEF LinkInv, AssociationEarned, Requested, Waiting

\* The end of an attempt, told to a manager that waits for this machine, for
\* another one, or for none.
LEMMA AttemptEnds ==
    ASSUME LinkConstants, LinkInv, NEW m \in Machines, link[m].state \in Waiting,
           NEW ok \in BOOLEAN, NEW entry \in LinkRecord,
           entry.state = IF ok THEN "Associated" ELSE "Failed",
           ok => entry.candidate = link[m].candidate,
           link' = [link EXCEPT ![m] = entry],
           manager' = AssociationComplete(link[m].candidate, ok), Told(m),
           answered' \in [Machines -> SUBSET Answers],
           \A n \in Machines \ {m} : answered'[n] = answered[n],
           ok => \A k \in {"authentication", "association"} :
                    [kind |-> k, from |-> link[m].candidate] \in answered'[m]
    PROVE  LinkInv'
<1>1. link'[m] = entry /\ \A n \in Machines \ {m} : link'[n] = link[n]
  BY DEF LinkInv, LinkTypeOK
<1>2. link' \in [Machines -> LinkRecord]
  BY DEF LinkInv, LinkTypeOK
<1>3. entry.state \notin Waiting
  BY DEF Waiting
<1>4. Requested'
  BY <1>1, <1>3 DEF LinkInv, Requested, Waiting
<1>5. link[m].candidate \in AccessPoints
  BY DEF LinkInv, Requested
<1>6. CASE manager.state = "Associating"
  <2>1. /\ manager' = [manager EXCEPT !.state = IF ok THEN "Associated" ELSE "Idle",
                                      !.associated = IF ok THEN link[m].candidate ELSE NoStation]
        /\ owed' = NoMachine /\ last' = m
    BY <1>6 DEF AssociationComplete, Told
  <2>2. /\ manager'.state = IF ok THEN "Associated" ELSE "Idle"
        /\ manager'.associated = IF ok THEN link[m].candidate ELSE NoStation
        /\ manager' \in ManagerRecord
    BY Zenon, <1>5, <2>1 DEF LinkInv, LinkTypeOK, ManagerRecord, ManagerStates
  <2>3. LinkTypeOK'
    BY <1>2, <2>1, <2>2 DEF LinkTypeOK
  <2>4. manager'.state # "Associating" /\ manager'.state # "Down"
    BY <2>2
  <2>5. m # NoMachine /\ link[m].candidate # NoStation
    BY <1>5 DEF LinkConstants
  <2>6. CASE ok
    <3>1. /\ manager'.state = "Associated" /\ manager'.associated = link[m].candidate
          /\ link'[m].state = "Associated" /\ link'[m].candidate = link[m].candidate
      BY <1>1, <2>2, <2>6
    <3> QED BY <1>4, <2>1, <2>3, <2>4, <2>5, <2>6, <3>1 DEF LinkInv, AssociationEarned
  <2>7. CASE ~ok
    <3>1. /\ manager'.state = "Idle" /\ manager'.associated = NoStation
          /\ link'[m].state = "Failed"
      BY <1>1, <2>2, <2>7
    <3> QED BY <1>4, <2>1, <2>3, <2>4, <2>5, <3>1 DEF LinkInv, AssociationEarned
  <2> QED BY <2>6, <2>7
<1>7. CASE manager.state # "Associating"
  <2>1. manager' = manager /\ owed' = owed /\ last' = last
    BY <1>7 DEF AssociationComplete, Told
  <2>2. owed = NoMachine
    BY <1>7 DEF LinkInv, AssociationEarned
  <2>3. LinkTypeOK'
    BY <1>2, <2>1 DEF LinkInv, LinkTypeOK
  <2>4. last # NoMachine => last \in Machines /\ last # m
    BY DEF LinkInv, LinkTypeOK, AssociationEarned, Waiting
  <2>5. last # NoMachine => link'[last] = link[last] /\ answered'[last] = answered[last]
    BY <1>1, <2>4
  <2>6. AssociationEarned'
    BY <2>1, <2>2, <2>5 DEF LinkInv, AssociationEarned
  <2> QED BY <1>4, <2>3, <2>6 DEF LinkInv
<1> QED BY <1>6, <1>7

\* Whatever ended a request: refused, without room or out of time.
LEMMA LinkFails ==
    ASSUME LinkConstants, LinkInv, NEW m \in Machines, FailLink(m), link[m].state \in Waiting
    PROVE  LinkInv'
<1> DEFINE entry == [FreshLink EXCEPT !.state = "Failed"]
<1>1. entry \in LinkRecord /\ entry.state = IF FALSE THEN "Associated" ELSE "Failed"
  BY DEF FreshLink, LinkRecord
<1>2. answered' \in [Machines -> SUBSET Answers] /\ \A n \in Machines \ {m} : answered'[n] = answered[n]
  BY DEF FailLink, LinkInv, LinkTypeOK
<1>3. /\ link' = [link EXCEPT ![m] = entry]
      /\ manager' = AssociationComplete(link[m].candidate, FALSE) /\ Told(m)
  BY DEF FailLink
<1> HIDE DEF entry
<1> QED BY Zenon, <1>1, <1>2, <1>3, AttemptEnds

\* A step of the manager alone that keeps the station it reports.
LEMMA ManagerSteps ==
    ASSUME LinkInv, UNCHANGED <<link, answered, owed, last>>,
           NEW state \in {"Idle", "Scanning"}, NEW scan \in SUBSET AccessPoints,
           manager.state # "Associating",
           manager' = [manager EXCEPT !.state = state, !.scan = scan]
    PROVE  LinkInv'
<1>1. manager'.state = state /\ manager'.associated = manager.associated /\ manager' \in ManagerRecord
  BY Zenon DEF LinkInv, LinkTypeOK, ManagerRecord, ManagerStates
<1>2. LinkTypeOK' /\ Requested'
  BY <1>1 DEF LinkInv, LinkTypeOK, Requested
<1>3. manager'.state \notin {"Associating", "Associated", "Down"}
  BY <1>1
<1>4. AssociationEarned'
  BY <1>1, <1>3 DEF LinkInv, AssociationEarned
<1> QED BY <1>2, <1>4 DEF LinkInv

\* begin: an unused machine for one access point.
LEMMA Begins ==
    ASSUME LinkConstants, LinkInv, NEW m \in Machines, NEW ap \in AccessPoints, NEW room \in BOOLEAN,
           Begin(m, ap, room)
    PROVE  LinkInv'
<1>1. /\ link[m].state = "Idle" /\ answered' = answered /\ manager.state # "Associating"
      /\ manager.state # "Down"
  BY DEF Begin, CanAssociate
<1>2. last # NoMachine => last \in Machines /\ last # m
  BY <1>1 DEF LinkInv, LinkTypeOK, AssociationEarned
<1>3. CASE ap \in Supported /\ room
  <2> DEFINE entry == [FreshLink EXCEPT !.state = "AuthenticationPending", !.candidate = ap]
  <2>1. /\ manager' = [manager EXCEPT !.state = "Associating"]
        /\ link' = [link EXCEPT ![m] = entry] /\ owed' = m /\ last' = last
    BY <1>3 DEF Begin
  <2>2. entry \in LinkRecord /\ entry.state = "AuthenticationPending" /\ entry.candidate = ap
    BY Zenon DEF FreshLink, LinkRecord, Waiting
  <2> HIDE DEF entry
  <2>3. /\ manager'.state = "Associating" /\ manager'.associated = manager.associated
        /\ manager' \in ManagerRecord
    BY <2>1 DEF LinkInv, LinkTypeOK, ManagerRecord, ManagerStates
  <2>4. /\ link'[m] = entry /\ \A n \in Machines \ {m} : link'[n] = link[n]
        /\ link' \in [Machines -> LinkRecord]
    BY <2>1, <2>2 DEF LinkInv, LinkTypeOK
  <2>5. LinkTypeOK'
    BY <1>1, <2>1, <2>3, <2>4 DEF LinkInv, LinkTypeOK
  <2>6. Requested'
    BY <1>1, <2>2, <2>4 DEF LinkInv, Requested, Waiting
  <2>7. last # NoMachine => link'[last] = link[last]
    BY <1>2, <2>4
  <2>8. m # NoMachine
    BY DEF LinkConstants
  <2>9. AssociationEarned'
    BY <1>1, <2>1, <2>2, <2>3, <2>4, <2>7, <2>8 DEF LinkInv, AssociationEarned
  <2> QED BY <2>5, <2>6, <2>9 DEF LinkInv
<1>4. CASE ~(ap \in Supported /\ room)
  <2>1. /\ manager' = [manager EXCEPT !.state = "Idle", !.associated = NoStation]
        /\ link' = link /\ owed' = NoMachine /\ last' = NoMachine
    BY <1>4 DEF Begin
  <2>2. /\ manager'.state = "Idle" /\ manager'.associated = NoStation
        /\ manager' \in ManagerRecord
    BY Zenon, <2>1 DEF LinkInv, LinkTypeOK, ManagerRecord, ManagerStates
  <2>3. LinkTypeOK' /\ Requested'
    BY <1>1, <2>1, <2>2 DEF LinkInv, LinkTypeOK, Requested
  <2> QED BY <2>1, <2>2, <2>3 DEF LinkInv, AssociationEarned
<1> QED BY <1>3, <1>4

\* An authentication response, expected or not.
LEMMA Authenticates ==
    ASSUME LinkConstants, LinkInv, NEW m \in Machines, NEW ap \in AccessPoints,
           NEW ok \in BOOLEAN, NEW room \in BOOLEAN, AuthenticationResponse(m, ap, ok, room)
    PROVE  LinkInv'
<1>1. link[m].state = "AuthenticationPending" /\ ap = link[m].candidate
  BY DEF AuthenticationResponse, FromCandidate
<1>2. CASE ok /\ room
  <2> DEFINE reply == [kind |-> "authentication", from |-> ap]
  <2>1. /\ link' = [link EXCEPT ![m].state = "AssociationPending"]
        /\ answered' = [answered EXCEPT ![m] = @ \cup {reply}]
        /\ manager' = manager /\ owed' = owed /\ last' = last
    BY <1>2 DEF AuthenticationResponse
  <2>2. reply \in Answers
    BY DEF Answers
  <2> HIDE DEF reply
  <2>3. /\ link'[m].state = "AssociationPending" /\ link'[m].candidate = ap
        /\ \A n \in Machines \ {m} : link'[n] = link[n]
        /\ link' \in [Machines -> LinkRecord]
    BY <1>1, <2>1 DEF LinkInv, LinkTypeOK, LinkRecord, Waiting
  <2>4. /\ reply \in answered'[m] /\ \A n \in Machines \ {m} : answered'[n] = answered[n]
        /\ answered' \in [Machines -> SUBSET Answers]
    BY <2>1, <2>2 DEF LinkInv, LinkTypeOK
  <2>5. LinkTypeOK'
    BY <2>1, <2>3, <2>4 DEF LinkInv, LinkTypeOK
  <2>6. Requested'
    BY <2>3, <2>4 DEF LinkInv, Requested, Waiting, reply
  <2>7. last # NoMachine => last \in Machines /\ last # m
    BY <1>1 DEF LinkInv, LinkTypeOK, AssociationEarned
  <2>8. last # NoMachine => link'[last] = link[last] /\ answered'[last] = answered[last]
    BY <2>3, <2>4, <2>7
  <2>9. owed # NoMachine => link'[owed].state \in Waiting
    BY <2>3 DEF LinkInv, LinkTypeOK, AssociationEarned, Waiting
  <2>10. AssociationEarned'
    BY Zenon, <2>1, <2>8, <2>9 DEF LinkInv, AssociationEarned, Waiting
  <2> QED BY <2>5, <2>6, <2>10 DEF LinkInv
<1>3. CASE ~(ok /\ room)
  <2>1. FailLink(m)
    BY <1>3 DEF AuthenticationResponse
  <2> QED BY <1>1, <2>1, LinkFails DEF Waiting
<1> QED BY <1>2, <1>3

\* An association response, expected or not.
LEMMA Associates ==
    ASSUME LinkConstants, LinkInv, NEW m \in Machines, NEW ap \in AccessPoints, NEW ok \in BOOLEAN,
           AssociationResponse(m, ap, ok)
    PROVE  LinkInv'
<1>1. link[m].state = "AssociationPending" /\ ap = link[m].candidate
  BY DEF AssociationResponse, FromCandidate
<1>2. CASE ok
  <2> DEFINE entry == [link[m] EXCEPT !.state = "Associated", !.aid = 1]
             reply == [kind |-> "association", from |-> ap]
  <2>1. /\ link' = [link EXCEPT ![m] = entry]
        /\ manager' = AssociationComplete(link[m].candidate, TRUE) /\ Told(m)
        /\ answered' = [answered EXCEPT ![m] = @ \cup {reply}]
    BY Zenon, <1>2 DEF AssociationResponse, LinkInv, LinkTypeOK
  <2>2. entry \in LinkRecord /\ entry.state = "Associated" /\ entry.candidate = link[m].candidate
    BY Zenon DEF LinkInv, LinkTypeOK, LinkRecord
  <2>3. reply \in Answers
    BY DEF Answers
  <2> HIDE DEF entry
  <2>4. /\ answered'[m] = answered[m] \cup {reply}
        /\ \A n \in Machines \ {m} : answered'[n] = answered[n]
        /\ answered' \in [Machines -> SUBSET Answers]
    BY <2>1, <2>3 DEF LinkInv, LinkTypeOK
  <2>5. [kind |-> "authentication", from |-> ap] \in answered[m]
    BY <1>1 DEF LinkInv, Requested
  <2>6. \A k \in {"authentication", "association"} :
           [kind |-> k, from |-> link[m].candidate] \in answered'[m]
    BY <1>1, <2>4, <2>5
  <2> HIDE DEF reply
  <2>7. link[m].state \in Waiting /\ entry.state = IF TRUE THEN "Associated" ELSE "Failed"
    BY <1>1, <2>2 DEF Waiting
  <2> QED BY Zenon, <2>1, <2>2, <2>4, <2>6, <2>7, AttemptEnds
<1>3. CASE ~ok
  <2>1. FailLink(m)
    BY <1>3 DEF AssociationResponse
  <2> QED BY <1>1, <2>1, LinkFails DEF Waiting
<1> QED BY <1>2, <1>3

\* Every call and every reply keeps the invariant.
LEMMA LinkStep ==
    ASSUME LinkConstants, LinkInv, [LinkNext]_linkVars
    PROVE  LinkInv'
<1>1. CASE PowerOn
  <2>1. /\ manager' = [manager EXCEPT !.state = "Idle", !.scan = manager.scan]
        /\ manager.scan \in SUBSET AccessPoints /\ manager.state # "Associating"
    BY Zenon, <1>1 DEF PowerOn, LinkInv, LinkTypeOK, ManagerRecord
  <2> QED BY Zenon, <1>1, <2>1, ManagerSteps DEF PowerOn
<1>2. CASE PowerOff
  <2>1. /\ manager'.state = "Down" /\ manager'.associated = NoStation /\ manager' \in ManagerRecord
        /\ owed' = NoMachine /\ last' = NoMachine /\ link' = link /\ answered' = answered
    BY <1>2 DEF PowerOff, Down, ManagerRecord, ManagerStates
  <2>2. LinkTypeOK' /\ Requested'
    BY <2>1 DEF LinkInv, LinkTypeOK, Requested
  <2> QED BY <2>1, <2>2 DEF LinkInv, AssociationEarned
<1>3. CASE BeginScan
  <2>1. {} \in SUBSET AccessPoints /\ manager.state # "Associating"
    BY <1>3 DEF BeginScan, CanScan
  <2> QED BY Zenon, <1>3, <2>1, ManagerSteps DEF BeginScan
<1>4. CASE FinishScan
  <2>1. manager.scan \in SUBSET AccessPoints /\ manager.state # "Associating"
    BY <1>4 DEF FinishScan, LinkInv, LinkTypeOK, ManagerRecord
  <2>2. manager' = [manager EXCEPT !.state = "Idle", !.scan = manager.scan]
    BY Zenon, <1>4 DEF FinishScan, LinkInv, LinkTypeOK, ManagerRecord
  <2> QED BY Zenon, <1>4, <2>1, <2>2, ManagerSteps DEF FinishScan
<1>5. ASSUME NEW b \in Beacon, RecordFrame(b) PROVE LinkInv'
  <2> DEFINE scan == IF Cardinality(manager.scan) < MAX_SCAN_RESULTS
                     THEN manager.scan \cup {b.bssid} ELSE manager.scan
  <2>1. b.bssid \in AccessPoints
    BY DEF Beacon
  <2>2. scan \in SUBSET AccessPoints
    BY <2>1 DEF LinkInv, LinkTypeOK, ManagerRecord
  <2>3. manager' = [manager EXCEPT !.scan = scan]
    BY <1>5 DEF RecordFrame, RecordScanResult
  <2> HIDE DEF scan
  <2>4. manager' = [manager EXCEPT !.state = "Scanning", !.scan = scan] /\ manager.state # "Associating"
    BY Zenon, <1>5, <2>3 DEF RecordFrame, LinkInv, LinkTypeOK, ManagerRecord
  <2> QED BY Zenon, <1>5, <2>2, <2>4, ManagerSteps DEF RecordFrame
<1>6. ASSUME NEW m \in Machines, Timeout(m) PROVE LinkInv'
  BY <1>6, LinkFails DEF Timeout, Waiting
<1>7. CASE UNCHANGED linkVars
  BY <1>7 DEF linkVars, LinkInv, LinkTypeOK, AssociationEarned, Requested
<1> QED BY <1>1, <1>2, <1>3, <1>4, <1>5, <1>6, <1>7, Begins, Authenticates, Associates DEF LinkNext

\* association_complete, begin, authentication_response, association_response, timeout and
\* power_off: the manager waits exactly while the machine it began with works, and reports
\* the end it was told last, with a station only if that station answered both requests of
\* the machine that told it.
THEOREM AssociationAlwaysEarned ==
    ASSUME LinkConstants
    PROVE  LinkSpec => []AssociationEarned
<1>1. LinkInit => LinkInv
  BY LinkStart
<1>2. LinkInv /\ [LinkNext]_linkVars => LinkInv'
  BY LinkStep
<1>3. LinkInv => AssociationEarned
  BY DEF LinkInv
<1> QED BY <1>1, <1>2, <1>3, PTL DEF LinkSpec

-----------------------------------------------------------------------------
(***************************************************************************)
(* Proofs about the deferred Wi-Fi interrupt, for any number of tasks and  *)
(* of processors that take the interrupt at once, and any set of causes.   *)
(*                                                                         *)
(* RuntimeInv adds to the two properties what makes them inductive: the    *)
(* worker sleeps only where it claims, a task never sleeps on a permit,    *)
(* and the worker's owner is a task while it is about to be signalled.     *)
(***************************************************************************)
Completion == [error : BOOLEAN, causes : SUBSET RxCauses]

Binding == [owner : IrqOwners, epoch : Nat \ {0}, cause : SUBSET (RxCauses \cup FatalCauses),
            enabled : BOOLEAN, completion : Completion \cup {Unbound}, faulted : BOOLEAN]

\* The option type has a value of its own, and the worker, whose loop never
\* attaches, is no owner.
RuntimeConstants == Unbound \notin Binding /\ Unbound \notin Completion /\ "worker" \notin IrqOwners

RuntimeTypeOK ==
    /\ mailbox \in [epoch : Nat, pending : BOOLEAN]
    /\ binding \in Binding \cup {Unbound}
    /\ nextEpoch \in Nat \ {0}
    /\ work \in BOOLEAN
    /\ handler \in [Handlers -> [pc : {"idle", "publish", "signal"}, epoch : Nat]]
    /\ worker \in [pc : {"claim", "service", "signal", "wait"}, epoch : Nat, owner : IrqOwners \cup {Unbound}]
    /\ task \in [Tasks -> [asleep : BOOLEAN, permit : BOOLEAN]]

RuntimeInv ==
    /\ RuntimeTypeOK
    /\ worker.pc = "signal" => worker.owner \in IrqOwners
    /\ task["worker"].asleep => worker.pc = "claim"
    /\ MailboxOfBinding
    /\ NoStrandedInterrupt

\* What a signal and a wait do to the latches of the tasks.
LEMMA Latches ==
    ASSUME RuntimeTypeOK, NEW t \in Tasks
    PROVE  /\ Signalled(t) \in [Tasks -> [asleep : BOOLEAN, permit : BOOLEAN]]
           /\ OwnerWaiting(t) \in [Tasks -> [asleep : BOOLEAN, permit : BOOLEAN]]
           /\ ~Signalled(t)[t].asleep
           /\ ~task[t].asleep => Signalled(t)[t].permit
           /\ task[t].permit => ~OwnerWaiting(t)[t].asleep
           /\ \A o \in Tasks \ {t} : Signalled(t)[o] = task[o] /\ OwnerWaiting(t)[o] = task[o]
<1>1. task[t] \in [asleep : BOOLEAN, permit : BOOLEAN] /\ task \in [Tasks -> [asleep : BOOLEAN, permit : BOOLEAN]]
  BY DEF RuntimeTypeOK
<1> QED BY Zenon, <1>1 DEF Signalled, OwnerWaiting

\* The binding that service leaves.
LEMMA ServicedBinding ==
    ASSUME RuntimeTypeOK, Current
    PROVE  LET after == [Serviced EXCEPT !.completion = Coalesced]
           IN  /\ after \in Binding /\ after.epoch = binding.epoch /\ after.owner = binding.owner
               /\ after.faulted = Faulting
<1>1. binding \in Binding /\ ~binding.faulted
  BY DEF Current, RuntimeTypeOK
<1>2. /\ Serviced \in Binding /\ Serviced.epoch = binding.epoch
      /\ Serviced.owner = binding.owner /\ Serviced.faulted = Faulting
  BY Zenon, <1>1 DEF Serviced, Faulting, Binding
<1>3. Coalesced \in Completion
  BY <1>1 DEF Coalesced, Faulting, Binding, Completion, RuntimeTypeOK
<1> QED BY <1>2, <1>3 DEF Binding

\* No device is bound and nothing is pending.
LEMMA RuntimeStart ==
    ASSUME RuntimeConstants, RuntimeInit
    PROVE  RuntimeInv
<1>1. RuntimeTypeOK
  <2>1. handler \in [Handlers -> [pc : {"idle", "publish", "signal"}, epoch : Nat]]
    BY DEF RuntimeInit
  <2>2. task \in [Tasks -> [asleep : BOOLEAN, permit : BOOLEAN]]
    BY DEF RuntimeInit
  <2>3. worker \in [pc : {"claim", "service", "signal", "wait"}, epoch : Nat, owner : IrqOwners \cup {Unbound}]
    BY DEF RuntimeInit
  <2>4. mailbox \in [epoch : Nat, pending : BOOLEAN]
    BY DEF RuntimeInit
  <2>5. binding \in Binding \cup {Unbound} /\ work \in BOOLEAN
    BY Zenon DEF RuntimeInit
  <2>6. nextEpoch \in Nat \ {0}
    BY DEF RuntimeInit
  <2> QED BY <2>1, <2>2, <2>3, <2>4, <2>5, <2>6 DEF RuntimeTypeOK
<1>2. ~task["worker"].asleep
  BY DEF RuntimeInit, Tasks
<1> QED BY <1>1, <1>2 DEF RuntimeInit, RuntimeInv, MailboxOfBinding, NoStrandedInterrupt

\* Every step keeps the types.
LEMMA RuntimeTyped ==
    ASSUME RuntimeConstants, RuntimeInv, RuntimeNext
    PROVE  RuntimeTypeOK'
<1> USE DEF RuntimeTypeOK
<1>0. RuntimeTypeOK
  BY DEF RuntimeInv
<1>1. ASSUME NEW h \in Handlers, Interrupt(h) PROVE RuntimeTypeOK'
  BY <1>0, <1>1 DEF Interrupt
<1>2. ASSUME NEW h \in Handlers, PublishInterrupt(h) PROVE RuntimeTypeOK'
  <2>1. handler' \in [Handlers -> [pc : {"idle", "publish", "signal"}, epoch : Nat]]
    BY <1>0, <1>2 DEF PublishInterrupt
  <2>2. mailbox' \in [epoch : Nat, pending : BOOLEAN]
    BY Zenon, <1>0, <1>2 DEF PublishInterrupt
  <2> QED BY <1>0, <1>2, <2>1, <2>2 DEF PublishInterrupt
<1>3. ASSUME NEW h \in Handlers, SignalWorker(h) PROVE RuntimeTypeOK'
  BY <1>0, <1>3, Latches DEF SignalWorker, Tasks
<1>4. ASSUME Claim PROVE RuntimeTypeOK'
  BY Zenon, <1>0, <1>4 DEF Claim
<1>5. ASSUME Service PROVE RuntimeTypeOK'
  <2>1. CASE Current
    <3>1. binding \in Binding /\ [Serviced EXCEPT !.completion = Coalesced] \in Binding
      BY <1>0, <2>1, ServicedBinding DEF Current
    <3>2. Retired(binding.epoch) \in [epoch : Nat, pending : BOOLEAN]
      BY <1>0 DEF Retired
    <3>3. binding.owner \in IrqOwners
      BY <3>1 DEF Binding
    <3> QED BY Zenon, <1>0, <1>5, <2>1, <3>1, <3>2, <3>3 DEF Service
  <2>2. CASE ~Current
    BY <1>0, <1>5, <2>2 DEF Service
  <2> QED BY <2>1, <2>2
<1>6. ASSUME SignalOwner PROVE RuntimeTypeOK'
  <2>1. worker.owner \in Tasks
    BY <1>6 DEF SignalOwner, RuntimeInv, Tasks
  <2> QED BY Zenon, <1>0, <1>6, <2>1, Latches DEF SignalOwner
<1>7. ASSUME Wait PROVE RuntimeTypeOK'
  BY <1>0, <1>7, Latches DEF Wait, Tasks
<1>8. ASSUME NEW o \in IrqOwners, Attach(o) PROVE RuntimeTypeOK'
  BY <1>0, <1>8 DEF Attach, Binding
<1>9. ASSUME NEW o \in IrqOwners, NEW c \in RxCauses \cup FatalCauses, Seed(o, c) PROVE RuntimeTypeOK'
  <2>1. binding \in Binding
    BY <1>0, <1>9 DEF Seed, Owned
  <2>2. [binding EXCEPT !.cause = {c}] \in Binding
    BY <2>1 DEF Binding
  <2> QED BY <1>0, <1>9, <2>2 DEF Seed
<1>10. ASSUME NEW o \in IrqOwners, TakeCompletion(o) PROVE RuntimeTypeOK'
  <2>1. binding \in Binding
    BY <1>0, <1>10 DEF TakeCompletion, Owned
  <2>2. [binding EXCEPT !.completion = Unbound] \in Binding
    BY <2>1 DEF Binding
  <2> QED BY <1>0, <1>10, <2>2 DEF TakeCompletion
<1>11. ASSUME NEW o \in IrqOwners, AwaitCompletion(o) PROVE RuntimeTypeOK'
  BY <1>0, <1>11, Latches DEF AwaitCompletion, Tasks
<1>12. ASSUME NEW o \in IrqOwners, Deadline(o) PROVE RuntimeTypeOK'
  BY Zenon, <1>0, <1>12 DEF Deadline, Tasks
<1>13. ASSUME NEW o \in IrqOwners, ReleaseOwner(o) PROVE RuntimeTypeOK'
  BY <1>0, <1>13 DEF ReleaseOwner, Retired
<1> QED BY <1>1, <1>2, <1>3, <1>4, <1>5, <1>6, <1>7, <1>8, <1>9, <1>10, <1>11, <1>12, <1>13
        DEF RuntimeNext, WorkerStep

\* Where the worker may sleep, and whom it is about to signal.
LEMMA WorkerPlaced ==
    ASSUME RuntimeConstants, RuntimeInv, RuntimeNext
    PROVE  /\ worker'.pc = "signal" => worker'.owner \in IrqOwners
           /\ task'["worker"].asleep => worker'.pc = "claim"
<1>0. RuntimeTypeOK /\ "worker" \in Tasks /\ \A o \in IrqOwners : o # "worker" /\ o \in Tasks
  BY DEF RuntimeInv, RuntimeConstants, Tasks
<1> DEFINE Placed == /\ worker'.pc = "signal" => worker'.owner \in IrqOwners
                     /\ task'["worker"].asleep => worker'.pc = "claim"
<1>1. ASSUME UNCHANGED worker, task'["worker"] = task["worker"] PROVE Placed
  BY <1>1 DEF RuntimeInv
<1>2. ASSUME NEW h \in Handlers, SignalWorker(h) PROVE Placed
  BY <1>0, <1>2, Latches DEF SignalWorker, RuntimeInv
<1>3. ASSUME Claim PROVE Placed
  <2>1. ~task["worker"].asleep /\ task' = task
    BY <1>3 DEF Claim
  <2>2. worker'.pc \in {"service", "wait"}
    BY Zenon, <1>0, <1>3 DEF Claim, RuntimeTypeOK
  <2> QED BY <2>1, <2>2
<1>4. ASSUME Service PROVE Placed
  <2>1. Current => binding.owner \in IrqOwners
    BY <1>0 DEF Current, Binding, RuntimeTypeOK
  <2> QED BY Zenon, <1>0, <1>4, <2>1 DEF Service, RuntimeInv, RuntimeTypeOK
<1>5. ASSUME SignalOwner PROVE Placed
  <2>1. worker.owner \in IrqOwners
    BY <1>5 DEF SignalOwner, RuntimeInv
  <2>2. task'["worker"] = task["worker"]
    BY <1>0, <1>5, <2>1, Latches DEF SignalOwner
  <2> QED BY <1>0, <1>5, <2>2 DEF SignalOwner, RuntimeInv, RuntimeTypeOK
<1>6. ASSUME Wait PROVE Placed
  BY <1>0, <1>6 DEF Wait, RuntimeTypeOK
<1>7. ASSUME NEW o \in IrqOwners, AwaitCompletion(o) PROVE Placed
  BY <1>0, <1>1, <1>7, Latches DEF AwaitCompletion
<1>8. ASSUME NEW o \in IrqOwners, Deadline(o) PROVE Placed
  BY <1>0, <1>1, <1>8 DEF Deadline, RuntimeTypeOK
<1> QED BY <1>1, <1>2, <1>3, <1>4, <1>5, <1>6, <1>7, <1>8
        DEF RuntimeNext, WorkerStep, Interrupt, PublishInterrupt, Attach, Seed, TakeCompletion, ReleaseOwner

\* The epoch in the mailbox.
LEMMA MailboxKept ==
    ASSUME RuntimeConstants, RuntimeInv, RuntimeNext
    PROVE  MailboxOfBinding'
<1>0. RuntimeTypeOK /\ MailboxOfBinding /\ (binding # Unbound => binding \in Binding)
  BY DEF RuntimeInv, RuntimeTypeOK
<1>1. ASSUME UNCHANGED binding, mailbox'.epoch = mailbox.epoch PROVE MailboxOfBinding'
  BY <1>0, <1>1 DEF MailboxOfBinding
<1>2. ASSUME NEW h \in Handlers, PublishInterrupt(h) PROVE MailboxOfBinding'
  BY <1>0, <1>1, <1>2 DEF PublishInterrupt, RuntimeTypeOK
<1>3. ASSUME Claim PROVE MailboxOfBinding'
  BY <1>0, <1>1, <1>3 DEF Claim, RuntimeTypeOK
<1>4. ASSUME Service PROVE MailboxOfBinding'
  <2>1. CASE ~Current
    BY <1>1, <1>4, <2>1 DEF Service
  <2>2. CASE Current
    <3>1. binding \in Binding /\ ~binding.faulted /\ mailbox.epoch = binding.epoch
      BY <1>0, <2>2 DEF Current, MailboxOfBinding
    <3>2. binding' \in Binding /\ binding'.epoch = binding.epoch /\ binding'.faulted = Faulting
      BY Zenon, <1>0, <1>4, <2>2, ServicedBinding DEF Service
    <3>3. CASE Faulting
      BY <1>4, <2>2, <3>1, <3>2, <3>3 DEF Service, Retired, MailboxOfBinding
    <3>4. CASE ~Faulting
      BY <1>4, <2>2, <3>1, <3>2, <3>4 DEF Service, MailboxOfBinding, RuntimeConstants
    <3> QED BY <3>3, <3>4
  <2> QED BY <2>1, <2>2
<1>5. ASSUME NEW o \in IrqOwners, Attach(o) PROVE MailboxOfBinding'
  <2>1. binding' \in Binding
    BY <1>0, <1>5 DEF Attach, Binding, RuntimeTypeOK
  <2> QED BY Zenon, <1>5, <2>1 DEF Attach, MailboxOfBinding, RuntimeConstants
<1>6. ASSUME NEW b, b \in Binding, binding \in Binding, binding' = b, mailbox' = mailbox,
             b.epoch = binding.epoch, b.faulted = binding.faulted
      PROVE  MailboxOfBinding'
  BY <1>0, <1>6 DEF MailboxOfBinding, RuntimeConstants
<1>7. ASSUME NEW o \in IrqOwners, NEW c \in RxCauses \cup FatalCauses, Seed(o, c) PROVE MailboxOfBinding'
  <2>1. binding \in Binding /\ binding' = [binding EXCEPT !.cause = {c}] /\ mailbox' = mailbox
    BY <1>0, <1>7 DEF Seed, Owned
  <2>2. /\ [binding EXCEPT !.cause = {c}] \in Binding
        /\ [binding EXCEPT !.cause = {c}].epoch = binding.epoch
        /\ [binding EXCEPT !.cause = {c}].faulted = binding.faulted
    BY <2>1 DEF Binding
  <2> QED BY Zenon, <1>6, <2>1, <2>2
<1>8. ASSUME NEW o \in IrqOwners, TakeCompletion(o) PROVE MailboxOfBinding'
  <2>1. binding \in Binding /\ binding' = [binding EXCEPT !.completion = Unbound] /\ mailbox' = mailbox
    BY <1>0, <1>8 DEF TakeCompletion, Owned
  <2>2. /\ [binding EXCEPT !.completion = Unbound] \in Binding
        /\ [binding EXCEPT !.completion = Unbound].epoch = binding.epoch
        /\ [binding EXCEPT !.completion = Unbound].faulted = binding.faulted
    BY <2>1 DEF Binding
  <2> QED BY Zenon, <1>6, <2>1, <2>2
<1>9. ASSUME NEW o \in IrqOwners, ReleaseOwner(o) PROVE MailboxOfBinding'
  BY <1>0, <1>9 DEF ReleaseOwner, Retired, MailboxOfBinding
<1> QED BY <1>1, <1>2, <1>3, <1>4, <1>5, <1>7, <1>8, <1>9
        DEF RuntimeNext, WorkerStep, Interrupt, SignalWorker, SignalOwner, Wait, AwaitCompletion, Deadline

\* Publication, claim and sleep: no interleaving strands an interrupt.
LEMMA InterruptKept ==
    ASSUME RuntimeConstants, RuntimeInv, RuntimeNext
    PROVE  mailbox'.pending => \/ ~task'["worker"].asleep /\ worker'.pc = "claim"
                               \/ task'["worker"].permit
                               \/ \E h \in Handlers : handler'[h].pc = "signal"
<1> DEFINE Kept == mailbox'.pending => \/ ~task'["worker"].asleep /\ worker'.pc = "claim"
                                       \/ task'["worker"].permit
                                       \/ \E h \in Handlers : handler'[h].pc = "signal"
<1>0. /\ RuntimeTypeOK /\ "worker" \in Tasks /\ \A o \in IrqOwners : o # "worker" /\ o \in Tasks
      /\ task["worker"].asleep => worker.pc = "claim"
      /\ mailbox.pending => \/ ~task["worker"].asleep /\ worker.pc = "claim"
                            \/ task["worker"].permit
                            \/ \E h \in Handlers : handler[h].pc = "signal"
  BY DEF RuntimeInv, RuntimeConstants, Tasks, NoStrandedInterrupt
<1>1. ASSUME mailbox'.pending => mailbox.pending, UNCHANGED <<handler, worker>>,
             task'["worker"] = task["worker"]
      PROVE  Kept
  BY <1>0, <1>1
<1>2. ASSUME NEW h \in Handlers, Interrupt(h) PROVE Kept
  <2>1. \A g \in Handlers : handler[g].pc = "signal" => handler'[g].pc = "signal"
    BY <1>0, <1>2 DEF Interrupt, RuntimeTypeOK
  <2> QED BY <1>0, <1>2, <2>1 DEF Interrupt
<1>3. ASSUME NEW h \in Handlers, PublishInterrupt(h) PROVE Kept
  <2>1. CASE CanPublish(handler[h].epoch)
    <3>1. handler'[h].pc = "signal"
      BY <1>0, <1>3, <2>1 DEF PublishInterrupt, RuntimeTypeOK
    <3> QED BY <3>1
  <2>2. CASE ~CanPublish(handler[h].epoch)
    <3>1. \A g \in Handlers : handler[g].pc = "signal" => handler'[g].pc = "signal"
      BY <1>0, <1>3, <2>2 DEF PublishInterrupt, RuntimeTypeOK
    <3> QED BY <1>0, <1>3, <2>2, <3>1 DEF PublishInterrupt
  <2> QED BY <2>1, <2>2
<1>4. ASSUME NEW h \in Handlers, SignalWorker(h) PROVE Kept
  <2>1. CASE task["worker"].asleep
    BY <1>0, <1>4, <2>1, Latches DEF SignalWorker
  <2>2. CASE ~task["worker"].asleep
    BY <1>0, <1>4, <2>2, Latches DEF SignalWorker
  <2> QED BY <2>1, <2>2
<1>5. ASSUME Claim PROVE Kept
  BY <1>0, <1>5 DEF Claim, RuntimeTypeOK
<1>6. ASSUME Service PROVE Kept
  <2>1. mailbox'.pending => mailbox.pending
    BY <1>0, <1>6 DEF Service, Retired
  <2>2. worker.pc = "service" /\ UNCHANGED <<handler, task>>
    BY <1>6 DEF Service
  <2> QED BY <1>0, <2>1, <2>2
<1>7. ASSUME SignalOwner PROVE Kept
  <2>1. worker.owner \in IrqOwners /\ worker.pc = "signal" /\ UNCHANGED <<mailbox, handler>>
    BY <1>7 DEF SignalOwner, RuntimeInv
  <2>2. task'["worker"] = task["worker"]
    BY <1>0, <1>7, <2>1, Latches DEF SignalOwner
  <2> QED BY <1>0, <2>1, <2>2
<1>8. ASSUME Wait PROVE Kept
  <2>1. worker.pc = "wait" /\ worker'.pc = "claim" /\ task' = OwnerWaiting("worker") /\ UNCHANGED <<mailbox, handler>>
    BY <1>0, <1>8 DEF Wait, RuntimeTypeOK
  <2> QED BY <1>0, <2>1, Latches
<1>9. ASSUME NEW o \in IrqOwners, Attach(o) PROVE Kept
  BY <1>9 DEF Attach
<1>10. ASSUME NEW o \in IrqOwners, AwaitCompletion(o) PROVE Kept
  BY <1>0, <1>1, <1>10, Latches DEF AwaitCompletion
<1>11. ASSUME NEW o \in IrqOwners, Deadline(o) PROVE Kept
  BY <1>0, <1>1, <1>11 DEF Deadline, RuntimeTypeOK
<1>12. ASSUME NEW o \in IrqOwners, ReleaseOwner(o) PROVE Kept
  BY Zenon, <1>1, <1>12 DEF ReleaseOwner, Retired
<1> QED BY <1>1, <1>2, <1>3, <1>4, <1>5, <1>6, <1>7, <1>8, <1>9, <1>10, <1>11, <1>12
        DEF RuntimeNext, WorkerStep, Seed, TakeCompletion

\* A completion finds its owner awake, or the worker about to wake it.
LEMMA CompletionKept ==
    ASSUME RuntimeConstants, RuntimeInv, RuntimeNext, binding' # Unbound, binding'.completion # Unbound
    PROVE  \/ ~task'[binding'.owner].asleep
           \/ worker'.pc = "signal" /\ worker'.owner = binding'.owner
<1> DEFINE Kept == \/ ~task'[binding'.owner].asleep
                   \/ worker'.pc = "signal" /\ worker'.owner = binding'.owner
<1>0. /\ RuntimeTypeOK /\ "worker" \in Tasks /\ \A o \in IrqOwners : o # "worker" /\ o \in Tasks
      /\ binding # Unbound => binding \in Binding /\ binding.owner \in IrqOwners
      /\ binding # Unbound /\ binding.completion # Unbound =>
            \/ ~task[binding.owner].asleep
            \/ worker.pc = "signal" /\ worker.owner = binding.owner
  BY DEF RuntimeInv, RuntimeConstants, Tasks, NoStrandedInterrupt, RuntimeTypeOK, Binding
<1>1. ASSUME binding # Unbound, binding.completion # Unbound, binding'.owner = binding.owner,
             task'[binding.owner].asleep => task[binding.owner].asleep, UNCHANGED worker
      PROVE  Kept
  BY <1>0, <1>1
<1>2. ASSUME NEW h \in Handlers, Interrupt(h) \/ PublishInterrupt(h) PROVE Kept
  BY <1>1, <1>2 DEF Interrupt, PublishInterrupt
<1>3. ASSUME NEW h \in Handlers, SignalWorker(h) PROVE Kept
  BY <1>0, <1>1, <1>3, Latches DEF SignalWorker
<1>4. ASSUME Claim PROVE Kept
  BY <1>0, <1>4 DEF Claim
<1>5. ASSUME Service PROVE Kept
  <2>1. CASE Current
    <3>1. binding'.owner = binding.owner
      BY Zenon, <1>0, <1>5, <2>1, ServicedBinding DEF Service
    <3> QED BY Zenon, <1>0, <1>5, <2>1, <3>1 DEF Service, RuntimeTypeOK
  <2>2. CASE ~Current
    BY <1>0, <1>5, <2>2 DEF Service
  <2> QED BY <2>1, <2>2
<1>6. ASSUME SignalOwner PROVE Kept
  <2>1. worker.owner \in Tasks /\ task' = Signalled(worker.owner) /\ UNCHANGED binding
    BY <1>0, <1>6 DEF SignalOwner, RuntimeInv
  <2>2. CASE worker.owner = binding.owner
    BY <1>0, <2>1, <2>2, Latches
  <2>3. CASE worker.owner # binding.owner
    BY <1>0, <2>1, <2>3, Latches
  <2> QED BY <2>2, <2>3
<1>7. ASSUME Wait PROVE Kept
  <2>1. task' = OwnerWaiting("worker") /\ UNCHANGED binding /\ worker.pc = "wait"
    BY <1>7 DEF Wait
  <2> QED BY <1>0, <2>1, Latches
<1>8. ASSUME NEW o \in IrqOwners, Attach(o) PROVE Kept
  BY <1>8 DEF Attach
<1>9. ASSUME NEW o \in IrqOwners, NEW c \in RxCauses \cup FatalCauses, Seed(o, c) PROVE Kept
  <2>1. binding \in Binding /\ binding # Unbound
    BY <1>0, <1>9 DEF Seed, Owned
  <2>2. binding'.owner = binding.owner /\ binding'.completion = binding.completion
    BY <1>9, <2>1 DEF Seed, Binding
  <2> QED BY <1>1, <1>9, <2>1, <2>2 DEF Seed
<1>10. ASSUME NEW o \in IrqOwners, TakeCompletion(o) PROVE FALSE
  <2>1. binding \in Binding
    BY <1>0, <1>10 DEF TakeCompletion, Owned
  <2> QED BY <1>10, <2>1 DEF TakeCompletion, Binding
<1>11. ASSUME NEW o \in IrqOwners, AwaitCompletion(o) PROVE FALSE
  BY <1>11 DEF AwaitCompletion
<1>12. ASSUME NEW o \in IrqOwners, Deadline(o) PROVE Kept
  BY <1>0, <1>1, <1>12 DEF Deadline, RuntimeTypeOK
<1>13. ASSUME NEW o \in IrqOwners, ReleaseOwner(o) PROVE FALSE
  BY <1>13 DEF ReleaseOwner
<1> QED BY <1>2, <1>3, <1>4, <1>5, <1>6, <1>7, <1>8, <1>9, <1>10, <1>11, <1>12, <1>13
        DEF RuntimeNext, WorkerStep

\* Every step of a handler, the owner and the worker keeps the invariant.
LEMMA RuntimeStep ==
    ASSUME RuntimeConstants, RuntimeInv, [RuntimeNext]_runtimeVars
    PROVE  RuntimeInv'
<1>1. CASE RuntimeNext
  BY <1>1, RuntimeTyped, WorkerPlaced, MailboxKept, InterruptKept, CompletionKept
     DEF RuntimeInv, NoStrandedInterrupt
<1>2. CASE UNCHANGED runtimeVars
  BY <1>2 DEF runtimeVars, RuntimeInv, RuntimeTypeOK, MailboxOfBinding, NoStrandedInterrupt
<1> QED BY <1>1, <1>2

\* notify_from_irq, worker, release_owner and wait_for_event, in every interleaving: the
\* mailbox names the live subscription or none, a published interrupt always has somebody
\* who will serve it, and a completion never leaves its owner asleep.
THEOREM InterruptsNeverStranded ==
    ASSUME RuntimeConstants
    PROVE  RuntimeSpec => []InterruptsKept
<1>1. RuntimeInit => RuntimeInv
  BY RuntimeStart
<1>2. RuntimeInv /\ [RuntimeNext]_runtimeVars => RuntimeInv'
  BY RuntimeStep
<1>3. RuntimeInv => InterruptsKept
  BY DEF RuntimeInv, InterruptsKept
<1> QED BY <1>1, <1>2, <1>3, PTL DEF RuntimeSpec

-----------------------------------------------------------------------------
(***************************************************************************)
(* Proofs about a protected association, for any nonces, group keys,       *)
(* replay counters, packet numbers, queue depth and number of attempts.    *)
(*                                                                         *)
(* That keys belong to the association, that both handshake machines agree *)
(* and that keys only move forward is inductive once the state is typed.   *)
(* That packet numbers are used once needs what the counters of the bridge *)
(* stand for: every number that the present activation used is below them, *)
(* and its key has been used by no other activation, unless the caller     *)
(* activated the exchange again.                                           *)
(***************************************************************************)
ExchangeStates == {"Idle", "Failed", "AwaitingMessage1", "AwaitingMessage3", "Completed"}

SentFrames == [key : PairwiseKeys, pn : Nat]

HeardFrames == [key : PairwiseKeys \cup GroupKeys, pn : Nat, defect : {"none", "payload"}]

SupplicantTyped ==
    /\ sup \in [state : ExchangeStates, snonce : Nat, ptk : PairwiseKeys \cup {Unset},
                gtk : GroupKeys \cup {Unset}, replay : Nat, completed : Nat \cup {Unset}]
    /\ hs \in [state : ExchangeStates, last : Nat, anonce : Nonces \cup {Unset}]
    /\ begun \in [snonces : Nat, activations : Nat, used : SUBSET Nat, again : SUBSET Nat]

Uses == [key : PairwiseKeys, pn : Nat, activation : Nat]

Backoffs == {0} \cup {2 ^ k : k \in Nat}

AssociationTyped ==
    /\ rec \in [state : {"Idle", "Connecting", "Connected", "Backoff", "Exhausted"},
                epoch : 1 .. EpochModulus - 1, attempts : Nat, backoff : Backoffs]
    /\ session \in [bridge : Bridge \cup {Unset}, active : Nat \cup {Unset}, up : BOOLEAN,
                    tx : Seq(SentFrames), rx : Seq(HeardFrames)]
    /\ sent \in Seq(Uses) /\ heard \in Seq(Uses)

KeysInv == SupplicantTyped /\ AssociationTyped /\ KeysOfAssociation /\ HandshakeAgrees

\* Numbers were used under keys of activated exchanges, by activations so far.
Recorded(h) ==
    \A i \in DOMAIN h :
      h[i].key[2] \in begun.used /\ h[i].activation <= begun.activations

\* What a counter says of a history: the numbers of this activation are not above it, and
\* other activations had other keys, unless the exchange was activated again.
CountedBy(h, counter, key, activation, again) ==
    \A i \in DOMAIN h :
      /\ h[i].activation = activation => h[i].pn <= counter
      /\ h[i].key = key /\ key[2] \notin again => h[i].activation = activation

Once(h, again) ==
    \A i, j \in DOMAIN h :
      i # j /\ h[i].key = h[j].key /\ h[i].pn = h[j].pn =>
        h[i].activation # h[j].activation /\ h[i].key[2] \in again

NumbersInv ==
    /\ KeysInv /\ Recorded(sent) /\ Recorded(heard)
    /\ session.bridge # Unset =>
          /\ session.bridge.tk[2] \in begun.used
          /\ CountedBy(sent, session.bridge.tx, session.bridge.tk, begun.activations, begun.again)
          /\ CountedBy(heard, session.bridge.rx, session.bridge.tk, begun.activations, begun.again)
    /\ Once(sent, begun.again) /\ Once(heard, begun.again)

\* KeysOfAssociation, with its Booleans compared as propositions.
LEMMA AssociationRead ==
    ASSUME session.up \in BOOLEAN
    PROVE  KeysOfAssociation <=>
             /\ session.up <=> session.bridge # Unset
             /\ session.up <=> session.active # Unset
             /\ session.up => rec.state = "Connected" /\ session.active = rec.epoch
             /\ ~session.up => session.tx = <<>> /\ session.rx = <<>>
             /\ \A i \in DOMAIN session.tx : session.tx[i].key = session.bridge.tk
  BY Zenon DEF KeysOfAssociation

\* clear_association.
LEMMA NothingAssociated ==
    ASSUME session = NoAssociation
    PROVE  KeysOfAssociation
<1>1. session.up = FALSE /\ session.bridge = Unset /\ session.active = Unset
      /\ session.tx = <<>> /\ session.rx = <<>> /\ DOMAIN <<>> = {}
  BY DEF NoAssociation
<1> QED BY Zenon, <1>1, AssociationRead

\* No association and no keys at the start.
LEMMA KeysStart ==
    ASSUME WifiInit
    PROVE  KeysInv
<1>1. SupplicantTyped
  BY DEF WifiInit, SupplicantTyped, ExchangeStates
<1>2. 1 \in 1 .. EpochModulus - 1
  BY SessionAssumption
<1>3. AssociationTyped
  BY <1>2 DEF WifiInit, NoAssociation, AssociationTyped, Backoffs
<1>4. KeysOfAssociation
  BY NothingAssociated DEF WifiInit
<1>5. HandshakeAgrees
  BY DEF WifiInit, HandshakeAgrees
<1> QED BY <1>1, <1>3, <1>4, <1>5 DEF KeysInv

\* What install_verified leaves: the other fields, and a group key that moves forward.
LEMMA InstalledFields ==
    ASSUME SupplicantTyped, NEW m \in Message
    PROVE  LET q == Installed(m)
           IN  /\ q \in [state : ExchangeStates, snonce : Nat, ptk : PairwiseKeys \cup {Unset},
                         gtk : GroupKeys \cup {Unset}, replay : Nat, completed : Nat \cup {Unset}]
               /\ q.state = sup.state /\ q.snonce = sup.snonce /\ q.ptk = sup.ptk
               /\ q.completed = sup.completed
               /\ sup.gtk # Unset => q.gtk # Unset /\ q.replay >= sup.replay
               /\ sup.gtk # Unset /\ q.gtk # sup.gtk => q.replay > sup.replay
               /\ Outcome(m) = "Installed" => q.gtk # Unset /\ q.replay = m.replay
<1>1. m.gtk \in GroupKeys /\ m.replay \in Nat /\ sup.replay \in Nat /\ m.gtk # Unset
  BY Zenon, SessionAssumption DEF Message, SupplicantTyped
<1>2. CASE Outcome(m) = "Installed"
  <2>1. Installed(m) = [sup EXCEPT !.gtk = m.gtk, !.replay = m.replay]
    BY <1>2 DEF Installed
  <2>2. sup.gtk = Unset \/ m.replay > sup.replay
    BY <1>2 DEF Outcome
  <2> DEFINE q == Installed(m)
  <2>3. /\ q \in [state : ExchangeStates, snonce : Nat, ptk : PairwiseKeys \cup {Unset},
                  gtk : GroupKeys \cup {Unset}, replay : Nat, completed : Nat \cup {Unset}]
        /\ q.state = sup.state /\ q.snonce = sup.snonce /\ q.ptk = sup.ptk
        /\ q.completed = sup.completed /\ q.gtk = m.gtk /\ q.replay = m.replay
    BY Zenon, <1>1, <2>1 DEF SupplicantTyped
  <2> HIDE DEF q
  <2>4. sup.gtk # Unset => q.replay >= sup.replay /\ q.replay > sup.replay
    BY <1>1, <2>2, <2>3
  <2> QED BY <1>1, <2>3, <2>4 DEF q
<1>3. CASE Outcome(m) # "Installed"
  <2>1. Installed(m) = sup
    BY <1>3 DEF Installed
  <2> QED BY <1>1, <1>3, <2>1 DEF SupplicantTyped
<1> QED BY <1>2, <1>3

\* Steps of the supplicant leave the association alone.
LEMMA AssociationKept ==
    ASSUME KeysInv, UNCHANGED <<rec, session, sent, heard>>
    PROVE  AssociationTyped' /\ KeysOfAssociation'
  BY DEF KeysInv, AssociationTyped, KeysOfAssociation

\* A step that does not touch the supplicant.
LEMMA SupplicantKept ==
    ASSUME KeysInv, UNCHANGED <<sup, hs>>,
           begun' \in [snonces : Nat, activations : Nat, used : SUBSET Nat, again : SUBSET Nat]
    PROVE  SupplicantTyped' /\ HandshakeAgrees' /\ KeysMoveForward
<1>1. SupplicantTyped' /\ HandshakeAgrees'
  BY DEF KeysInv, SupplicantTyped, HandshakeAgrees
<1> QED BY <1>1 DEF KeysMoveForward

\* fail, abort and reset.
LEMMA WipedKept ==
    ASSUME KeysInv, NEW state \in {"Idle", "Failed"}, sup' = Wiped(state), hs' = [state |-> state, last |-> 0, anonce |-> Unset],
           UNCHANGED begun
    PROVE  SupplicantTyped' /\ HandshakeAgrees' /\ KeysMoveForward
<1>1. SupplicantTyped'
  BY DEF KeysInv, SupplicantTyped, Wiped, ExchangeStates
<1>2. HandshakeAgrees' /\ KeysMoveForward
  BY DEF Wiped, HandshakeAgrees, KeysMoveForward
<1> QED BY <1>1, <1>2

\* Message 1, fresh, repeated or out of place.
LEMMA Message1Kept ==
    ASSUME KeysInv, NEW m \in Message, NEW room \in BOOLEAN, ReceiveMessage1(m, room)
    PROVE  SupplicantTyped' /\ HandshakeAgrees' /\ KeysMoveForward
<1>1. /\ sup.state = "AwaitingMessage1" /\ begun' = begun /\ SupplicantTyped
      /\ sup.ptk = Unset /\ sup.gtk = Unset
  BY DEF KeysInv, ReceiveMessage1, HandshakeAgrees
<1>2. CASE Fail
  BY <1>1, <1>2, WipedKept DEF Fail
<1>3. CASE hs' = [hs EXCEPT !.state = "Failed"] /\ sup' = sup
  <2>1. SupplicantTyped'
    BY <1>1, <1>3 DEF SupplicantTyped, ExchangeStates
  <2> QED BY <1>1, <1>3, <2>1 DEF HandshakeAgrees, KeysMoveForward
<1>4. CASE /\ hs' = [state |-> "AwaitingMessage3", last |-> m.replay, anonce |-> m.nonce]
           /\ sup' = IF room
                     THEN [sup EXCEPT !.ptk = <<m.nonce, sup.snonce>>, !.state = "AwaitingMessage3"]
                     ELSE sup
  <2>1. m.replay \in Nat /\ m.nonce \in Nonces /\ sup.snonce \in Nat
    BY Zenon, <1>1, SessionAssumption DEF Message, SupplicantTyped
  <2>2. <<m.nonce, sup.snonce>> \in PairwiseKeys
    BY <2>1 DEF PairwiseKeys
  <2>3. SupplicantTyped'
    BY Zenon, <1>1, <1>4, <2>1, <2>2 DEF SupplicantTyped, ExchangeStates
  <2>4. HandshakeAgrees' /\ KeysMoveForward
    <3>1. CASE room
      <4>1. /\ sup'.state = "AwaitingMessage3" /\ sup'.ptk = <<m.nonce, sup.snonce>>
            /\ sup'.snonce = sup.snonce /\ hs'.anonce = m.nonce
        BY <1>1, <1>4, <3>1 DEF SupplicantTyped
      <4> QED BY <1>1, <4>1 DEF HandshakeAgrees, KeysMoveForward
    <3>2. CASE ~room
      BY <1>1, <1>4, <3>2 DEF HandshakeAgrees, KeysMoveForward
    <3> QED BY <3>1, <3>2
  <2> QED BY <2>3, <2>4
<1> QED BY <1>2, <1>3, <1>4 DEF ReceiveMessage1

\* A group key message that is accepted installs its key.
LEMMA InstalledKept ==
    ASSUME KeysInv, NEW m \in Message, sup.state = "Completed", sup' = Installed(m),
           UNCHANGED <<hs, begun>>
    PROVE  SupplicantTyped' /\ HandshakeAgrees' /\ KeysMoveForward
<1>1. SupplicantTyped /\ HandshakeAgrees /\ sup.gtk # Unset
  BY DEF KeysInv, HandshakeAgrees
<1>2. /\ sup' \in [state : ExchangeStates, snonce : Nat, ptk : PairwiseKeys \cup {Unset},
                   gtk : GroupKeys \cup {Unset}, replay : Nat, completed : Nat \cup {Unset}]
      /\ sup'.state = sup.state /\ sup'.snonce = sup.snonce /\ sup'.ptk = sup.ptk
      /\ sup'.completed = sup.completed /\ sup'.gtk # Unset /\ sup'.replay >= sup.replay
      /\ sup'.gtk # sup.gtk => sup'.replay > sup.replay
  BY <1>1, InstalledFields
<1>3. SupplicantTyped'
  BY <1>1, <1>2 DEF SupplicantTyped
<1>4. sup.replay \in Nat /\ sup'.replay \in Nat /\ hs.last \in Nat
  BY <1>1, <1>2 DEF SupplicantTyped
<1>5. hs.state = "Completed" /\ sup.completed = hs.last /\ sup.replay >= hs.last
  BY <1>1 DEF HandshakeAgrees
<1>6. sup'.replay >= hs.last
  BY <1>2, <1>4, <1>5
<1>7. sup'.ptk # Unset => sup'.ptk = <<hs'.anonce, sup'.snonce>>
  BY <1>1, <1>2 DEF HandshakeAgrees
<1>8. HandshakeAgrees'
  BY <1>2, <1>5, <1>6, <1>7 DEF HandshakeAgrees
<1> QED BY <1>2, <1>3, <1>8 DEF KeysMoveForward

\* Message 3, fresh, repeated or out of place.
LEMMA Message3Kept ==
    ASSUME KeysInv, NEW m \in Message, NEW room \in BOOLEAN, ReceiveMessage3(m, room)
    PROVE  SupplicantTyped' /\ HandshakeAgrees' /\ KeysMoveForward
<1>1. begun' = begun /\ SupplicantTyped /\ HandshakeAgrees
  BY DEF KeysInv, ReceiveMessage3
<1>2. CASE Fail
  BY <1>1, <1>2, WipedKept DEF Fail
<1>3. CASE sup.state = "Completed" /\ sup' = Installed(m) /\ UNCHANGED hs
  BY <1>1, <1>3, InstalledKept
<1>4. CASE /\ sup.state = "AwaitingMessage3" /\ Message3Accepted(m)
           /\ hs' = [hs EXCEPT !.last = m.replay, !.state = "Completed"]
           /\ sup' = IF room
                     THEN [Installed(m) EXCEPT !.completed = m.replay, !.state = "Completed"]
                     ELSE Installed(m)
  <2> DEFINE q == Installed(m)
  <2>1. m.replay \in Nat /\ Outcome(m) = "Installed"
    BY <1>4, SessionAssumption DEF Message, Message3Accepted
  <2>2. /\ q \in [state : ExchangeStates, snonce : Nat, ptk : PairwiseKeys \cup {Unset},
                  gtk : GroupKeys \cup {Unset}, replay : Nat, completed : Nat \cup {Unset}]
        /\ q.state = sup.state /\ q.snonce = sup.snonce /\ q.ptk = sup.ptk
        /\ q.gtk # Unset /\ q.replay = m.replay
    BY <1>1, <2>1, InstalledFields
  <2> HIDE DEF q
  <2>3. /\ hs' \in [state : ExchangeStates, last : Nat, anonce : Nonces \cup {Unset}]
        /\ hs'.anonce = hs.anonce /\ hs'.last = m.replay /\ hs'.state = "Completed"
    BY Zenon, <1>1, <1>4, <2>1 DEF SupplicantTyped, ExchangeStates
  <2>4. sup.ptk # Unset => sup.ptk = <<hs.anonce, sup.snonce>>
    BY <1>1 DEF HandshakeAgrees
  <2>5. CASE room
    <3>1. sup' = [q EXCEPT !.completed = m.replay, !.state = "Completed"]
      BY <1>4, <2>5 DEF q
    <3>2. /\ sup' \in [state : ExchangeStates, snonce : Nat, ptk : PairwiseKeys \cup {Unset},
                       gtk : GroupKeys \cup {Unset}, replay : Nat, completed : Nat \cup {Unset}]
          /\ sup'.state = "Completed" /\ sup'.completed = m.replay /\ sup'.snonce = sup.snonce
          /\ sup'.ptk = sup.ptk /\ sup'.gtk # Unset /\ sup'.replay = m.replay
      BY Zenon, <2>1, <2>2, <3>1 DEF ExchangeStates
    <3>3. SupplicantTyped'
      BY <1>1, <2>3, <3>2 DEF SupplicantTyped
    <3>4. sup'.replay >= hs'.last
      BY <2>1, <2>3, <3>2
    <3>5. HandshakeAgrees' /\ KeysMoveForward
      BY <1>4, <2>3, <2>4, <3>2, <3>4 DEF HandshakeAgrees, KeysMoveForward
    <3> QED BY <3>3, <3>5
  <2>6. CASE ~room
    <3>1. sup' = q
      BY <1>4, <2>6 DEF q
    <3>2. SupplicantTyped'
      BY <1>1, <2>2, <2>3, <3>1 DEF SupplicantTyped
    <3>3. HandshakeAgrees' /\ KeysMoveForward
      BY Zenon, <1>4, <2>2, <2>3, <2>4, <3>1 DEF HandshakeAgrees, KeysMoveForward
    <3> QED BY <3>2, <3>3
  <2> QED BY <2>5, <2>6
<1> QED BY <1>2, <1>3, <1>4 DEF ReceiveMessage3

\* A new exchange begins, with a nonce of its own.
LEMMA BegunKept ==
    ASSUME KeysInv, BeginHandshake
    PROVE  SupplicantTyped' /\ HandshakeAgrees' /\ KeysMoveForward
<1>1. begun.snonces \in Nat /\ rec.epoch \in Nat
  BY SessionAssumption DEF KeysInv, SupplicantTyped, AssociationTyped
<1>2. begun.snonces + 1 \in Nat
  BY <1>1
<1>3. sup' = [state |-> "AwaitingMessage1", snonce |-> begun.snonces + 1, ptk |-> Unset,
              gtk |-> Unset, replay |-> 0, completed |-> Unset]
  BY DEF BeginHandshake, Wiped
<1>4. SupplicantTyped'
  <2>1. begun' \in [snonces : Nat, activations : Nat, used : SUBSET Nat, again : SUBSET Nat]
    BY <1>2 DEF KeysInv, SupplicantTyped, BeginHandshake
  <2> QED BY <1>1, <1>2, <1>3, <2>1 DEF SupplicantTyped, BeginHandshake, ExchangeStates
<1>5. HandshakeAgrees' /\ KeysMoveForward
  BY <1>3 DEF HandshakeAgrees, KeysMoveForward
<1> QED BY <1>4, <1>5

\* next_epoch, which skips zero when the counter wraps.
LEMMA EpochMoves ==
    ASSUME AssociationTyped
    PROVE  NextEpoch \in 1 .. EpochModulus - 1
<1> DEFINE e == rec.epoch + 1
<1>1. rec.epoch \in 1 .. EpochModulus - 1 /\ EpochModulus \in Nat /\ EpochModulus > 2
  BY SessionAssumption DEF AssociationTyped
<1>2. CASE e = EpochModulus
  <2>1. e % EpochModulus = 0
    BY <1>1, <1>2, Z3
  <2>2. NextEpoch = 1
    BY <2>1 DEF NextEpoch
  <2> QED BY <1>1, <1>2, <2>2
<1>3. CASE e # EpochModulus
  <2>1. e \in Nat /\ e < EpochModulus
    BY <1>1, <1>3
  <2>2. e % EpochModulus = e
    BY <1>1, <2>1, Z3
  <2>3. NextEpoch = e
    BY <1>1, <2>2 DEF NextEpoch
  <2> QED BY <1>1, <2>1, <2>3
<1> QED BY <1>2, <1>3

\* Backing off takes a new epoch.
LEMMA BackoffEntered ==
    ASSUME AssociationTyped
    PROVE  /\ EnterBackoff \in [state : {"Idle", "Connecting", "Connected", "Backoff", "Exhausted"},
                                epoch : 1 .. EpochModulus - 1, attempts : Nat, backoff : Backoffs]
           /\ EnterBackoff.epoch = NextEpoch
<1> DEFINE k == Smaller(IF rec.attempts = 0 THEN 0 ELSE rec.attempts - 1, 5)
           e == NextEpoch
           b == 2 ^ k
<1>1. k \in Nat
  BY DEF Smaller, AssociationTyped
<1>2. e \in 1 .. EpochModulus - 1
  BY EpochMoves
<1>3. EnterBackoff = [rec EXCEPT !.state = "Backoff", !.epoch = e, !.backoff = b]
  BY DEF EnterBackoff
<1> HIDE DEF k, e
<1>4. b \in Backoffs
  BY <1>1 DEF Backoffs
<1> HIDE DEF b
<1>5. /\ EnterBackoff \in [state : {"Idle", "Connecting", "Connected", "Backoff", "Exhausted"},
                           epoch : 1 .. EpochModulus - 1, attempts : Nat, backoff : Backoffs]
      /\ EnterBackoff.epoch = e
  BY Zenon, <1>2, <1>3, <1>4 DEF AssociationTyped
<1> QED BY <1>5 DEF e

\* begin_connect, poll_timeout, connection_failed and disconnect clear the association.
Recovers ==
    BeginConnect \/ PollTimeout \/ Disconnect \/ \E e \in 1 .. rec.epoch : ConnectionFailed(e)

\* The recovery controller leaves no keys of an epoch that is over.
LEMMA RecoveryKept ==
    ASSUME KeysInv, Recovers
    PROVE  AssociationTyped' /\ KeysOfAssociation'
<1>1. session' = NoAssociation /\ sent' = sent /\ heard' = heard /\ AssociationTyped
  BY DEF KeysInv, Recovers, BeginConnect, PollTimeout, Disconnect, ConnectionFailed, ClearAssociation
<1>2. rec' \in [state : {"Idle", "Connecting", "Connected", "Backoff", "Exhausted"},
                epoch : 1 .. EpochModulus - 1, attempts : Nat, backoff : Backoffs]
  <2>1. CASE BeginConnect
    <3>1. rec.attempts \in Nat /\ rec.attempts + 1 \in Nat
      BY <1>1 DEF AssociationTyped
    <3> QED BY Zenon, <1>1, <2>1, <3>1 DEF BeginConnect, AssociationTyped
  <2>2. CASE Disconnect
    BY <1>1, <2>2, EpochMoves DEF Disconnect, Backoffs
  <2>3. CASE rec' = EnterBackoff
    BY <1>1, <2>3, BackoffEntered
  <2> QED BY <2>1, <2>2, <2>3 DEF Recovers, PollTimeout, ConnectionFailed
<1>3. AssociationTyped'
  <2>1. NoAssociation \in [bridge : Bridge \cup {Unset}, active : Nat \cup {Unset}, up : BOOLEAN,
                           tx : Seq(SentFrames), rx : Seq(HeardFrames)]
    BY DEF NoAssociation
  <2> QED BY <1>1, <1>2, <2>1 DEF AssociationTyped
<1>4. KeysOfAssociation'
  <2>1. session'.up = FALSE /\ session'.bridge = Unset /\ session'.active = Unset
        /\ session'.tx = <<>> /\ session'.rx = <<>> /\ DOMAIN <<>> = {}
    BY <1>1 DEF NoAssociation
  <2> QED BY <2>1, Zenon DEF KeysOfAssociation
<1> QED BY <1>3, <1>4

\* A step of the session in the connected epoch.
LEMMA SessionKept ==
    ASSUME KeysInv, rec' = rec, session.up, session'.up = TRUE, session'.active = session.active,
           session'.bridge \in Bridge, session'.bridge.tk = session.bridge.tk,
           \A i \in DOMAIN session'.tx : session'.tx[i].key = session.bridge.tk
    PROVE  KeysOfAssociation'
<1>1. session.up \in BOOLEAN /\ session'.bridge # Unset
  BY SessionAssumption DEF KeysInv, AssociationTyped
<1>2. session.active # Unset /\ rec.state = "Connected" /\ session.active = rec.epoch
  BY <1>1, AssociationRead DEF KeysInv
<1>3. session'.active # Unset /\ rec'.state = "Connected" /\ session'.active = rec'.epoch
  BY <1>2
<1>4. \A i \in DOMAIN session'.tx : session'.tx[i].key = session'.bridge.tk
  OBVIOUS
<1> QED BY <1>1, <1>3, <1>4, Zenon DEF KeysOfAssociation

\* What an accepted call finds.
LEMMA ActiveSession ==
    ASSUME KeysInv, NEW e \in Nat, RequireActive(e)
    PROVE  /\ session.up /\ session.bridge \in Bridge /\ session.active = rec.epoch
           /\ rec.state = "Connected"
           /\ \A i \in DOMAIN session.tx : session.tx[i].key = session.bridge.tk
<1>1. session.up \in BOOLEAN /\ session.active # Unset /\ session.bridge \in Bridge \cup {Unset}
  BY SessionAssumption DEF KeysInv, AssociationTyped, RequireActive
<1> QED BY <1>1, AssociationRead DEF KeysInv, RequireActive

\* activate: a bridge with the keys of the exchange and counters at zero.
LEMMA ActivateKept ==
    ASSUME KeysInv, NEW e \in Nat, Activate(e)
    PROVE  /\ AssociationTyped' /\ KeysOfAssociation'
           /\ session'.bridge = [tk |-> sup.ptk, tx |-> 0, rx |-> 0, gtk |-> sup.gtk, grx |-> 0]
           /\ sup.ptk \in PairwiseKeys
           /\ begun' \in [snonces : Nat, activations : Nat, used : SUBSET Nat, again : SUBSET Nat]
<1> DEFINE b == [tk |-> sup.ptk, tx |-> 0, rx |-> 0, gtk |-> sup.gtk, grx |-> 0]
<1>1. sup.ptk \in PairwiseKeys /\ sup.gtk \in GroupKeys
  BY DEF KeysInv, SupplicantTyped, Activate, CanActivate
<1>2. b \in Bridge /\ b.tk = sup.ptk
  BY <1>1 DEF Bridge
<1>3. /\ session' = [session EXCEPT !.bridge = b, !.up = TRUE, !.active = e]
      /\ rec' = [rec EXCEPT !.state = "Connected", !.attempts = 0, !.backoff = 0]
      /\ rec.state = "Connecting" /\ e = rec.epoch /\ sent' = sent /\ heard' = heard
  BY DEF Activate, CanActivate
<1> HIDE DEF b
<1>4. session.up \in BOOLEAN /\ AssociationTyped
  BY DEF KeysInv, AssociationTyped
<1>5. ~session.up /\ session.tx = <<>> /\ session.rx = <<>>
  BY <1>3, <1>4, AssociationRead DEF KeysInv
<1>6. /\ session' \in [bridge : Bridge \cup {Unset}, active : Nat \cup {Unset}, up : BOOLEAN,
                       tx : Seq(SentFrames), rx : Seq(HeardFrames)]
      /\ session'.bridge = b /\ session'.up = TRUE /\ session'.active = e /\ session'.tx = <<>>
  BY Zenon, <1>2, <1>3, <1>4, <1>5 DEF AssociationTyped
<1>7. /\ rec' \in [state : {"Idle", "Connecting", "Connected", "Backoff", "Exhausted"},
                   epoch : 1 .. EpochModulus - 1, attempts : Nat, backoff : Backoffs]
      /\ rec'.state = "Connected" /\ rec'.epoch = rec.epoch
  BY Zenon, <1>3, <1>4 DEF AssociationTyped, Backoffs
<1>8. AssociationTyped'
  BY <1>3, <1>4, <1>6, <1>7 DEF AssociationTyped
<1>9. b # Unset /\ e # Unset /\ DOMAIN <<>> = {}
  BY <1>2, SessionAssumption
<1>10. KeysOfAssociation'
  BY <1>3, <1>6, <1>7, <1>9, Zenon DEF KeysOfAssociation
<1>11. begun' \in [snonces : Nat, activations : Nat, used : SUBSET Nat, again : SUBSET Nat]
  <2>1. begun.activations + 1 \in Nat /\ sup.snonce \in Nat
    BY DEF KeysInv, SupplicantTyped
  <2> QED BY Zenon, <2>1 DEF Activate, KeysInv, SupplicantTyped
<1> QED BY <1>1, <1>6, <1>8, <1>10, <1>11 DEF b

\* A new group key leaves the pairwise key and its counters.
LEMMA RefreshKept ==
    ASSUME KeysInv, NEW e \in Nat, RefreshGroupKey(e)
    PROVE  /\ AssociationTyped' /\ KeysOfAssociation'
           /\ session'.bridge.tk = session.bridge.tk /\ session'.bridge.tx = session.bridge.tx
           /\ session'.bridge.rx = session.bridge.rx /\ session.bridge # Unset
<1> DEFINE b == [session.bridge EXCEPT !.gtk = sup.gtk, !.grx = 0]
<1>1. /\ session.up /\ session.bridge \in Bridge /\ AssociationTyped
      /\ \A i \in DOMAIN session.tx : session.tx[i].key = session.bridge.tk
  BY ActiveSession DEF RefreshGroupKey, KeysInv
<1>2. sup.gtk \in GroupKeys
  BY DEF KeysInv, SupplicantTyped, RefreshGroupKey
<1>3. /\ b \in Bridge /\ b.tk = session.bridge.tk /\ b.tx = session.bridge.tx
      /\ b.rx = session.bridge.rx
  BY Zenon, <1>1, <1>2 DEF Bridge
<1>4. session' = [session EXCEPT !.bridge = b] /\ rec' = rec /\ sent' = sent /\ heard' = heard
  BY Zenon, <1>1 DEF RefreshGroupKey
<1> HIDE DEF b
<1>5. /\ session' \in [bridge : Bridge \cup {Unset}, active : Nat \cup {Unset}, up : BOOLEAN,
                       tx : Seq(SentFrames), rx : Seq(HeardFrames)]
      /\ session'.bridge = b /\ session'.up = session.up /\ session'.active = session.active
      /\ session'.tx = session.tx
  BY Zenon, <1>1, <1>3, <1>4 DEF AssociationTyped
<1>6. AssociationTyped'
  BY <1>1, <1>4, <1>5 DEF AssociationTyped
<1>7. session'.up = TRUE
  BY <1>1, <1>5 DEF AssociationTyped
<1>8. KeysOfAssociation'
  BY <1>1, <1>3, <1>4, <1>5, <1>7, SessionKept
<1> QED BY <1>1, <1>3, <1>5, <1>6, <1>8, SessionAssumption

\* A frame is sent with the next number of the pairwise key.
LEMMA TransmitKept ==
    ASSUME KeysInv, NEW e \in Nat, TransmitEthernet(e)
    PROVE  /\ AssociationTyped' /\ KeysOfAssociation'
           /\ session.bridge \in Bridge /\ session'.bridge \in Bridge
           /\ session'.bridge.tk = session.bridge.tk /\ session'.bridge.tx = session.bridge.tx + 1
           /\ session'.bridge.rx = session.bridge.rx
           /\ sent' = Append(sent, Use(session.bridge.tx + 1))
<1> DEFINE pn == session.bridge.tx + 1
           b == [session.bridge EXCEPT !.tx = pn]
           f == [key |-> session.bridge.tk, pn |-> pn]
           q == Transmit(f)
<1>1. /\ session.up /\ session.bridge \in Bridge /\ AssociationTyped
      /\ \A i \in DOMAIN session.tx : session.tx[i].key = session.bridge.tk
  BY ActiveSession DEF TransmitEthernet, KeysInv
<1>2. pn \in Nat /\ session.bridge.tk \in PairwiseKeys
  BY <1>1 DEF Bridge
<1>3. /\ session' = [session EXCEPT !.bridge = b, !.tx = q]
      /\ sent' = Append(sent, Use(pn)) /\ rec' = rec /\ heard' = heard
  BY <1>1 DEF TransmitEthernet
<1> HIDE DEF pn
<1>4. /\ b \in Bridge /\ b.tk = session.bridge.tk /\ b.tx = pn /\ b.rx = session.bridge.rx
  BY <1>1, <1>2 DEF Bridge
<1>5. f \in SentFrames /\ f.key = session.bridge.tk
  BY <1>2 DEF SentFrames
<1> HIDE DEF b, f
<1>6. q \in Seq(SentFrames) /\ \A i \in DOMAIN q : q[i].key = session.bridge.tk
  <2>1. session.tx \in Seq(SentFrames)
    BY <1>1 DEF AssociationTyped
  <2>2. CASE q = Append(session.tx, f)
    BY <1>1, <1>5, <2>1, <2>2
  <2>3. CASE q = session.tx
    BY <1>1, <2>1, <2>3
  <2> QED BY <2>2, <2>3 DEF Transmit
<1> HIDE DEF q
<1>7. /\ session' \in [bridge : Bridge \cup {Unset}, active : Nat \cup {Unset}, up : BOOLEAN,
                       tx : Seq(SentFrames), rx : Seq(HeardFrames)]
      /\ session'.bridge = b /\ session'.up = session.up /\ session'.active = session.active
      /\ session'.tx = q
  BY Zenon, <1>1, <1>3, <1>4, <1>6 DEF AssociationTyped
<1>8. sent' \in Seq(Uses)
  <2>1. Use(pn) \in Uses
    BY <1>2 DEF Use, Uses, KeysInv, SupplicantTyped
  <2> QED BY <1>1, <1>3, <2>1 DEF AssociationTyped
<1>9. AssociationTyped'
  BY <1>1, <1>3, <1>7, <1>8 DEF AssociationTyped
<1>10. session'.up = TRUE
  BY <1>1, <1>7 DEF AssociationTyped
<1>11. KeysOfAssociation'
  BY <1>1, <1>3, <1>4, <1>6, <1>7, <1>10, SessionKept
<1> QED BY <1>1, <1>3, <1>4, <1>7, <1>9, <1>11 DEF pn

\* A frame is accepted only with a number above the last one.
LEMMA ReceiveKept ==
    ASSUME KeysInv, NEW e \in Nat, ReceiveEthernet(e)
    PROVE  /\ AssociationTyped' /\ KeysOfAssociation'
           /\ session.bridge \in Bridge /\ session'.bridge \in Bridge
           /\ session'.bridge.tk = session.bridge.tk /\ session'.bridge.tx = session.bridge.tx
           /\ \/ heard' = heard /\ session'.bridge.rx >= session.bridge.rx
              \/ /\ session'.bridge.rx > session.bridge.rx
                 /\ heard' = Append(heard, Use(session'.bridge.rx))
<1> DEFINE f == Head(session.rx)
           q == Tail(session.rx)
<1>1. /\ session.up /\ session.bridge \in Bridge /\ AssociationTyped
      /\ \A i \in DOMAIN session.tx : session.tx[i].key = session.bridge.tk
  BY ActiveSession DEF ReceiveEthernet, KeysInv
<1>2. session.rx \in Seq(HeardFrames) /\ session.rx # <<>>
  BY <1>1 DEF AssociationTyped, ReceiveEthernet
<1>3. f \in HeardFrames /\ q \in Seq(HeardFrames)
  BY <1>2
<1>4. f.pn \in Nat
  BY <1>3 DEF HeardFrames
<1>5. rec' = rec /\ sent' = sent /\ Decapsulate(f)
  BY DEF ReceiveEthernet
<1>6. PICK b \in Bridge :
        /\ session' = [session EXCEPT !.rx = q, !.bridge = b]
        /\ b.tk = session.bridge.tk /\ b.tx = session.bridge.tx
        /\ \/ heard' = heard /\ b.rx >= session.bridge.rx
           \/ b.rx > session.bridge.rx /\ heard' = Append(heard, Use(b.rx))
  <2> HIDE DEF f
  <2>0. session.bridge.rx \in Nat
    BY <1>1 DEF Bridge
  <2>1. CASE /\ Unprotect(f, session.bridge.tk, session.bridge.rx)
             /\ session' = [session EXCEPT !.rx = Tail(@), !.bridge.rx = f.pn]
             /\ heard' = IF f.defect = "none" THEN Append(heard, Use(f.pn)) ELSE heard
    <3> DEFINE b == [session.bridge EXCEPT !.rx = f.pn]
    <3>1. b \in Bridge /\ b.tk = session.bridge.tk /\ b.tx = session.bridge.tx /\ b.rx = f.pn
      BY <1>1, <1>4 DEF Bridge
    <3>2. session' = [session EXCEPT !.rx = q, !.bridge = b]
      BY <2>1
    <3> HIDE DEF b, q
    <3>3. f.key = session.bridge.tk /\ f.pn > session.bridge.rx
      BY <2>1 DEF Unprotect
    <3>4. f.pn >= session.bridge.rx
      BY <1>4, <2>0, <3>3
    <3> QED BY Zenon, <2>1, <3>1, <3>2, <3>3, <3>4
  <2>2. CASE /\ Unprotect(f, session.bridge.gtk, session.bridge.grx)
             /\ session' = [session EXCEPT !.rx = Tail(@), !.bridge.grx = f.pn]
             /\ UNCHANGED heard
    <3> DEFINE b == [session.bridge EXCEPT !.grx = f.pn]
    <3>1. /\ b \in Bridge /\ b.tk = session.bridge.tk /\ b.tx = session.bridge.tx
          /\ b.rx = session.bridge.rx
      BY <1>1, <1>4 DEF Bridge
    <3>2. session' = [session EXCEPT !.rx = q, !.bridge = b]
      BY <2>2
    <3> HIDE DEF b, q
    <3>3. b.rx >= session.bridge.rx
      BY <2>0, <3>1
    <3> QED BY Zenon, <2>2, <3>1, <3>2, <3>3
  <2>3. CASE session' = [session EXCEPT !.rx = Tail(@)] /\ UNCHANGED heard
    <3>1. session' = [session EXCEPT !.rx = q, !.bridge = session.bridge]
      BY Zenon, <1>1, <2>3 DEF AssociationTyped
    <3> HIDE DEF q
    <3>2. session.bridge.rx >= session.bridge.rx
      BY <2>0
    <3> QED BY Zenon, <1>1, <2>3, <3>1, <3>2
  <2> QED BY Zenon, <1>5, <2>1, <2>2, <2>3 DEF Decapsulate
<1> HIDE DEF f, q
<1>7. /\ session' \in [bridge : Bridge \cup {Unset}, active : Nat \cup {Unset}, up : BOOLEAN,
                       tx : Seq(SentFrames), rx : Seq(HeardFrames)]
      /\ session'.bridge = b /\ session'.up = session.up /\ session'.active = session.active
      /\ session'.tx = session.tx
  BY Zenon, <1>1, <1>3, <1>6 DEF AssociationTyped
<1>8. heard' \in Seq(Uses)
  <2>1. session.bridge.tk \in PairwiseKeys /\ b.rx \in Nat
    BY <1>1 DEF Bridge
  <2>2. Use(b.rx) \in Uses
    BY <2>1 DEF Use, Uses, KeysInv, SupplicantTyped
  <2>3. heard \in Seq(Uses) /\ (heard' = heard \/ heard' = Append(heard, Use(b.rx)))
    BY Zenon, <1>1, <1>6 DEF AssociationTyped
  <2> QED BY <2>2, <2>3
<1>9. AssociationTyped'
  BY <1>1, <1>5, <1>7, <1>8 DEF AssociationTyped
<1>10. session'.up = TRUE
  BY <1>1, <1>7 DEF AssociationTyped
<1>11. KeysOfAssociation'
  BY <1>1, <1>5, <1>6, <1>7, <1>10, SessionKept
<1> QED BY <1>1, <1>6, <1>7, <1>9, <1>11

\* inject_rx and dequeue_tx: the queues alone.
LEMMA QueuesKept ==
    ASSUME KeysInv, UNCHANGED <<rec, sent, heard>>,
           (\E f \in Frame : InjectRx(f)) \/ DequeueTx
    PROVE  /\ AssociationTyped' /\ KeysOfAssociation' /\ session'.bridge = session.bridge
<1>1. AssociationTyped /\ session.up \in BOOLEAN
  BY DEF KeysInv, AssociationTyped
<1>2. CASE \E f \in Frame : InjectRx(f)
  <2>1. PICK f \in Frame : InjectRx(f)
    BY <1>2
  <2>2. f \in HeardFrames
    <3>1. begun.snonces \in Nat
      BY DEF KeysInv, SupplicantTyped
    <3> DEFINE K == {<<n, s>> : n \in Nonces, s \in 1..begun.snonces}
    <3>2. K \subseteq PairwiseKeys
      BY <3>1 DEF PairwiseKeys
    <3>3. f \in [key : K \cup GroupKeys, pn : PacketNumbers, defect : {"none", "payload"}]
      BY DEF Frame
    <3> HIDE DEF K
    <3> QED BY Zenon, <3>2, <3>3, SessionAssumption DEF HeardFrames
  <2> DEFINE q == Append(session.rx, f)
  <2>3. q \in Seq(HeardFrames) /\ session.up /\ session' = [session EXCEPT !.rx = q]
    BY <1>1, <2>1, <2>2 DEF InjectRx, AssociationTyped
  <2> HIDE DEF q
  <2>4. /\ session' \in [bridge : Bridge \cup {Unset}, active : Nat \cup {Unset}, up : BOOLEAN,
                         tx : Seq(SentFrames), rx : Seq(HeardFrames)]
        /\ session'.bridge = session.bridge /\ session'.up = session.up
        /\ session'.active = session.active /\ session'.tx = session.tx
    BY Zenon, <1>1, <2>3 DEF AssociationTyped
  <2>5. AssociationTyped'
    BY <1>1, <2>4 DEF AssociationTyped
  <2>6. /\ session.bridge \in Bridge
        /\ \A i \in DOMAIN session.tx : session.tx[i].key = session.bridge.tk
    <3>1. session.bridge \in Bridge \cup {Unset}
      BY <1>1 DEF AssociationTyped
    <3> QED BY <1>1, <2>3, <3>1, AssociationRead DEF KeysInv
  <2>7. session'.up = TRUE
    BY <1>1, <2>3, <2>4
  <2>8. KeysOfAssociation'
    BY <2>3, <2>4, <2>6, <2>7, SessionKept
  <2> QED BY <2>4, <2>5, <2>8
<1>3. CASE DequeueTx
  <2> DEFINE q == Tail(session.tx)
  <2>1. session.tx \in Seq(SentFrames) /\ session.tx # <<>>
    BY <1>1, <1>3 DEF AssociationTyped, DequeueTx
  <2>2. /\ session.bridge \in Bridge /\ session.up
        /\ \A i \in DOMAIN session.tx : session.tx[i].key = session.bridge.tk
    <3>1. session.bridge \in Bridge \cup {Unset}
      BY <1>1 DEF AssociationTyped
    <3> QED BY <1>1, <2>1, <3>1, AssociationRead DEF KeysInv
  <2>3. q \in Seq(SentFrames) /\ \A i \in DOMAIN q : q[i].key = session.bridge.tk
    <3>1. q \in Seq(SentFrames) /\ Len(q) = Len(session.tx) - 1
      BY <2>1
    <3>2. \A i \in 1 .. Len(q) : q[i] = session.tx[i + 1] /\ i + 1 \in DOMAIN session.tx
      BY <2>1, <3>1
    <3> QED BY <2>2, <3>1, <3>2
  <2>4. session' = [session EXCEPT !.tx = q]
    BY <1>3 DEF DequeueTx
  <2> HIDE DEF q
  <2>5. /\ session' \in [bridge : Bridge \cup {Unset}, active : Nat \cup {Unset}, up : BOOLEAN,
                         tx : Seq(SentFrames), rx : Seq(HeardFrames)]
        /\ session'.bridge = session.bridge /\ session'.up = session.up
        /\ session'.active = session.active /\ session'.tx = q
    BY Zenon, <1>1, <2>3, <2>4 DEF AssociationTyped
  <2>6. AssociationTyped'
    BY <1>1, <2>5 DEF AssociationTyped
  <2>7. session'.up = TRUE
    BY <1>1, <2>2, <2>5
  <2>8. KeysOfAssociation'
    BY <2>2, <2>3, <2>5, <2>7, SessionKept
  <2> QED BY <2>5, <2>6, <2>8
<1> QED BY <1>2, <1>3

\* Every step keeps the invariant and moves keys forward only.
LEMMA KeysStep ==
    ASSUME KeysInv, [WifiNext]_wifiVars
    PROVE  KeysInv' /\ [KeysMoveForward]_wifiVars
<1>1. CASE UNCHANGED wifiVars
  <2>1. UNCHANGED <<sup, hs, rec, session, begun, sent, heard>>
    BY <1>1 DEF wifiVars
  <2> QED BY <2>1, AssociationKept, SupplicantKept DEF KeysInv, SupplicantTyped
<1>2. CASE \E m \in Message, room \in BOOLEAN : ReceiveMessage1(m, room) \/ ReceiveMessage3(m, room)
  <2>1. UNCHANGED <<rec, session, sent, heard>>
    BY <1>2 DEF ReceiveMessage1, ReceiveMessage3
  <2> QED BY <1>2, <2>1, AssociationKept, Message1Kept, Message3Kept DEF KeysInv
<1>3. CASE \E m \in Message : ReceiveGroupKey(m)
  BY <1>3, AssociationKept, InstalledKept DEF KeysInv, ReceiveGroupKey
<1>4. CASE Reset \/ Abort
  BY <1>4, AssociationKept, WipedKept DEF KeysInv, Reset, Abort, Fail
<1>5. CASE BeginHandshake
  <2>1. UNCHANGED <<rec, session, sent, heard>>
    BY <1>5 DEF BeginHandshake
  <2> QED BY <1>5, <2>1, AssociationKept, BegunKept DEF KeysInv
<1>6. CASE Recovers
  <2>1. UNCHANGED <<sup, hs, begun>>
    BY <1>6 DEF Recovers, BeginConnect, PollTimeout, Disconnect, ConnectionFailed
  <2> QED BY <1>6, <2>1, RecoveryKept, SupplicantKept DEF KeysInv, SupplicantTyped
<1>7. CASE \E e \in 1..rec.epoch : Activate(e) \/ RefreshGroupKey(e) \/ TransmitEthernet(e)
                                     \/ ReceiveEthernet(e)
  <2>1. PICK e \in 1..rec.epoch : Activate(e) \/ RefreshGroupKey(e) \/ TransmitEthernet(e)
                                     \/ ReceiveEthernet(e)
    BY <1>7
  <2>2. e \in Nat /\ UNCHANGED <<sup, hs>> /\ (begun' = begun \/ Activate(e))
    BY <2>1 DEF Activate, RefreshGroupKey, TransmitEthernet, ReceiveEthernet
  <2>3. AssociationTyped' /\ KeysOfAssociation'
    BY Zenon, <2>1, <2>2, ActivateKept, RefreshKept, TransmitKept, ReceiveKept
  <2>4. begun' \in [snonces : Nat, activations : Nat, used : SUBSET Nat, again : SUBSET Nat]
    BY Zenon, <2>2, ActivateKept DEF KeysInv, SupplicantTyped
  <2> QED BY <2>2, <2>3, <2>4, SupplicantKept DEF KeysInv
<1>8. CASE (\E f \in Frame : InjectRx(f)) \/ DequeueTx
  <2>1. UNCHANGED <<sup, hs, rec, begun, sent, heard>>
    BY <1>8 DEF InjectRx, DequeueTx
  <2> QED BY <1>8, <2>1, QueuesKept, SupplicantKept DEF KeysInv, SupplicantTyped
<1> QED BY <1>1, <1>2, <1>3, <1>4, <1>5, <1>6, <1>7, <1>8 DEF WifiNext, Recovers

\* install_verified and the retransmission of message 3: a completed exchange keeps its
\* pairwise key until it is wiped, and its group key changes only under a larger counter.
THEOREM KeysAlwaysForward == WifiSpec => KeysOnlyForward
<1>1. WifiInit => KeysInv
  BY KeysStart
<1>2. KeysInv /\ [WifiNext]_wifiVars => KeysInv' /\ [KeysMoveForward]_wifiVars
  BY KeysStep
<1> QED BY <1>1, <1>2, PTL DEF WifiSpec, KeysOnlyForward

-----------------------------------------------------------------------------
(* Packet numbers.                                                         *)

\* A history that grows by a number above all those of its activation, under a key that
\* no other activation has used, unless it was activated again.
LEMMA NumberAppended ==
    ASSUME NEW h \in Seq(Uses), NEW x \in Uses, NEW counter \in Nat, NEW again,
           x.pn > counter, CountedBy(h, counter, x.key, x.activation, again), Once(h, again)
    PROVE  /\ Once(Append(h, x), again)
           /\ CountedBy(Append(h, x), x.pn, x.key, x.activation, again)
           /\ \A i \in DOMAIN Append(h, x) :
                 (i \in DOMAIN h /\ Append(h, x)[i] = h[i]) \/ Append(h, x)[i] = x
<1> DEFINE q == Append(h, x)
<1>1. x.pn \in Nat /\ \A i \in DOMAIN h : h[i].pn \in Nat
  <2>1. \A i \in DOMAIN h : h[i] \in Uses
    OBVIOUS
  <2> QED BY Zenon, <2>1 DEF Uses
<1>2. /\ DOMAIN q = DOMAIN h \cup {Len(h) + 1} /\ Len(h) + 1 \notin DOMAIN h
      /\ \A i \in DOMAIN h : q[i] = h[i]
      /\ q[Len(h) + 1] = x
  OBVIOUS
<1> HIDE DEF q
<1>3. ASSUME NEW i \in DOMAIN h, h[i].key = x.key, h[i].pn = x.pn
      PROVE  h[i].activation # x.activation /\ x.key[2] \in again
  <2>1. h[i].activation # x.activation
    BY SMTT(30), <1>1, <1>3 DEF CountedBy
  <2> QED BY <1>3, <2>1 DEF CountedBy
<1>4. Once(q, again)
  <2> SUFFICES ASSUME NEW i \in DOMAIN q, NEW j \in DOMAIN q, i # j,
                      q[i].key = q[j].key, q[i].pn = q[j].pn
               PROVE  q[i].activation # q[j].activation /\ q[i].key[2] \in again
    BY Zenon DEF Once
  <2>1. CASE i \in DOMAIN h /\ j \in DOMAIN h
    BY Zenon, <1>2, <2>1 DEF Once
  <2>2. CASE i \in DOMAIN h /\ j = Len(h) + 1
    BY Zenon, <1>2, <1>3, <2>2
  <2>3. CASE i = Len(h) + 1 /\ j \in DOMAIN h
    BY Zenon, <1>2, <1>3, <2>3
  <2> QED BY <1>2, <2>1, <2>2, <2>3
<1>5. CountedBy(q, x.pn, x.key, x.activation, again)
  BY <1>1, <1>2 DEF CountedBy
<1> QED BY <1>2, <1>4, <1>5 DEF q

\* A counter that moves without a use.
LEMMA CounterMoved ==
    ASSUME NEW h \in Seq(Uses), NEW m \in Nat, NEW n \in Nat, n >= m, NEW key, NEW act, NEW again,
           CountedBy(h, m, key, act, again)
    PROVE  CountedBy(h, n, key, act, again)
<1>1. \A i \in DOMAIN h : h[i].pn \in Nat
  <2>1. \A i \in DOMAIN h : h[i] \in Uses
    OBVIOUS
  <2> QED BY Zenon, <2>1 DEF Uses
<1> QED BY <1>1 DEF CountedBy

\* Steps that leave the histories and the association's numbers alone.
LEMMA NumbersKept ==
    ASSUME NumbersInv, KeysInv', UNCHANGED <<sent, heard>>,
           begun'.used = begun.used, begun'.again = begun.again,
           begun'.activations = begun.activations,
           \/ session'.bridge = Unset
           \/ /\ session.bridge # Unset
              /\ session'.bridge.tk = session.bridge.tk /\ session'.bridge.tx = session.bridge.tx
              /\ session'.bridge.rx = session.bridge.rx
    PROVE  NumbersInv'
<1>1. Recorded(sent)' /\ Recorded(heard)'
  BY Zenon DEF NumbersInv, Recorded
<1>2. Once(sent', begun'.again) /\ Once(heard', begun'.again)
  BY Zenon DEF NumbersInv
<1>3. session'.bridge # Unset =>
        /\ session'.bridge.tk[2] \in begun'.used
        /\ CountedBy(sent', session'.bridge.tx, session'.bridge.tk, begun'.activations, begun'.again)
        /\ CountedBy(heard', session'.bridge.rx, session'.bridge.tk, begun'.activations, begun'.again)
  BY Zenon DEF NumbersInv
<1> QED BY Zenon, <1>1, <1>2, <1>3 DEF NumbersInv, CountedBy, Once

\* activate: no number has been used by the new activation, and none at all under its key
\* unless the exchange was activated before.
LEMMA NumbersActivated ==
    ASSUME NumbersInv, KeysInv', NEW e \in Nat, Activate(e)
    PROVE  NumbersInv'
<1>1. /\ session'.bridge = [tk |-> sup.ptk, tx |-> 0, rx |-> 0, gtk |-> sup.gtk, grx |-> 0]
      /\ sup.ptk \in PairwiseKeys
  BY Zenon, ActivateKept DEF NumbersInv
<1>2. sup.ptk[2] = sup.snonce
  <2>1. sup.ptk # Unset
    BY Zenon, <1>1, SessionAssumption
  <2>2. sup.ptk = <<hs.anonce, sup.snonce>>
    BY Zenon, <2>1 DEF NumbersInv, KeysInv, HandshakeAgrees
  <2> QED BY <2>2
<1>3. session'.bridge.tk = sup.ptk /\ session'.bridge.tk[2] = sup.snonce
  BY <1>1, <1>2
<1>4. /\ begun'.activations = begun.activations + 1 /\ begun.activations \in Nat
      /\ begun'.used = begun.used \cup {sup.snonce}
      /\ begun'.again = begun.again \cup ({sup.snonce} \cap begun.used)
      /\ sent' = sent /\ heard' = heard
  BY DEF Activate, NumbersInv, KeysInv, SupplicantTyped
<1>5. ASSUME NEW h \in {sent, heard}, NEW i \in DOMAIN h
      PROVE  /\ h[i].key[2] \in begun.used /\ h[i].activation \in Nat
             /\ h[i].activation <= begun.activations
  <2>1. h \in Seq(Uses) /\ Recorded(h)
    BY Zenon, <1>5 DEF NumbersInv, KeysInv, AssociationTyped
  <2>2. h[i] \in Uses
    BY <2>1
  <2> QED BY Zenon, <2>1, <2>2 DEF Recorded, Uses
<1>6. ASSUME NEW h \in {sent, heard}, NEW i \in DOMAIN h
      PROVE  h[i].activation # begun'.activations /\ h[i].activation <= begun'.activations
  BY <1>4, <1>5
<1>7. Recorded(sent)' /\ Recorded(heard)'
  BY Zenon, <1>4, <1>5, <1>6 DEF Recorded
<1>8. ASSUME NEW h \in {sent, heard}, NEW n
      PROVE  CountedBy(h, n, session'.bridge.tk, begun'.activations, begun'.again)
  BY Zenon, <1>3, <1>4, <1>5, <1>6 DEF CountedBy
<1>9. ASSUME NEW h \in {sent, heard} PROVE Once(h, begun'.again)
  <2>1. Once(h, begun.again)
    BY Zenon, <1>9 DEF NumbersInv
  <2>2. begun.again \subseteq begun'.again
    BY <1>4
  <2> QED BY <2>1, <2>2 DEF Once
<1>10. session'.bridge.tk[2] \in begun'.used
  BY <1>3, <1>4
<1>11. /\ CountedBy(sent', session'.bridge.tx, session'.bridge.tk, begun'.activations, begun'.again)
       /\ CountedBy(heard', session'.bridge.rx, session'.bridge.tk, begun'.activations, begun'.again)
       /\ Once(sent', begun'.again) /\ Once(heard', begun'.again)
  BY Zenon, <1>4, <1>8, <1>9
<1>12. /\ CountedBy(sent, session.bridge.tx, session.bridge.tk, begun.activations, begun.again)'
       /\ CountedBy(heard, session.bridge.rx, session.bridge.tk, begun.activations, begun.again)'
       /\ Once(sent, begun.again)' /\ Once(heard, begun.again)'
  BY Zenon, <1>11 DEF CountedBy, Once
<1> QED BY Zenon, <1>7, <1>10, <1>12 DEF NumbersInv

\* transmit_ethernet and receive_ethernet: one history grows, or neither.
LEMMA NumbersUsed ==
    ASSUME NumbersInv, KeysInv', NEW e \in Nat, TransmitEthernet(e) \/ ReceiveEthernet(e)
    PROVE  NumbersInv'
<1> DEFINE k == session.bridge.tk
           tx == session.bridge.tx
           rx == session.bridge.rx
           tx1 == session'.bridge.tx
           rx1 == session'.bridge.rx
           act == begun.activations
           again == begun.again
           X(pn) == [key |-> k, pn |-> pn, activation |-> act]
<1>1. /\ session.bridge \in Bridge /\ session'.bridge \in Bridge /\ session'.bridge.tk = k
      /\ begun' = begun /\ KeysInv
      /\ \/ tx1 = tx + 1 /\ rx1 = rx /\ sent' = Append(sent, X(tx1)) /\ heard' = heard
         \/ tx1 = tx /\ rx1 >= rx /\ sent' = sent /\ heard' = heard
         \/ tx1 = tx /\ rx1 > rx /\ sent' = sent /\ heard' = Append(heard, X(rx1))
  BY TransmitKept, ReceiveKept DEF NumbersInv, TransmitEthernet, ReceiveEthernet, Use
<1>2. /\ session.bridge # Unset /\ k \in PairwiseKeys /\ tx \in Nat /\ rx \in Nat
      /\ tx1 \in Nat /\ rx1 \in Nat
  BY Zenon, <1>1, SessionAssumption DEF Bridge
<1>3. /\ k[2] \in begun.used /\ CountedBy(sent, tx, k, act, again) /\ CountedBy(heard, rx, k, act, again)
      /\ Once(sent, again) /\ Once(heard, again) /\ Recorded(sent) /\ Recorded(heard)
  BY Zenon, <1>2 DEF NumbersInv
<1>4. sent \in Seq(Uses) /\ heard \in Seq(Uses) /\ act \in Nat
  BY Zenon, <1>1 DEF KeysInv, AssociationTyped, SupplicantTyped
<1> HIDE DEF k, tx, rx, tx1, rx1, act, again
<1>5. ASSUME NEW pn \in Nat
      PROVE  X(pn) \in Uses /\ X(pn).key = k /\ X(pn).pn = pn /\ X(pn).activation = act
  BY <1>2, <1>4 DEF Uses
<1> HIDE DEF X
<1>6. ASSUME NEW h \in Seq(Uses), NEW q, NEW m \in Nat, NEW n \in Nat,
             CountedBy(h, m, k, act, again), Once(h, again), Recorded(h),
             (q = h /\ n >= m) \/ (q = Append(h, X(n)) /\ n > m)
      PROVE  CountedBy(q, n, k, act, again) /\ Once(q, again) /\ Recorded(q)
  <2>1. CASE q = h /\ n >= m
    BY <1>6, <2>1, CounterMoved
  <2>2. CASE q = Append(h, X(n)) /\ n > m
    <3> DEFINE x == X(n)
    <3>1. x \in Uses /\ x.key = k /\ x.pn = n /\ x.activation = act
      BY <1>5
    <3> HIDE DEF x
    <3>2. q = Append(h, x) /\ x.pn > m /\ CountedBy(h, m, x.key, x.activation, again)
      BY SMTT(30), <1>6, <2>2, <3>1 DEF x
    <3>3. /\ Once(q, again) /\ CountedBy(q, x.pn, x.key, x.activation, again)
          /\ \A i \in DOMAIN q : (i \in DOMAIN h /\ q[i] = h[i]) \/ q[i] = x
      BY SMTT(30), <1>6, <3>1, <3>2, NumberAppended
    <3>4. k[2] \in begun.used
      BY Zenon, <1>3
    <3>5. act = begun.activations /\ act <= act
      BY SMTT(30), <1>4 DEF act
    <3>6. Recorded(q)
      BY Zenon, <1>6, <3>1, <3>3, <3>4, <3>5 DEF Recorded
    <3> QED BY <3>1, <3>3, <3>6
  <2> QED BY <1>6, <2>1, <2>2
<1>7. CountedBy(sent', tx1, k, act, again) /\ Once(sent', again) /\ Recorded(sent')
  <2>1. (sent' = sent /\ tx1 >= tx) \/ (sent' = Append(sent, X(tx1)) /\ tx1 > tx)
    BY <1>1, <1>2
  <2> QED BY Zenon, <1>2, <1>3, <1>4, <1>6, <2>1
<1>8. CountedBy(heard', rx1, k, act, again) /\ Once(heard', again) /\ Recorded(heard')
  <2>1. (heard' = heard /\ rx1 >= rx) \/ (heard' = Append(heard, X(rx1)) /\ rx1 > rx)
    BY <1>1, <1>2
  <2> QED BY Zenon, <1>2, <1>3, <1>4, <1>6, <2>1
<1>9. Recorded(sent)' /\ Recorded(heard)'
  BY Zenon, <1>1, <1>7, <1>8 DEF Recorded
<1>10. session'.bridge.tk[2] \in begun'.used
  BY Zenon, <1>1, <1>3
<1>11. /\ CountedBy(sent, session.bridge.tx, session.bridge.tk, begun.activations, begun.again)'
       /\ CountedBy(heard, session.bridge.rx, session.bridge.tk, begun.activations, begun.again)'
       /\ Once(sent, begun.again)' /\ Once(heard, begun.again)'
  BY Zenon, <1>1, <1>7, <1>8 DEF CountedBy, Once, tx1, rx1, act, again
<1> QED BY Zenon, <1>9, <1>10, <1>11 DEF NumbersInv

\* Every step keeps packet numbers unused above the counters.
LEMMA NumbersStep ==
    ASSUME NumbersInv, [WifiNext]_wifiVars
    PROVE  NumbersInv'
<1>1. KeysInv /\ KeysInv'
  BY KeysStep DEF NumbersInv
<1>2. CASE UNCHANGED <<sent, heard, begun>> /\ (session'.bridge = session.bridge \/ session'.bridge = Unset)
  BY <1>1, <1>2, NumbersKept
<1>3. CASE BeginHandshake
  <2>1. /\ UNCHANGED <<session, sent, heard>> /\ begun'.used = begun.used
        /\ begun'.again = begun.again /\ begun'.activations = begun.activations
    BY <1>1, <1>3 DEF BeginHandshake, KeysInv, SupplicantTyped
  <2> QED BY <1>1, <2>1, NumbersKept
<1>4. CASE Recovers
  <2>1. UNCHANGED <<sent, heard, begun>> /\ session' = NoAssociation
    BY <1>4 DEF Recovers, BeginConnect, PollTimeout, Disconnect, ConnectionFailed, ClearAssociation
  <2>2. session'.bridge = Unset
    BY <2>1 DEF NoAssociation
  <2> QED BY <1>2, <2>1, <2>2
<1>5. CASE \E e \in 1..rec.epoch : Activate(e) \/ TransmitEthernet(e) \/ ReceiveEthernet(e)
  BY <1>1, <1>5, NumbersActivated, NumbersUsed
<1>6. CASE \E e \in 1..rec.epoch : RefreshGroupKey(e)
  <2>1. PICK e \in Nat : RefreshGroupKey(e)
    BY <1>6
  <2>2. UNCHANGED <<sent, heard, begun>>
    BY <2>1 DEF RefreshGroupKey
  <2>3. /\ session.bridge # Unset
        /\ session'.bridge.tk = session.bridge.tk /\ session'.bridge.tx = session.bridge.tx
        /\ session'.bridge.rx = session.bridge.rx
    BY <1>1, <2>1, RefreshKept
  <2> QED BY <1>1, <2>2, <2>3, NumbersKept
<1>7. CASE UNCHANGED wifiVars
  BY <1>2, <1>7 DEF wifiVars
<1>8. CASE \E m \in Message, room \in BOOLEAN : ReceiveMessage1(m, room) \/ ReceiveMessage3(m, room)
  BY <1>2, <1>8 DEF ReceiveMessage1, ReceiveMessage3
<1>9. CASE (\E m \in Message : ReceiveGroupKey(m)) \/ Reset \/ Abort
  BY <1>2, <1>9 DEF ReceiveGroupKey, Reset, Abort, Fail
<1>10. CASE (\E f \in Frame : InjectRx(f)) \/ DequeueTx
  <2>1. session'.bridge = session.bridge
    BY <1>1, <1>10 DEF InjectRx, DequeueTx, KeysInv, AssociationTyped
  <2> QED BY <1>2, <1>10, <2>1 DEF InjectRx, DequeueTx
<1> QED BY Zenon, <1>3, <1>4, <1>5, <1>6, <1>7, <1>8, <1>9, <1>10 DEF WifiNext, Recovers

\* activate_from_wpa2, transmit_ethernet, receive_ethernet and the recovery machine: keys are
\* those of the association, both handshake machines agree, and under one pairwise key no
\* packet number is sent twice nor accepted twice, however the station reconnects and also
\* when the epoch wraps, unless the caller activates one completed exchange again; within
\* one activation it never happens.
THEOREM PacketNumbersUsedOnce == WifiSpec => []WifiKeys
<1>1. WifiInit => NumbersInv
  <2> SUFFICES ASSUME WifiInit PROVE NumbersInv
    OBVIOUS
  <2>1. KeysInv
    BY Zenon, KeysStart
  <2>2. sent = <<>> /\ heard = <<>> /\ session.bridge = Unset
    BY Zenon DEF WifiInit, NoAssociation
  <2>3. Once(sent, begun.again) /\ Once(heard, begun.again) /\ Recorded(sent) /\ Recorded(heard)
    BY <2>2 DEF Once, Recorded
  <2> QED BY <2>1, <2>2, <2>3 DEF NumbersInv
<1>2. NumbersInv /\ [WifiNext]_wifiVars => NumbersInv'
  BY SMTT(30), NumbersStep
<1>3. NumbersInv => WifiKeys
  BY DEF NumbersInv, KeysInv, WifiKeys, PacketNumbersOnce, UsedOnce, Once
<1> QED BY <1>1, <1>2, <1>3, PTL DEF WifiSpec

-----------------------------------------------------------------------------
(***************************************************************************)
(* The sector cache, for every set of sectors, every number of entries and *)
(* every saturation age: it stays coherent, and it is the store of         *)
(* SectorStore.                                                            *)
(*                                                                         *)
(* The invariant is the cache's type with CacheCoherent.  The lemmas speak *)
(* of an arbitrary table es over an arbitrary medium dk, so that they      *)
(* apply to the state before and to the state after a call.                *)
(***************************************************************************)
Keeps(es, i, l) == es[i].valid /\ es[i].lba = l

Coherent(es, dk) ==
    /\ es \in [Index -> CacheEntry]
    /\ dk \in [Lbas -> Values]
    /\ \A i, j \in Index : es[i].valid /\ es[j].valid /\ es[i].lba = es[j].lba => i = j
    /\ \A i \in Index : es[i].valid /\ ~es[i].dirty => es[i].data = dk[es[i].lba]

ContentOf(es, dk) ==
    [l \in Lbas |-> IF \A i \in Index : ~Keeps(es, i, l) THEN dk[l]
                    ELSE es[CHOOSE i \in Index : Keeps(es, i, l)].data]

\* An entry given a sector.
Put(es, index, l, v, d) ==
    [es EXCEPT ![index] = [lba |-> l, data |-> v, valid |-> TRUE, dirty |-> d, age |-> 0]]

CacheInv == Coherent(entries, disk)

\* The invariant of the cache is its type and its coherence.
LEMMA InvIsCoherence == CacheInv <=> CacheTypeOK /\ CacheCoherent
  BY DEF CacheInv, Coherent, CacheTypeOK, CacheCoherent

\* The content of the store, now and after the step.
LEMMA ContentIsContentOf == Content = ContentOf(entries, disk) /\ Content' = ContentOf(entries', disk')
  BY Zenon DEF Content, ContentOf, Missing, Holds, Keeps

\* What a coherent table answers: the data of the entry that keeps a sector,
\* and the medium's when none does.
LEMMA ContentAt ==
    ASSUME NEW es, NEW dk, Coherent(es, dk), NEW l \in Lbas
    PROVE  /\ \A i \in Index : Keeps(es, i, l) => ContentOf(es, dk)[l] = es[i].data
           /\ (\A i \in Index : ~Keeps(es, i, l)) => ContentOf(es, dk)[l] = dk[l]
           /\ ContentOf(es, dk)[l] \in Values
<1>1. ASSUME NEW i \in Index, Keeps(es, i, l) PROVE ContentOf(es, dk)[l] = es[i].data
  <2>1. (CHOOSE j \in Index : Keeps(es, j, l)) = i
    BY <1>1 DEF Coherent, Keeps
  <2> QED BY Zenon, <1>1, <2>1 DEF ContentOf
<1>2. ASSUME \A i \in Index : ~Keeps(es, i, l) PROVE ContentOf(es, dk)[l] = dk[l]
  BY <1>2 DEF ContentOf
<1>3. \A i \in Index : es[i].data \in Values
  BY DEF Coherent, CacheEntry
<1>4. dk[l] \in Values
  BY DEF Coherent
<1> QED BY <1>1, <1>2, <1>3, <1>4

\* The two cases of ContentAt on their own.
LEMMA ContentKept ==
    ASSUME NEW es, NEW dk, Coherent(es, dk), NEW l \in Lbas, NEW i \in Index, Keeps(es, i, l)
    PROVE  ContentOf(es, dk)[l] = es[i].data
  BY ContentAt

\* No entry keeps the sector: the medium answers.
LEMMA ContentMissed ==
    ASSUME NEW es, NEW dk, Coherent(es, dk), NEW l \in Lbas, \A i \in Index : ~Keeps(es, i, l)
    PROVE  ContentOf(es, dk)[l] = dk[l]
  BY ContentAt

\* Two coherent tables that keep the same sectors with the same data over the same medium
\* answer alike; touch changes only ages.
LEMMA AgesDoNotCount ==
    ASSUME NEW es, NEW dk, NEW index \in Index, Coherent(es, dk)
    PROVE  Coherent(touch(es, index), dk) /\ ContentOf(touch(es, index), dk) = ContentOf(es, dk)
<1> DEFINE after == touch(es, index)
<1>1. \A i \in Index : es[i] \in CacheEntry
  BY DEF Coherent
<1>2. \A a \in 0 .. MaxAge : Older(a) \in 0 .. MaxAge
  BY CacheAssumption DEF Older
<1>3. ASSUME NEW i \in Index
      PROVE  /\ after[i] \in CacheEntry
             /\ after[i].lba = es[i].lba /\ after[i].data = es[i].data
             /\ after[i].valid = es[i].valid /\ after[i].dirty = es[i].dirty
  <2>1. es[i].age \in 0 .. MaxAge /\ 0 \in 0 .. MaxAge
    BY <1>1, CacheAssumption DEF CacheEntry
  <2>2. PICK a \in 0 .. MaxAge : after[i] = [es[i] EXCEPT !.age = a]
    BY <2>1, <1>2 DEF touch
  <2> QED BY <2>2, <1>1 DEF CacheEntry
<1>4. after \in [Index -> CacheEntry]
  BY <1>3 DEF touch
<1> HIDE DEF after
<1>5. Coherent(after, dk)
  BY <1>3, <1>4 DEF Coherent
<1>6. \A i \in Index, l \in Lbas : Keeps(after, i, l) <=> Keeps(es, i, l)
  BY <1>3 DEF Keeps
<1>7. ASSUME NEW l \in Lbas PROVE ContentOf(after, dk)[l] = ContentOf(es, dk)[l]
  <2>1. CASE \E i \in Index : Keeps(es, i, l)
    <3>1. PICK i \in Index : Keeps(es, i, l)
      BY Zenon, <2>1
    <3>2. Keeps(after, i, l)
      BY Zenon, <3>1, <1>6
    <3>3. ContentOf(after, dk)[l] = after[i].data
      BY ZenonT(30), <3>2, <1>5, ContentKept
    <3>4. ContentOf(es, dk)[l] = es[i].data
      BY ZenonT(30), <3>1, ContentKept
    <3> QED BY Zenon, <3>3, <3>4, <1>3
  <2>2. CASE \A i \in Index : ~Keeps(es, i, l)
    <3>1. \A i \in Index : ~Keeps(after, i, l)
      BY Zenon, <2>2, <1>6
    <3>2. ContentOf(after, dk)[l] = dk[l]
      BY Zenon, <3>1, <1>5, ContentMissed
    <3>3. ContentOf(es, dk)[l] = dk[l]
      BY Zenon, <2>2, ContentMissed
    <3> QED BY Zenon, <3>2, <3>3
  <2> QED BY Zenon, <2>1, <2>2
<1>8. ContentOf(after, dk) = ContentOf(es, dk)
  BY <1>7 DEF ContentOf
<1> QED BY <1>5, <1>8 DEF after

\* Putting a sector in an entry that holds nothing the medium lacks.
LEMMA PutInstalled ==
    ASSUME NEW es, NEW dk, NEW index \in Index, NEW l \in Lbas, NEW v \in Values, NEW d \in BOOLEAN,
           Coherent(es, dk), ~(es[index].valid /\ es[index].dirty),
           \A i \in Index : ~Keeps(es, i, l),
           ~d => v = dk[l]
    PROVE  /\ Coherent(Put(es, index, l, v, d), dk)
           /\ ContentOf(Put(es, index, l, v, d), dk) = [ContentOf(es, dk) EXCEPT ![l] = v]
<1> DEFINE after == Put(es, index, l, v, d)
<1>1. /\ after[index] \in CacheEntry
      /\ after[index].lba = l /\ after[index].data = v /\ after[index].valid /\ after[index].dirty = d
  BY CacheAssumption DEF Coherent, CacheEntry, Put
<1>2. \A i \in Index \ {index} : after[i] = es[i]
  BY Zenon DEF Coherent, Put
<1>3. after \in [Index -> CacheEntry]
  BY Zenon, <1>1, <1>2 DEF Coherent, Put
<1> HIDE DEF after
<1>4. Coherent(after, dk)
  <2>1. ASSUME NEW i \in Index, NEW j \in Index, after[i].valid, after[j].valid, after[i].lba = after[j].lba
        PROVE  i = j
    BY SMTT(30), <2>1, <1>1, <1>2 DEF Coherent, Keeps
  <2>2. ASSUME NEW i \in Index, after[i].valid, ~after[i].dirty PROVE after[i].data = dk[after[i].lba]
    BY Zenon, <2>2, <1>1, <1>2 DEF Coherent
  <2> QED BY Zenon, <2>1, <2>2, <1>3 DEF Coherent
<1>5. ContentOf(after, dk)[l] = v
  BY Zenon, <1>1, <1>4, ContentAt DEF Keeps
<1>6. ASSUME NEW m \in Lbas, m # l PROVE ContentOf(after, dk)[m] = ContentOf(es, dk)[m]
  <2>1. CASE Keeps(es, index, m)
    <3>1. \A i \in Index : ~Keeps(after, i, m)
      BY Zenon, <1>1, <1>2, <1>6, <2>1 DEF Coherent, Keeps
    <3>2. ContentOf(after, dk)[m] = dk[m]
      BY <3>1, <1>4, ContentAt
    <3>3. es[index].data = dk[m]
      BY Zenon, <2>1 DEF Coherent, Keeps, CacheEntry
    <3>4. ContentOf(es, dk)[m] = es[index].data
      BY Zenon, <2>1, ContentKept
    <3> QED BY <3>2, <3>3, <3>4
  <2>2. CASE \E i \in Index \ {index} : Keeps(es, i, m)
    <3>1. PICK i \in Index \ {index} : Keeps(es, i, m)
      BY <2>2
    <3>2. Keeps(after, i, m) /\ after[i] = es[i]
      BY Zenon, <3>1, <1>2 DEF Keeps
    <3> QED BY <3>1, <3>2, <1>4, ContentAt
  <2>3. CASE \A i \in Index : ~Keeps(es, i, m)
    <3>1. \A i \in Index : ~Keeps(after, i, m)
      BY <2>3, <1>1, <1>2, <1>6 DEF Keeps
    <3>2. ContentOf(after, dk)[m] = dk[m]
      BY Zenon, <3>1, <1>4, ContentMissed
    <3>3. ContentOf(es, dk)[m] = dk[m]
      BY Zenon, <2>3, ContentMissed
    <3> QED BY Zenon, <3>2, <3>3
  <2> QED BY Zenon, <2>1, <2>2, <2>3
<1>7. ContentOf(after, dk) = [ContentOf(es, dk) EXCEPT ![l] = v]
  <2>1. \A table : ContentOf(table, dk) = [m \in Lbas |-> ContentOf(table, dk)[m]]
    BY SMTT(30) DEF ContentOf
  <2> QED BY Zenon, <1>5, <1>6, <2>1
<1> QED BY Zenon, <1>4, <1>7 DEF after

\* write_back of any set of entries: the medium gets only what a read answered,
\* nothing that a read answers changes, and the entries are clean.
LEMMA WriteBack ==
    ASSUME CacheInv, NEW T \in SUBSET Index
    PROVE  /\ Coherent(Cleaned(T), Written(T))
           /\ ContentOf(Cleaned(T), Written(T)) = Content
           /\ \A l \in Lbas : Written(T)[l] \in {disk[l], Content[l]}
           /\ \A i \in T : ~(Cleaned(T)[i].valid /\ Cleaned(T)[i].dirty)
           /\ \A i \in Index : /\ Cleaned(T)[i].lba = entries[i].lba
                               /\ Cleaned(T)[i].valid = entries[i].valid
<1> DEFINE es == Cleaned(T)
           dk == Written(T)
<1>1. \A i \in Index : entries[i] \in CacheEntry
  BY DEF CacheInv, Coherent
<1>2. ASSUME NEW i \in Index
      PROVE  /\ es[i] \in CacheEntry
             /\ es[i].lba = entries[i].lba /\ es[i].data = entries[i].data
             /\ es[i].valid = entries[i].valid
             /\ es[i].dirty = (entries[i].dirty /\ ~(i \in T /\ entries[i].valid))
  BY Zenon, <1>1 DEF Cleaned, CacheEntry
<1>3. es \in [Index -> CacheEntry]
  BY Zenon, <1>2 DEF Cleaned
<1>4. ASSUME NEW i \in T, Pending(i) PROVE dk[entries[i].lba] = entries[i].data
  <2>1. entries[i].lba \in Lbas
    BY <1>1 DEF CacheEntry
  <2>2. (CHOOSE j \in T : Pending(j) /\ entries[j].lba = entries[i].lba) = i
    BY <1>4 DEF CacheInv, Coherent, Pending
  <2> QED BY Zenon, <1>4, <2>1, <2>2 DEF Written
<1>5. ASSUME NEW l \in Lbas, ~\E i \in T : Pending(i) /\ entries[i].lba = l PROVE dk[l] = disk[l]
  BY <1>5 DEF Written
<1>6. Content = ContentOf(entries, disk)
  BY ContentIsContentOf
<1>7. ASSUME NEW l \in Lbas PROVE dk[l] \in {disk[l], Content[l]} /\ dk[l] \in Values
  <2>1. CASE \E i \in T : Pending(i) /\ entries[i].lba = l
    <3>1. PICK i \in T : Pending(i) /\ entries[i].lba = l
      BY <2>1
    <3>2. Keeps(entries, i, l)
      BY Zenon, <3>1 DEF Keeps, Pending
    <3>3. ContentOf(entries, disk)[l] = entries[i].data /\ ContentOf(entries, disk)[l] \in Values
      BY SMTT(30), <3>2, ContentAt DEF CacheInv
    <3> QED BY <3>1, <3>3, <1>4, <1>6
  <2>2. CASE ~\E i \in T : Pending(i) /\ entries[i].lba = l
    BY Zenon, <2>2, <1>5 DEF CacheInv, Coherent
  <2> QED BY Zenon, <2>1, <2>2
<1>8. dk \in [Lbas -> Values]
  BY Zenon, <1>7 DEF Written
<1> HIDE DEF es, dk
<1>9. Coherent(es, dk)
  <2>1. ASSUME NEW i \in Index, es[i].valid, ~es[i].dirty PROVE es[i].data = dk[es[i].lba]
    <3>1. CASE Pending(i)
      BY Zenon, <3>1, <2>1, <1>1, <1>2, <1>4 DEF Pending, CacheEntry
    <3>2. CASE ~Pending(i)
      <4>1. entries[i].valid /\ ~entries[i].dirty /\ entries[i].lba \in Lbas
        BY <3>2, <2>1, <1>1, <1>2 DEF Pending, CacheEntry
      <4>2. ~\E j \in T : Pending(j) /\ entries[j].lba = entries[i].lba
        BY <4>1 DEF CacheInv, Coherent, Pending
      <4> QED BY <4>1, <4>2, <1>2, <1>5 DEF CacheInv, Coherent
    <3> QED BY <3>1, <3>2
  <2> QED BY <2>1, <1>2, <1>3, <1>8 DEF CacheInv, Coherent
<1>10. ASSUME NEW l \in Lbas PROVE ContentOf(es, dk)[l] = Content[l]
  <2>1. CASE \E i \in Index : Keeps(entries, i, l)
    <3>1. PICK i \in Index : Keeps(entries, i, l)
      BY <2>1
    <3>2. Keeps(es, i, l)
      BY Zenon, <3>1, <1>2 DEF Keeps
    <3>3. ContentOf(es, dk)[l] = es[i].data
      BY Zenon, <3>2, <1>9, ContentKept
    <3>4. ContentOf(entries, disk)[l] = entries[i].data
      BY Zenon, <3>1, ContentKept DEF CacheInv
    <3> QED BY <3>3, <3>4, <1>2, <1>6
  <2>2. CASE \A i \in Index : ~Keeps(entries, i, l)
    <3>1. \A i \in Index : ~Keeps(es, i, l)
      BY Zenon, <2>2, <1>2 DEF Keeps
    <3>2. ContentOf(es, dk)[l] = dk[l]
      BY <3>1, <1>9, ContentAt
    <3>3. dk[l] = disk[l]
      BY Zenon, <2>2, <1>5 DEF Keeps, Pending
    <3>4. ContentOf(entries, disk)[l] = disk[l]
      BY <2>2, ContentAt DEF CacheInv
    <3> QED BY <3>2, <3>3, <3>4, <1>6
  <2> QED BY Zenon, <2>1, <2>2
<1>11. ContentOf(es, dk) = Content
  <2>1. ContentOf(es, dk) = [l \in Lbas |-> ContentOf(es, dk)[l]] /\ Content = [l \in Lbas |-> Content[l]]
    BY DEF ContentOf, Content
  <2> QED BY Zenon, <2>1, <1>10
<1>12. \A i \in T : ~(es[i].valid /\ es[i].dirty)
  BY Zenon, <1>2
<1> QED BY <1>2, <1>7, <1>9, <1>11, <1>12 DEF es, dk

-----------------------------------------------------------------------------
(* One call at a time: CacheInv is kept and the step is one of the store's.*)

\* A call that evicts: the victim is written back and, unless the device refuses the
\* read, its entry is given the sector asked for.
LEMMA Evicts ==
    ASSUME CacheInv, NEW l \in Lbas, NEW index \in Index, NEW v \in Values, NEW d \in BOOLEAN,
           Missing(l), ~d => v = disk[l]
    PROVE  /\ Coherent(Loaded(entries, index, l, v, d), Written({index}))
           /\ ContentOf(Loaded(entries, index, l, v, d), Written({index})) = [Content EXCEPT ![l] = v]
<1> DEFINE es == Cleaned({index})
           dk == Written({index})
<1>1. {index} \in SUBSET Index
  BY Zenon
<1>2. /\ Coherent(es, dk) /\ ContentOf(es, dk) = Content
      /\ ~(es[index].valid /\ es[index].dirty)
      /\ \A i \in Index : es[i].lba = entries[i].lba /\ es[i].valid = entries[i].valid
  BY <1>1, WriteBack
<1>3. \A i \in Index : ~Keeps(es, i, l)
  BY Zenon, <1>2 DEF Missing, Holds, Keeps
<1>4. ~d => v = dk[l]
  BY DEF Missing, Holds, Written, Pending
<1>5. Put(entries, index, l, v, d) = Put(es, index, l, v, d)
  <2>1. entries \in [Index -> CacheEntry]
    BY DEF CacheInv, Coherent
  <2>2. \A i \in Index \ {index} : es[i] = entries[i]
    BY DEF Cleaned
  <2>3. es = [i \in Index |-> es[i]]
    BY DEF Cleaned
  <2> HIDE DEF es
  <2> QED BY Zenon, <2>1, <2>2, <2>3 DEF Put
<1>6. Loaded(entries, index, l, v, d) = touch(Put(entries, index, l, v, d), index)
  BY DEF Loaded, Put
<1> HIDE DEF es, dk
<1>7. /\ Coherent(Put(es, index, l, v, d), dk)
      /\ ContentOf(Put(es, index, l, v, d), dk) = [Content EXCEPT ![l] = v]
  <2>1. Coherent(es, dk) /\ ~(es[index].valid /\ es[index].dirty)
    BY ZenonT(30), <1>2
  <2>2. ContentOf(Put(es, index, l, v, d), dk) = [ContentOf(es, dk) EXCEPT ![l] = v]
    BY <1>3, <1>4, <2>1, PutInstalled
  <2> QED BY Zenon, <1>2, <1>3, <1>4, <2>1, <2>2, PutInstalled
<1> QED BY <1>5, <1>6, <1>7, AgesDoNotCount DEF dk

\* The empty cache is the store the disk is.
LEMMA CacheStart == CacheInit => CacheInv /\ Store!Init
<1> SUFFICES ASSUME CacheInit PROVE CacheInv /\ Store!Init
  OBVIOUS
<1>1. PICK l \in Lbas, v \in Values :
        entries = [i \in Index |-> [lba |-> l, data |-> v, valid |-> FALSE, dirty |-> FALSE, age |-> 0]]
  BY Zenon DEF CacheInit
<1>2. \A i \in Index : entries[i] \in CacheEntry /\ ~entries[i].valid
  BY <1>1, CacheAssumption DEF CacheEntry
<1>3. entries \in [Index -> CacheEntry] /\ disk \in [Lbas -> Values]
  BY Zenon, <1>1, <1>2 DEF CacheInit
<1>4. CacheInv
  BY <1>2, <1>3 DEF CacheInv, Coherent
<1>5. Content = [l2 \in Lbas |-> disk[l2]]
  BY <1>2 DEF Content, Missing, Holds
<1>6. Content = disk
  BY <1>3, <1>5
<1> QED BY <1>4, <1>6 DEF CacheInit, Store!Init

\* A call of the store, from what the call does to the medium and to the answer.
LEMMA StoreCall ==
    ASSUME CacheInv', \A l \in Lbas : disk'[l] \in {disk[l], Content[l]},
           \/ \E l \in Lbas : answer' = <<"read", Content[l]>> /\ Content' = Content
           \/ \E l \in Lbas, v \in Values :
                 answer' = <<"written">> /\ Content' = [Content EXCEPT ![l] = v]
           \/ answer' = <<"flushed">> /\ Content' = Content /\ disk' = Content
           \/ answer' = <<>> /\ Content' = Content
    PROVE  Store!Next
<1>1. disk' \in [Lbas -> Values]
  BY DEF CacheInv, Coherent
<1>2. Store!Settles
  BY DEF Store!Settles
<1>3. \/ \E l \in Lbas : Store!Read(l) \/ \E v \in Values : Store!Write(l, v)
      \/ Store!Flush \/ Store!Refuse
  BY DEF Store!Read, Store!Write, Store!Flush, Store!Refuse
<1> QED BY Zenon, <1>1, <1>2, <1>3 DEF Store!Next

\* Every call keeps the invariant and is a step of the store.
LEMMA CacheStep ==
    ASSUME CacheInv, CacheNext
    PROVE  CacheInv' /\ Store!Next
<1>1. ASSUME NEW l \in Lbas, NEW index \in Index, ReadHit(l, index) PROVE CacheInv' /\ Store!Next
  <2>1. Coherent(entries', disk') /\ Content' = Content
    BY Zenon, <1>1, AgesDoNotCount, ContentIsContentOf DEF ReadHit, CacheInv
  <2>2. Content[l] = entries[index].data
    BY <1>1, ContentAt, ContentIsContentOf DEF ReadHit, find, Holds, Keeps, CacheInv
  <2> QED BY <1>1, <2>1, <2>2, StoreCall DEF ReadHit, CacheInv
<1>2. ASSUME NEW l \in Lbas, NEW index \in Index, ReadMiss(l, index) PROVE CacheInv' /\ Store!Next
  <2>1. disk[l] \in Values /\ Content[l] = disk[l]
    <3>1. \A i \in Index : ~Keeps(entries, i, l)
      BY Zenon, <1>2 DEF ReadMiss, Missing, Holds, Keeps
    <3>2. Coherent(entries, disk) /\ disk[l] \in Values
      BY DEF CacheInv, Coherent
    <3> QED BY <3>1, <3>2, ContentAt, ContentIsContentOf
  <2>2. Coherent(entries', disk') /\ Content' = [Content EXCEPT ![l] = disk[l]]
    <3>1. Missing(l) /\ (~FALSE => disk[l] = disk[l]) /\ FALSE \in BOOLEAN
      BY <1>2 DEF ReadMiss
    <3>2. /\ Coherent(Loaded(entries, index, l, disk[l], FALSE), Written({index}))
          /\ ContentOf(Loaded(entries, index, l, disk[l], FALSE), Written({index})) = [Content EXCEPT ![l] = disk[l]]
      BY Zenon, <2>1, <3>1, Evicts
    <3> QED BY Zenon, <1>2, <3>2, ContentIsContentOf DEF ReadMiss
  <2>3. Content' = Content
    BY Zenon, <2>1, <2>2 DEF Content
  <2>4. \A m \in Lbas : disk'[m] \in {disk[m], Content[m]}
    BY Zenon, <1>2, WriteBack, ContentIsContentOf DEF ReadMiss
  <2> QED BY Zenon, <1>2, <2>1, <2>2, <2>3, <2>4, StoreCall DEF ReadMiss, CacheInv
<1>3. ASSUME NEW l \in Lbas, NEW index \in Index, ReadRefused(l, index) PROVE CacheInv' /\ Store!Next
  <2>1. Coherent(entries', disk') /\ Content' = Content
    BY ZenonT(30), <1>3, WriteBack, ContentIsContentOf DEF ReadRefused
  <2>2. \A m \in Lbas : disk'[m] \in {disk[m], Content[m]}
    BY <1>3, WriteBack, ContentIsContentOf DEF ReadRefused
  <2> QED BY Zenon, <1>3, <2>1, <2>2, StoreCall DEF ReadRefused, CacheInv
<1>4. ASSUME NEW l \in Lbas, NEW index \in Index, VictimRefused(l, index) PROVE CacheInv' /\ Store!Next
  <2>1. Coherent(entries', disk') /\ Content' = Content /\ disk' = disk
    BY <1>4, ContentIsContentOf DEF VictimRefused, CacheInv
  <2> QED BY <1>4, <2>1, StoreCall DEF VictimRefused, CacheInv
<1>5. ASSUME NEW l \in Lbas, NEW index \in Index, NEW v \in Values, WriteHit(l, v, index)
      PROVE  CacheInv' /\ Store!Next
  <2> DEFINE es == [entries EXCEPT ![index].data = v, ![index].dirty = TRUE]
  <2>1. entries \in [Index -> CacheEntry] /\ Keeps(entries, index, l)
    BY <1>5 DEF CacheInv, Coherent, WriteHit, find, Holds, Keeps
  <2>2. /\ es[index] \in CacheEntry /\ es[index].data = v /\ es[index].dirty
        /\ es[index].valid = entries[index].valid /\ es[index].lba = entries[index].lba
        /\ \A i \in Index \ {index} : es[i] = entries[i]
        /\ es \in [Index -> CacheEntry]
    BY Zenon, <2>1 DEF CacheEntry
  <2>3. entries' = touch(es, index) /\ disk' = disk
    BY <1>5 DEF WriteHit
  <2> HIDE DEF es
  <2>4. Coherent(es, disk)
    <3>1. \A i \in Index : es[i].valid = entries[i].valid /\ es[i].lba = entries[i].lba
      BY Zenon, <2>2
    <3>2. \A i, j \in Index : es[i].valid /\ es[j].valid /\ es[i].lba = es[j].lba => i = j
      BY Zenon, <3>1 DEF CacheInv, Coherent
    <3>3. \A i \in Index : es[i].valid /\ ~es[i].dirty => es[i].data = disk[es[i].lba]
      BY Zenon, <2>2 DEF CacheInv, Coherent
    <3> QED BY Zenon, <2>2, <3>2, <3>3 DEF CacheInv, Coherent
  <2>5. ContentOf(es, disk)[l] = v
    <3>1. Keeps(es, index, l)
      BY Zenon, <2>1, <2>2 DEF Keeps
    <3> QED BY <3>1, <2>2, <2>4, ContentAt, ContentIsContentOf
  <2>6. ASSUME NEW m \in Lbas, m # l PROVE ContentOf(es, disk)[m] = Content[m]
    <3>1. \A i \in Index : Keeps(es, i, m) <=> Keeps(entries, i, m)
      BY Zenon, <2>2 DEF Keeps
    <3>2. CASE \E i \in Index : Keeps(es, i, m)
      <4>1. PICK i \in Index : Keeps(es, i, m)
        BY <3>2
      <4>2. i # index
        BY Zenon, <4>1, <2>1, <2>2, <2>6 DEF Keeps
      <4>3. ContentOf(es, disk)[m] = es[i].data
        BY ZenonT(30), <4>1, <2>4, ContentKept
      <4>4. ContentOf(entries, disk)[m] = entries[i].data
        <5>1. Keeps(entries, i, m)
          BY Zenon, <4>1, <3>1
        <5> QED BY ZenonT(30), <5>1, ContentKept DEF CacheInv
      <4> QED BY <4>2, <4>3, <4>4, <2>2, ContentIsContentOf
    <3>3. CASE \A i \in Index : ~Keeps(es, i, m)
      BY <3>1, <3>3, <2>4, ContentAt, ContentIsContentOf DEF CacheInv
    <3> QED BY <3>2, <3>3
  <2>7. ContentOf(es, disk) = [Content EXCEPT ![l] = v]
    <3>1. \A table : ContentOf(table, disk) = [m \in Lbas |-> ContentOf(table, disk)[m]]
      BY DEF ContentOf
    <3> QED BY Zenon, <3>1, <2>5, <2>6, ContentIsContentOf
  <2>8. Coherent(entries', disk') /\ Content' = [Content EXCEPT ![l] = v]
    BY <2>3, <2>4, <2>7, AgesDoNotCount, ContentIsContentOf
  <2> QED BY Zenon, <1>5, <2>3, <2>8, StoreCall DEF WriteHit, CacheInv
<1>6. ASSUME NEW l \in Lbas, NEW index \in Index, NEW v \in Values, WriteMiss(l, v, index)
      PROVE  CacheInv' /\ Store!Next
  <2>1. Coherent(entries', disk') /\ Content' = [Content EXCEPT ![l] = v]
    <3>1. Missing(l) /\ (~TRUE => v = disk[l]) /\ TRUE \in BOOLEAN
      BY <1>6 DEF WriteMiss
    <3>2. /\ Coherent(Loaded(entries, index, l, v, TRUE), Written({index}))
          /\ ContentOf(Loaded(entries, index, l, v, TRUE), Written({index})) = [Content EXCEPT ![l] = v]
      BY Zenon, <3>1, Evicts
    <3> QED BY Zenon, <1>6, <3>2, ContentIsContentOf DEF WriteMiss
  <2>2. \A m \in Lbas : disk'[m] \in {disk[m], Content[m]}
    BY Zenon, <1>6, WriteBack, ContentIsContentOf DEF WriteMiss
  <2> QED BY Zenon, <1>6, <2>1, <2>2, StoreCall DEF WriteMiss, CacheInv
<1>7. ASSUME flush PROVE CacheInv' /\ Store!Next
  <2>1. /\ Coherent(entries', disk') /\ Content' = Content
        /\ \A m \in Lbas : disk'[m] \in {disk[m], Content[m]}
        /\ \A i \in Index : ~(entries'[i].valid /\ entries'[i].dirty)
    BY <1>7, WriteBack, ContentIsContentOf DEF flush
  <2>2. ASSUME NEW m \in Lbas PROVE Content'[m] = disk'[m]
    <3>1. CASE \E i \in Index : Keeps(entries', i, m)
      <4>1. PICK i \in Index : Keeps(entries', i, m)
        BY Zenon, <3>1
      <4>2. ContentOf(entries', disk')[m] = entries'[i].data
        BY Zenon, <4>1, <2>1, ContentKept
      <4>3. entries'[i].data = disk'[m]
        BY <4>1, <2>1 DEF Coherent, Keeps, CacheEntry
      <4> QED BY <4>2, <4>3, ContentIsContentOf
    <3>2. CASE \A i \in Index : ~Keeps(entries', i, m)
      <4>1. ContentOf(entries', disk')[m] = disk'[m]
        BY <3>2, <2>1, ContentAt
      <4> QED BY Zenon, <4>1, ContentIsContentOf
    <3> QED BY <3>1, <3>2
  <2>3. Content' = disk'
    <3>1. Content' = [m \in Lbas |-> Content'[m]] /\ disk' = [m \in Lbas |-> disk'[m]]
      BY <2>1 DEF Content, Coherent
    <3> QED BY ZenonT(30), <3>1, <2>2
  <2> QED BY Zenon, <1>7, <2>1, <2>3, StoreCall DEF flush, CacheInv
<1>8. ASSUME NEW index \in Index, FlushRefused(index) PROVE CacheInv' /\ Store!Next
  <2>1. 1 .. index - 1 \in SUBSET Index
    BY SMTT(30), CacheAssumption DEF Index
  <2>2. /\ Coherent(entries', disk') /\ Content' = Content
        /\ \A m \in Lbas : disk'[m] \in {disk[m], Content[m]}
    BY Zenon, <1>8, <2>1, WriteBack, ContentIsContentOf DEF FlushRefused
  <2> QED BY <1>8, <2>2, StoreCall DEF FlushRefused, CacheInv
<1>9. ASSUME PowerLoss PROVE CacheInv' /\ Store!Next
  <2>1. entries \in [Index -> CacheEntry] /\ disk \in [Lbas -> Values]
    BY DEF CacheInv, Coherent
  <2>2. \A i \in Index : entries'[i] \in CacheEntry /\ ~entries'[i].valid
    <3>1. ASSUME NEW i \in Index PROVE entries'[i] \in CacheEntry /\ ~entries'[i].valid
      <4>1. entries'[i] = [entries[i] EXCEPT !.valid = FALSE, !.dirty = FALSE, !.age = 0]
        BY Zenon, <1>9 DEF PowerLoss
      <4>2. entries[i] \in CacheEntry /\ 0 \in 0 .. MaxAge
        BY <2>1, CacheAssumption
      <4> HIDE <1>9
      <4> QED BY Zenon, <4>1, <4>2 DEF CacheEntry
    <3> QED BY <3>1
  <2>3. entries' \in [Index -> CacheEntry]
    BY Zenon, <1>9, <2>2 DEF PowerLoss
  <2>4. CacheInv' /\ disk' = disk
    BY Zenon, <1>9, <2>1, <2>2, <2>3 DEF PowerLoss, CacheInv, Coherent
  <2>5. Content' = disk
    <3>1. Content' = [m \in Lbas |-> disk'[m]]
      BY <2>2 DEF Content, Missing, Holds
    <3> QED BY <3>1, <2>1, <2>4
  <2> QED BY Zenon, <1>9, <2>4, <2>5 DEF PowerLoss, Store!Next, Store!PowerLoss
<1> QED BY <1>1, <1>2, <1>3, <1>4, <1>5, <1>6, <1>7, <1>8, <1>9 DEF CacheNext

\* A step that changes nothing changes nothing in the store.
LEMMA CacheStutter ==
    ASSUME CacheInv, UNCHANGED cacheVars
    PROVE  CacheInv' /\ UNCHANGED Store!vars
  BY ContentIsContentOf DEF cacheVars, CacheInv, Store!vars

-----------------------------------------------------------------------------
(* The theorems.                                                           *)

\* load, write_sector, write_back and flush, with refusals and power loss anywhere: no
\* sector is ever in two entries, and a clean entry always agrees with the disk.
THEOREM CacheAlwaysCoherent == CacheSpec => []CacheCoherent
<1>1. CacheInit => CacheInv
  BY CacheStart
<1>2. CacheInv /\ [CacheNext]_cacheVars => CacheInv'
  BY CacheStep, CacheStutter
<1>3. CacheInv => CacheCoherent
  BY InvIsCoherence
<1> QED BY <1>1, <1>2, <1>3, PTL DEF CacheSpec

\* The write-back cache is a store in which a read sees the last write, a successful flush
\* leaves everything on the disk and a loss of power takes back only what had not got there.
THEOREM CacheIsAStore == CacheSpec => ImplementsStore
<1>1. CacheInit => CacheInv /\ Store!Init
  BY CacheStart
<1>2. CacheInv /\ [CacheNext]_cacheVars => CacheInv' /\ [Store!Next]_(Store!vars)
  BY CacheStep, CacheStutter
<1> QED BY <1>1, <1>2, PTL DEF CacheSpec, ImplementsStore, Store!Spec
=============================================================================
