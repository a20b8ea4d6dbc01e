------------------------------ MODULE WifiLink ------------------------------
(***************************************************************************)
(* Scanning and joining an access point: the Manager of wifi.rs, the       *)
(* LinkMachines of wifi_link.rs that drive it through authentication and   *)
(* association, and the scan and response parsers of wifi_scan.rs and      *)
(* wifi80211.rs.  A LinkMachine serves one attempt: it begins once, and    *)
(* nothing takes it back from Associated or Failed, so a later attempt is  *)
(* another machine with the same manager.  A machine outlives the power of *)
(* the radio, and its peer answers anything at any time: late, as another  *)
(* station, malformed or refusing.                                         *)
(***************************************************************************)
EXTENDS Naturals, FiniteSets

CONSTANTS AccessPoints,     \* BSSIDs
          Supported,        \* those whose security is Open or WPA2
          MAX_SCAN_RESULTS,
          Machines,         \* the LinkMachines, one for each attempt
          NoStation,
          NoMachine

VARIABLES manager,  \* state, scan list and association of Manager
          link,     \* state, candidate and association id of each LinkMachine
          answered, \* history: the responses that each machine accepted
          owed,     \* history: the machine whose end the manager waits for
          last      \* history: the machine whose end the manager took note of last

linkVars == <<manager, link, answered, owed, last>>

Down == [state |-> "Down", scan |-> {}, associated |-> NoStation]

FreshLink == [state |-> "Idle", candidate |-> NoStation, aid |-> NoStation]

LinkInit == /\ manager = Down
            /\ link = [m \in Machines |-> FreshLink]
            /\ answered = [m \in Machines |-> {}]
            /\ owed = NoMachine
            /\ last = NoMachine

-----------------------------------------------------------------------------
\* The manager.

PowerOn == /\ manager.state = "Down"
           /\ manager' = [manager EXCEPT !.state = "Idle"]
           /\ UNCHANGED <<link, answered, owed, last>>

\* The machines are not told: one that is under way goes on.
PowerOff == /\ manager' = Down
            /\ owed' = NoMachine /\ last' = NoMachine
            /\ UNCHANGED <<link, answered>>

\* Mutant: a scan may start while an association is pending.
ScanAnytimeMutant == manager.state # "Down"

CanScan == manager.state \in {"Idle", "Associated"}

BeginScan == /\ CanScan
             /\ manager' = [manager EXCEPT !.state = "Scanning", !.scan = {}]
             /\ UNCHANGED <<link, answered, owed, last>>

Beacon == [bssid : AccessPoints, defect : {"none", "header", "elements"}]

HeaderParsed(b) == b.defect # "header"

ElementsParsed(b) == b.defect # "elements"

\* A known BSSID is updated, an unknown one is dropped when the list is full.
RecordScanResult(ap) ==
    [manager EXCEPT !.scan = IF Cardinality(@) < MAX_SCAN_RESULTS THEN @ \cup {ap} ELSE @]

RecordFrame(b) ==
    /\ HeaderParsed(b) /\ ElementsParsed(b)
    /\ manager.state = "Scanning"
    /\ manager' = RecordScanResult(b.bssid)
    /\ UNCHANGED <<link, answered, owed, last>>

FinishScan == /\ manager.state = "Scanning"
              /\ manager' = [manager EXCEPT !.state = "Idle"]
              /\ UNCHANGED <<link, answered, owed, last>>

CanAssociate(ap) == manager.state \in {"Idle", "Associated"} /\ ap \in manager.scan

\* Mutant: a failed attempt leaves the earlier association in place.
KeepAssociationMutant(ap, ok) ==
    IF manager.state # "Associating" THEN manager
    ELSE [manager EXCEPT !.state = IF ok THEN "Associated" ELSE "Idle",
                         !.associated = IF ok THEN ap ELSE @]

\* The end of an attempt is taken note of while the manager waits for one,
\* whichever machine reports it.
AssociationComplete(ap, ok) ==
    IF manager.state # "Associating" THEN manager
    ELSE [manager EXCEPT !.state = IF ok THEN "Associated" ELSE "Idle",
                         !.associated = IF ok THEN ap ELSE NoStation]

-----------------------------------------------------------------------------
\* The link machines.

Told(m) == /\ owed' = IF manager.state = "Associating" THEN NoMachine ELSE owed
           /\ last' = IF manager.state = "Associating" THEN m ELSE last

\* An attempt that cannot be made is over at once, and its machine still Idle.
Begin(m, ap, room) ==
    /\ link[m].state = "Idle" /\ CanAssociate(ap)
    /\ IF ap \in Supported /\ room
       THEN /\ manager' = [manager EXCEPT !.state = "Associating"]
            /\ link' = [link EXCEPT ![m] = [FreshLink EXCEPT
                          !.state = "AuthenticationPending", !.candidate = ap]]
            /\ owed' = m /\ UNCHANGED last
       ELSE /\ manager' = [manager EXCEPT !.state = "Idle", !.associated = NoStation]
            /\ owed' = NoMachine /\ last' = NoMachine
            /\ UNCHANGED link
    /\ UNCHANGED answered

FailLink(m) == /\ manager' = AssociationComplete(link[m].candidate, FALSE)
               /\ link' = [link EXCEPT ![m] = [FreshLink EXCEPT !.state = "Failed"]]
               /\ Told(m)
               /\ UNCHANGED answered

\* Mutant: the sender of a response is not compared with the candidate.
AnyPeerMutant(m, from) == TRUE

FromCandidate(m, from) == from = link[m].candidate

\* Frames of another subtype, of another station or truncated change nothing.
AuthenticationResponse(m, from, ok, room) ==
    /\ link[m].state = "AuthenticationPending" /\ FromCandidate(m, from)
    /\ IF ok /\ room
       THEN /\ link' = [link EXCEPT ![m].state = "AssociationPending"]
            /\ answered' = [answered EXCEPT
                              ![m] = @ \cup {[kind |-> "authentication", from |-> from]}]
            /\ UNCHANGED <<manager, owed, last>>
       ELSE FailLink(m)

AssociationResponse(m, from, ok) ==
    /\ link[m].state = "AssociationPending" /\ FromCandidate(m, from)
    /\ IF ok
       THEN /\ link' = [link EXCEPT ![m].state = "Associated", ![m].aid = 1]
            /\ manager' = AssociationComplete(link[m].candidate, TRUE)
            /\ Told(m)
            /\ answered' = [answered EXCEPT
                              ![m] = @ \cup {[kind |-> "association", from |-> from]}]
       ELSE FailLink(m)

Timeout(m) == /\ link[m].state \in {"AuthenticationPending", "AssociationPending"}
              /\ FailLink(m)

LinkNext ==
    \/ PowerOn \/ PowerOff \/ BeginScan \/ FinishScan
    \/ \E b \in Beacon : RecordFrame(b)
    \/ \E m \in Machines : Timeout(m)
    \/ \E m \in Machines, ap \in AccessPoints, room, ok \in BOOLEAN :
          \/ Begin(m, ap, room)
          \/ AuthenticationResponse(m, ap, ok, room)
          \/ AssociationResponse(m, ap, ok)

LinkSpec == LinkInit /\ [][LinkNext]_linkVars

-----------------------------------------------------------------------------
\* The manager waits for an association exactly while the machine that began
\* last, with no loss of power since and no end of another machine taken for
\* its own, has a request outstanding.  What it reports is the end that it was
\* told last: the station of a machine whose two requests that very station
\* answered, and no station after a refused, timed-out or impossible attempt,
\* also when a machine from before a loss of power answers into a later
\* attempt (association_complete, begin, authentication_response,
\* association_response, timeout, power_off).
AssociationEarned ==
    /\ manager.state = "Associating" <=> owed # NoMachine
    /\ owed # NoMachine =>
          link[owed].state \in {"AuthenticationPending", "AssociationPending"}
    /\ manager.state = "Associated" => manager.associated # NoStation
    /\ manager.state = "Down" \/ last = NoMachine => manager.associated = NoStation
    /\ last # NoMachine =>
          IF link[last].state = "Associated"
          THEN /\ manager.associated = link[last].candidate
               /\ \A k \in {"authentication", "association"} :
                     [kind |-> k, from |-> manager.associated] \in answered[last]
          ELSE link[last].state = "Failed" /\ manager.associated = NoStation
=============================================================================
