---------------------------- MODULE WifiSession ----------------------------
(***************************************************************************)
(* One protected Wi-Fi association: the WPA2 supplicant with its four-way  *)
(* handshake and group-key store (wifi_wpa2.rs, wifi_rsn.rs, wifi_gtk.rs), *)
(* the recovery controller that numbers connection attempts by epochs      *)
(* (wifi_recovery.rs), and the session that binds keys, packet numbers and *)
(* the frame queues of the backend to one epoch (wifi_session.rs,          *)
(* wifi_net.rs, wifi_ccmp.rs, wifi_backend.rs, wifi_smol.rs).              *)
(*                                                                         *)
(* Keys are values: a pairwise key is the pair of nonces it is derived     *)
(* from, a group key a model value.  A message is good or has exactly one  *)
(* defect, named by the check that sees it.                                *)
(***************************************************************************)
EXTENDS Naturals, Sequences

CONSTANTS Nonces,         \* authenticator nonces
          GroupKeys,
          Replays,        \* replay counters a message may carry
          PacketNumbers,  \* packet numbers a received frame may carry
          MAX_ATTEMPTS,
          QUEUE_DEPTH,
          PN_MAX,
          EpochModulus,   \* 2^32 in the code
          Unset

VARIABLES sup,     \* Wpa2Supplicant
          hs,      \* its FourWayHandshake
          rec,     \* RecoveryController
          session, \* WifiSession: bridge, active_epoch and backend
          begun,   \* history: snonces drawn, activations, exchanges activated,
                   \* and those of them that were activated more than once
          sent,    \* history: packet numbers protected, with key and activation
          heard    \* history: packet numbers accepted, with key and activation

wifiVars == <<sup, hs, rec, session, begun, sent, heard>>

Message == [replay : Replays, nonce : Nonces, gtk : GroupKeys,
            defect : {"none", "version", "flags", "mic", "data"}]

Frame == [key : {<<n, s>> : n \in Nonces, s \in 1..begun.snonces} \cup GroupKeys,
          pn : PacketNumbers, defect : {"none", "payload"}]

NoAssociation == [bridge |-> Unset, active |-> Unset, up |-> FALSE, tx |-> <<>>, rx |-> <<>>]

WifiInit ==
    /\ sup = [state |-> "Idle", snonce |-> 0, ptk |-> Unset, gtk |-> Unset,
              replay |-> 0, completed |-> Unset]
    /\ hs = [state |-> "Idle", last |-> 0, anonce |-> Unset]
    /\ rec = [state |-> "Idle", epoch |-> 1, attempts |-> 0, backoff |-> 0]
    /\ session = NoAssociation
    /\ begun = [snonces |-> 0, activations |-> 0, used |-> {}, again |-> {}]
    /\ sent = <<>>
    /\ heard = <<>>

-----------------------------------------------------------------------------
\* The supplicant.

\* Mutant: failing leaves the pairwise key behind.
KeepKeyMutant(state) == [state |-> state, snonce |-> 0, ptk |-> sup.ptk, gtk |-> Unset,
                         replay |-> 0, completed |-> Unset]

Wiped(state) == [state |-> state, snonce |-> 0, ptk |-> Unset, gtk |-> Unset,
                 replay |-> 0, completed |-> Unset]

Fail == /\ sup' = Wiped("Failed")
        /\ hs' = [state |-> "Failed", last |-> 0, anonce |-> Unset]

\* The caller gives up on the exchange, or returns the supplicant to Idle.
Abort == /\ Fail
         /\ UNCHANGED <<rec, session, begun, sent, heard>>

Reset == /\ sup' = Wiped("Idle")
         /\ hs' = [state |-> "Idle", last |-> 0, anonce |-> Unset]
         /\ UNCHANGED <<rec, session, begun, sent, heard>>

BeginHandshake == /\ sup.state = "Idle" /\ hs.state = "Idle"
         /\ sup' = [Wiped("AwaitingMessage1") EXCEPT !.snonce = begun.snonces + 1]
         /\ hs' = [state |-> "AwaitingMessage1", last |-> 0, anonce |-> Unset]
         /\ begun' = [begun EXCEPT !.snonces = @ + 1]
         /\ UNCHANGED <<rec, session, sent, heard>>

\* Mutant: an older replay counter is not refused.
AnyReplayMutant(m) == IF m.replay = sup.replay /\ m.gtk = sup.gtk
                      THEN "Retransmission" ELSE "Installed"

\* Outcome of GroupKeyStore::install_verified, and the store afterwards.
Outcome(m) == IF sup.gtk = Unset \/ m.replay > sup.replay THEN "Installed"
              ELSE IF m.replay < sup.replay THEN "Replay"
              ELSE IF m.gtk = sup.gtk THEN "Retransmission" ELSE "Conflict"

Installed(m) == IF Outcome(m) = "Installed"
                THEN [sup EXCEPT !.gtk = m.gtk, !.replay = m.replay] ELSE sup

\* Message 1.  The handshake has advanced, or failed, before message 2 is
\* built: without room for it the supplicant stays behind its handshake.
ReceiveMessage1(m, room) ==
    /\ sup.state = "AwaitingMessage1"
    /\ \/ m.defect = "version" /\ Fail
       \/ /\ m.defect # "version" /\ hs.state = "AwaitingMessage1"
          /\ m.defect = "flags" \/ m.replay <= hs.last
          /\ hs' = [hs EXCEPT !.state = "Failed"]
          /\ UNCHANGED sup
       \/ /\ m.defect \notin {"version", "flags"} /\ hs.state = "AwaitingMessage1"
          /\ m.replay > hs.last
          /\ hs' = [state |-> "AwaitingMessage3", last |-> m.replay, anonce |-> m.nonce]
          /\ sup' = IF room
                    THEN [sup EXCEPT !.ptk = <<m.nonce, sup.snonce>>,
                                     !.state = "AwaitingMessage3"]
                    ELSE sup
    /\ UNCHANGED <<rec, session, begun, sent, heard>>

\* The group key unwraps under the pairwise key and is well formed.
Unwraps(m) == m.defect # "data"

Message3Accepted(m) ==
    /\ hs.state = "AwaitingMessage3" /\ m.replay >= hs.last
    /\ m.defect \notin {"version", "flags", "mic"} /\ m.nonce = hs.anonce
    /\ Unwraps(m)
    /\ Outcome(m) = "Installed"

\* Message 3.  Any defect wipes the supplicant, except in a repetition of the
\* message that completed the exchange, which never changes a key.
ReceiveMessage3(m, room) ==
    /\ \/ m.defect = "version" /\ Fail
       \/ /\ m.defect # "version" /\ sup.state = "AwaitingMessage3"
          /\ ~Message3Accepted(m)
          /\ Fail
       \/ /\ sup.state = "AwaitingMessage3" /\ Message3Accepted(m)
          /\ hs' = [hs EXCEPT !.last = m.replay, !.state = "Completed"]
          /\ sup' = IF room
                    THEN [Installed(m) EXCEPT !.completed = m.replay, !.state = "Completed"]
                    ELSE Installed(m)
       \/ /\ sup.state = "Completed" /\ m.defect = "none"
          /\ sup.completed = m.replay /\ m.nonce = hs.anonce
          /\ sup' = Installed(m)
          /\ UNCHANGED hs
    /\ UNCHANGED <<rec, session, begun, sent, heard>>

\* The group-key exchange: the key is stored even when the reply has no room.
ReceiveGroupKey(m) ==
    /\ sup.state = "Completed" /\ m.defect = "none"
    /\ sup' = Installed(m)
    /\ UNCHANGED <<hs, rec, session, begun, sent, heard>>

-----------------------------------------------------------------------------
\* Recovery.

NextEpoch == LET e == (rec.epoch + 1) % EpochModulus IN IF e = 0 THEN 1 ELSE e

Smaller(a, b) == IF a < b THEN a ELSE b

EnterBackoff == [rec EXCEPT !.state = "Backoff", !.epoch = NextEpoch,
                            !.backoff = 2 ^ Smaller(IF rec.attempts = 0 THEN 0 ELSE rec.attempts - 1, 5)]

\* Mutant: the backend is not taken down with the keys.
KeepBackendMutant == [session EXCEPT !.bridge = Unset, !.active = Unset]

ClearAssociation == NoAssociation

\* The association is cleared first, whatever recovery then answers.
BeginConnect ==
    /\ session' = ClearAssociation
    /\ rec' = IF rec.state \notin {"Idle", "Backoff"} THEN rec
              ELSE IF rec.attempts >= MAX_ATTEMPTS THEN [rec EXCEPT !.state = "Exhausted"]
              ELSE [rec EXCEPT !.attempts = @ + 1, !.state = "Connecting"]
    /\ UNCHANGED <<sup, hs, begun, sent, heard>>

PollTimeout ==
    /\ rec.state = "Connecting"
    /\ rec' = EnterBackoff /\ session' = ClearAssociation
    /\ UNCHANGED <<sup, hs, begun, sent, heard>>

ConnectionFailed(e) ==
    /\ e = rec.epoch /\ rec.state = "Connecting"
    /\ rec' = EnterBackoff /\ session' = ClearAssociation
    /\ UNCHANGED <<sup, hs, begun, sent, heard>>

Disconnect ==
    /\ rec' = [state |-> "Idle", epoch |-> NextEpoch, attempts |-> 0, backoff |-> 0]
    /\ session' = ClearAssociation
    /\ UNCHANGED <<sup, hs, begun, sent, heard>>

-----------------------------------------------------------------------------
\* The session.

CanActivate(e) == /\ e = rec.epoch /\ rec.state = "Connecting"
                  /\ sup.state = "Completed" /\ sup.gtk # Unset /\ sup.ptk # Unset

\* Nothing ties the completed exchange to the epoch: a caller that does not
\* reset the supplicant may activate the same one again after a disconnection,
\* and the packet numbers start over.
Activate(e) ==
    /\ CanActivate(e)
    /\ session' = [session EXCEPT !.bridge = [tk |-> sup.ptk, tx |-> 0, rx |-> 0,
                                        gtk |-> sup.gtk, grx |-> 0],
                            !.up = TRUE, !.active = e]
    /\ rec' = [rec EXCEPT !.state = "Connected", !.attempts = 0, !.backoff = 0]
    /\ begun' = [begun EXCEPT !.activations = @ + 1, !.used = @ \cup {sup.snonce},
                              !.again = @ \cup ({sup.snonce} \cap begun.used)]
    /\ UNCHANGED <<sup, hs, sent, heard>>

RequireActive(e) == session.active = e /\ rec.epoch = e /\ rec.state = "Connected"

\* Mutant: the bridge is built anew with the group key.
RebuildMutant(e) ==
    /\ RequireActive(e) /\ sup.state = "Completed" /\ sup.gtk # Unset
    /\ session' = [session EXCEPT !.bridge = [@ EXCEPT !.gtk = sup.gtk, !.grx = 0, !.tx = 0, !.rx = 0]]
    /\ UNCHANGED <<sup, hs, rec, begun, sent, heard>>

RefreshGroupKey(e) ==
    /\ RequireActive(e) /\ sup.state = "Completed" /\ sup.gtk # Unset
    /\ session' = [session EXCEPT !.bridge.gtk = sup.gtk, !.bridge.grx = 0]
    /\ UNCHANGED <<sup, hs, rec, begun, sent, heard>>

\* A full backend refuses the frame.
Transmit(frame) == IF Len(session.tx) < QUEUE_DEPTH THEN Append(session.tx, frame) ELSE session.tx

\* A packet number, the key it is used under and the activation that used it.
Use(pn) == [key |-> session.bridge.tk, pn |-> pn, activation |-> begun.activations]

\* Mutant: a frame that the backend refuses gives its packet number back.
GiveBackMutant(e) ==
    /\ RequireActive(e) /\ session.bridge.tx < PN_MAX
    /\ LET pn == session.bridge.tx + 1
       IN /\ session' = IF Len(session.tx) < QUEUE_DEPTH
                        THEN [session EXCEPT !.bridge.tx = pn,
                                !.tx = Transmit([key |-> session.bridge.tk, pn |-> pn])]
                        ELSE session
          /\ sent' = Append(sent, Use(pn))
    /\ UNCHANGED <<sup, hs, rec, begun, heard>>

\* Encapsulation takes a packet number before the backend may refuse the frame.
TransmitEthernet(e) ==
    /\ RequireActive(e) /\ session.bridge.tx < PN_MAX
    /\ LET pn == session.bridge.tx + 1
       IN /\ session' = [session EXCEPT !.bridge.tx = pn,
                                  !.tx = Transmit([key |-> session.bridge.tk, pn |-> pn])]
          /\ sent' = Append(sent, Use(pn))
    /\ UNCHANGED <<sup, hs, rec, begun, heard>>

InjectRx(f) ==
    /\ session.up /\ Len(session.rx) < QUEUE_DEPTH
    /\ session' = [session EXCEPT !.rx = Append(@, f)]
    /\ UNCHANGED <<sup, hs, rec, begun, sent, heard>>

\* A frame authenticates under the key that protected it, above the window.
Unprotect(f, key, window) == f.key = key /\ f.pn > window

\* The replay window moves only for an authenticated frame; what is inside
\* is judged after that.
Decapsulate(f) ==
    \/ /\ Unprotect(f, session.bridge.tk, session.bridge.rx)
       /\ session' = [session EXCEPT !.rx = Tail(@), !.bridge.rx = f.pn]
       /\ heard' = IF f.defect = "none" THEN Append(heard, Use(f.pn)) ELSE heard
    \/ /\ Unprotect(f, session.bridge.gtk, session.bridge.grx)
       /\ session' = [session EXCEPT !.rx = Tail(@), !.bridge.grx = f.pn]
       /\ UNCHANGED heard
    \/ /\ ~Unprotect(f, session.bridge.tk, session.bridge.rx)
       /\ ~Unprotect(f, session.bridge.gtk, session.bridge.grx)
       /\ session' = [session EXCEPT !.rx = Tail(@)]
       /\ UNCHANGED heard

ReceiveEthernet(e) ==
    /\ RequireActive(e) /\ session.rx # <<>>
    /\ Decapsulate(Head(session.rx))
    /\ UNCHANGED <<sup, hs, rec, begun, sent>>

DequeueTx == /\ session.tx # <<>>
             /\ session' = [session EXCEPT !.tx = Tail(@)]
             /\ UNCHANGED <<sup, hs, rec, begun, sent, heard>>

-----------------------------------------------------------------------------
WifiNext ==
    \/ BeginHandshake \/ Reset \/ Abort
    \/ \E m \in Message, room \in BOOLEAN : ReceiveMessage1(m, room) \/ ReceiveMessage3(m, room)
    \/ \E m \in Message : ReceiveGroupKey(m)
    \/ BeginConnect \/ PollTimeout \/ Disconnect
    \/ \E e \in 1..rec.epoch : ConnectionFailed(e) \/ Activate(e) \/ RefreshGroupKey(e)
                                 \/ TransmitEthernet(e) \/ ReceiveEthernet(e)
    \/ \E f \in Frame : InjectRx(f)
    \/ DequeueTx

WifiSpec == WifiInit /\ [][WifiNext]_wifiVars

-----------------------------------------------------------------------------
\* Keys, the transport and the active epoch of a session come and go together
\* and belong to the connected epoch: no frame is queued, in either direction,
\* outside an association, and every frame waiting to be sent is protected by
\* the association's own key (WifiSession::clear_association is called by
\* every way of losing or restarting a connection).
KeysOfAssociation ==
    /\ (session.bridge # Unset) = (session.active # Unset)
    /\ (session.bridge # Unset) = session.up
    /\ session.active # Unset => rec.state = "Connected" /\ session.active = rec.epoch
    /\ ~session.up => session.tx = <<>> /\ session.rx = <<>>
    /\ \A i \in DOMAIN session.tx : session.tx[i].key = session.bridge.tk

\* No packet number is used twice under one pairwise key, to send or to
\* accept, whatever is retransmitted, refused or refreshed and however often
\* the session is lost, unless the caller has activated the same completed
\* exchange again, and then only by two different activations (TxState::next,
\* RxState, activate_from_wpa2, refresh_group_key_from_wpa2).
UsedOnce(history) ==
    \A i, j \in DOMAIN history :
      i # j /\ history[i].key = history[j].key /\ history[i].pn = history[j].pn =>
        /\ history[i].activation # history[j].activation
        /\ history[i].key[2] \in begun.again

PacketNumbersOnce == UsedOnce(sent) /\ UsedOnce(heard)

\* The supplicant holds keys only between message 2 and a failure or reset;
\* it never reports Completed with a handshake that is not, and its pairwise
\* key is the one derived from the handshake's nonce.
HandshakeAgrees ==
    /\ sup.state \in {"Idle", "Failed", "AwaitingMessage1"} => sup.ptk = Unset /\ sup.gtk = Unset
    /\ sup.state = "Completed" => hs.state = "Completed" /\ sup.gtk # Unset
                                    /\ sup.completed = hs.last /\ sup.replay >= hs.last
    /\ sup.ptk # Unset => sup.ptk = <<hs.anonce, sup.snonce>>

\* A completed exchange keeps its pairwise key until it is wiped, and replaces
\* the group key only under a larger replay counter (install_verified).
KeysMoveForward ==
    sup.state = "Completed" /\ sup'.state = "Completed" =>
      sup'.ptk = sup.ptk /\ (sup'.gtk # sup.gtk => sup'.replay > sup.replay)
KeysOnlyForward == [][KeysMoveForward]_wifiVars

\* The supplicant and its data path as a whole: keys in use belong to the
\* current association, both handshake machines agree on them, and no packet
\* number is used or accepted twice under a key that was activated once.
WifiKeys == KeysOfAssociation /\ HandshakeAgrees /\ PacketNumbersOnce

\* Keys and the bridge they are in: the value of an absent one is none of them, and an
\* epoch has at least two values besides the zero that stands for no epoch.
PairwiseKeys == Nonces \X Nat

Bridge == [tk : PairwiseKeys, tx : Nat, rx : Nat, gtk : GroupKeys, grx : Nat]

ASSUME SessionAssumption ==
    /\ Replays \subseteq Nat /\ PacketNumbers \subseteq Nat
    /\ EpochModulus \in Nat /\ EpochModulus > 2
    /\ Unset \notin GroupKeys /\ Unset \notin PairwiseKeys /\ Unset \notin Nat
    /\ Unset \notin Bridge
=============================================================================
