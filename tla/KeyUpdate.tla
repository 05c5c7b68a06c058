---- MODULE KeyUpdate ----
(***************************************************************************)
(* The 1-RTT packet protection keys of the two ends of a connection after  *)
(* the handshake (struct quic_crypto, level QUIC_CRYPTO_APP): key updates  *)
(* the application asks for, updates that follow the key phase bit of a    *)
(* received packet, and how long the previous keys are kept.               *)
(*                                                                         *)
(* A key is named by its generation: generation g+1 is derived from g, and *)
(* the key phase bit of a packet is the parity of its generation.  Packets *)
(* of one generation in one direction are alike, so `flight' is a set of   *)
(* generations.  The timestamp key_update_send_time is named by the       *)
(* generation in use when it was taken, and `old' says that it lies at     *)
(* least key_update_time back.                                             *)
(***************************************************************************)
EXTENDS Integers, FiniteSets

CONSTANTS
    Askers,     \* the ends whose application sets QUIC_SOCKOPT_KEY_UPDATE
    MaxGen,     \* bound: the last generation
    MaxLate,    \* no packet stays on its way while its sender moves on by more generations
    BacklogMax, \* QUIC_PACKET_BACKLOG_MAX
    Shaky       \* the ends at which key derivations, and decryptions with any key, may fail

ASSUME KeyBounds == MaxGen \in Nat /\ MaxLate \in Nat /\ BacklogMax \in Nat

Ends == {"client", "server"}
Gens == 0..MaxGen
NoKey == -1

ASSUME AskersAreEnds == Askers \subseteq Ends /\ Shaky \subseteq Ends

VARIABLES
    gen,                    \* generation of tx_secret and rx_secret; key_phase is its parity
    rx,                     \* rx_tfm[phase]: the generation of the installed key
    key_pending,
    key_update_send_time,   \* the generation in use when it was taken, 0 if it never was
    old,                    \* has key_update_time passed since
    key_update_time,        \* is the retention time non-zero
    flight,                 \* flight[e]: generations of the packets on their way to e
    backlog,                \* backlog[e]: those e queued for its workqueue
    state,
    spoiled                 \* history: an error ended an update the peer had not followed

vars == <<gen, rx, key_pending, key_update_send_time, old, key_update_time,
          flight, backlog, state, spoiled>>

Peer(e) == CHOOSE f \in Ends : f # e
Phase(g) == g % 2

Init ==
    /\ gen = [e \in Ends |-> 0]
    /\ rx = [e \in Ends |-> [p \in 0..1 |-> IF p = 0 THEN 0 ELSE NoKey]]
    /\ key_pending = [e \in Ends |-> FALSE]
    /\ key_update_send_time = [e \in Ends |-> 0]
    /\ key_update_time = [e \in Ends |-> FALSE]
    /\ old = [e \in Ends |-> FALSE]
    /\ flight = [e \in Ends |-> {}]
    /\ backlog = [e \in Ends |-> {}]
    /\ state = [e \in Ends |-> "established"]
    /\ spoiled = FALSE

-----------------------------------------------------------------------------
(* Of the packets f on their way, those still there once the ends have moved on. *)
InTime(f) == [e \in Ends |-> {g \in f[e] : g + MaxLate >= gen'[Peer(e)]}]

(* quic_crypto_key_update(): the next secrets, and the keys of the other phase. *)
key_update(e) ==
    /\ gen[e] < MaxGen
    /\ gen' = [gen EXCEPT ![e] = @ + 1]
    /\ rx' = [rx EXCEPT ![e][Phase(gen[e] + 1)] = gen[e] + 1]

(* Mutant: the error path spoils the key of the phase in use. *)
key_update_failed_in_use(e) ==
    /\ e \in Shaky
    /\ rx' = [rx EXCEPT ![e][Phase(gen[e])] = NoKey]

(* Its error path: phase, secrets and key_pending are as before; the key of the *)
(* other phase may have been overwritten.                                       *)
key_update_failed(e) ==
    /\ e \in Shaky
    /\ \E k \in {rx[e][Phase(gen[e] + 1)], NoKey} :
          rx' = [rx EXCEPT ![e][Phase(gen[e] + 1)] = k]

(* Mutant: an update is started while the last one is pending. *)
KeyUpdateAnyTime(e) ==
    /\ e \in Askers
    /\ state[e] = "established"
    /\ key_update(e)
    /\ key_pending' = [key_pending EXCEPT ![e] = TRUE]
    /\ flight' = InTime(flight)
    /\ backlog' = InTime(backlog)
    /\ UNCHANGED <<key_update_send_time, old, key_update_time, state, spoiled>>

(* setsockopt(QUIC_SOCKOPT_KEY_UPDATE). *)
KeyUpdate(e) ==
    /\ e \in Askers
    /\ state[e] = "established"
    /\ ~key_pending[e]
    /\ \/ /\ key_update(e)
          /\ key_pending' = [key_pending EXCEPT ![e] = TRUE]
       \/ /\ key_update_failed(e)
          /\ UNCHANGED <<gen, key_pending>>
    /\ flight' = InTime(flight)
    /\ backlog' = InTime(backlog)
    /\ UNCHANGED <<key_update_send_time, old, key_update_time, state, spoiled>>

(* quic_crypto_encrypt(): the first packet after an update is stamped, if no *)
(* stamp is there yet.                                                       *)
StampedUnlessSet(e) ==
    IF key_pending[e] /\ key_update_send_time[e] = 0
    THEN gen[e] ELSE key_update_send_time[e]

Encrypt(e) ==
    /\ state[e] = "established"
    /\ key_update_send_time' = [key_update_send_time EXCEPT ![e] = StampedUnlessSet(e)]
    /\ flight' = [flight EXCEPT ![Peer(e)] = @ \union {gen[e]}]
    /\ UNCHANGED <<gen, rx, key_pending, old, key_update_time, backlog, state, spoiled>>

-----------------------------------------------------------------------------
(* quic_crypto_decrypt() after the phase test, with the generation `at' and the *)
(* slots `slots' the test left: what becomes of key_pending and key_update_time.*)
(* A decrypted packet may carry the ACK that renews key_update_time             *)
(* (quic_outq_transmitted_sack()).                                              *)
Elapsed(e) ==
    /\ key_update_send_time[e] # 0
    /\ key_update_time[e] => old[e]

Decrypted(e, g, at, pending) ==
    LET done == pending /\ Phase(g) = Phase(at) /\ Elapsed(e)
    IN  /\ key_pending' = [key_pending EXCEPT ![e] = pending /\ ~done]
        /\ \E ack \in BOOLEAN :
              key_update_time' = [key_update_time EXCEPT ![e] = (@ /\ ~done) \/ ack]

(* Mutant: a packet the old keys do not open leaves the update pending. *)
UndecryptedKeepsPending(e, g, at, pending) ==
    /\ key_pending' = [key_pending EXCEPT ![e] = pending]
    /\ UNCHANGED key_update_time

Undecrypted(e, g, at, pending) ==
    LET again == pending /\ Phase(g) # Phase(at)
    IN  /\ key_pending' = [key_pending EXCEPT ![e] = pending /\ ~again]
        /\ key_update_time' = [key_update_time EXCEPT ![e] = @ /\ ~again]

(* `err': quic_crypto_payload_protect() fails whatever the key is, because memory is *)
(* short or the packet arrived damaged.  The code does not tell this from a packet   *)
(* of another generation.                                                            *)
Decrypt(e, g, slots, at, pending, err) ==
    LET right == slots[Phase(g)] = g
    IN  /\ IF right /\ ~err THEN Decrypted(e, g, at, pending)
                           ELSE Undecrypted(e, g, at, pending)
        /\ spoiled' = (spoiled \/ (right /\ err /\ ~key_pending'[e] /\ pending /\ at > gen[Peer(e)]))

PhaseChanged(e, g) == Phase(g) # Phase(gen[e]) /\ ~key_pending[e]

(* quic_packet_app_process() of a packet with the phase expected, or with the *)
(* other one while an update is pending.                                      *)
ProcessSamePhase(e, g, err) ==
    /\ ~PhaseChanged(e, g)
    /\ Decrypt(e, g, rx[e], gen[e], key_pending[e], err)
    /\ UNCHANGED <<gen, rx, state>>

(* Of a packet whose phase asks for an update, in process context. *)
ProcessKeyUpdate(e, g, err) ==
    /\ PhaseChanged(e, g)
    /\ \/ /\ key_update(e)
          /\ Decrypt(e, g, rx'[e], gen[e] + 1, TRUE, err)
          /\ UNCHANGED state
       \/ /\ key_update_failed(e)      \* CONNECTION_CLOSE with KEY_UPDATE_ERROR
          /\ state' = [f \in Ends |-> "closed"]
          /\ UNCHANGED <<gen, key_pending, key_update_time, spoiled>>

(* A packet of generation g reaches e; others of that generation may follow.   *)
(* `user': the socket is owned by a process, which runs the packet itself.     *)
Receive(e, g, user, err) ==
    /\ state[e] = "established"
    /\ g \in flight[e]
    /\ IF PhaseChanged(e, g) /\ ~user
       THEN /\ backlog' = [backlog EXCEPT ![e] =
                              IF Cardinality(@) < BacklogMax THEN @ \union {g} ELSE @]
            /\ UNCHANGED <<gen, rx, key_pending, key_update_time, state, spoiled>>
       ELSE /\ ProcessSamePhase(e, g, err) \/ ProcessKeyUpdate(e, g, err)
            /\ backlog' = InTime(backlog)
    /\ flight' = InTime(flight)
    /\ UNCHANGED <<key_update_send_time, old>>

(* quic_packet_backlog_work(). *)
BacklogWork(e, g, err) ==
    /\ state[e] = "established"
    /\ g \in backlog[e]
    /\ ProcessSamePhase(e, g, err) \/ ProcessKeyUpdate(e, g, err)
    /\ backlog' = InTime([backlog EXCEPT ![e] = @ \ {g}])
    /\ flight' = InTime(flight)
    /\ UNCHANGED <<key_update_send_time, old>>

-----------------------------------------------------------------------------
(* The network loses the packets of a generation; time passes. *)
Lose(e, g) ==
    /\ state[e] = "established"
    /\ g \in flight[e]
    /\ flight' = [flight EXCEPT ![e] = @ \ {g}]
    /\ UNCHANGED <<gen, rx, key_pending, key_update_send_time, old, key_update_time,
                   backlog, state, spoiled>>

Age(e) ==
    /\ state[e] = "established"
    /\ key_update_send_time[e] # 0
    /\ old' = [old EXCEPT ![e] = TRUE]
    /\ UNCHANGED <<gen, rx, key_pending, key_update_send_time, key_update_time,
                   flight, backlog, state, spoiled>>

MayErr(e) == IF e \in Shaky THEN BOOLEAN ELSE {FALSE}

Next ==
    \E e \in Ends :
        \/ KeyUpdate(e)
        \/ Encrypt(e)
        \/ Age(e)
        \/ \E g \in Gens : \/ \E user \in BOOLEAN, err \in MayErr(e) : Receive(e, g, user, err)
                           \/ \E err \in MayErr(e) : BacklogWork(e, g, err)
                           \/ Lose(e, g)

Spec == Init /\ [][Next]_vars

(* Both applications keep the connection in use, a packet sent again and again *)
(* arrives and is decrypted without an error, the workqueue runs, and time     *)
(* passes.                                                                     *)
ReceiveCurrent(e) ==
    \E user \in BOOLEAN : Receive(e, gen[Peer(e)], user, FALSE)

FairSpec ==
    /\ Spec
    /\ \A e \in Ends : /\ WF_vars(Encrypt(e))
                       /\ SF_vars(ReceiveCurrent(e))
                       /\ WF_vars(\E g \in backlog[e], err \in MayErr(e) : BacklogWork(e, g, err))
                       /\ WF_vars(Age(e))

-----------------------------------------------------------------------------
(* Every variable holds a value of its kind. *)
TypeOK ==
    /\ gen \in [Ends -> Gens]
    /\ rx \in [Ends -> [0..1 -> Gens \union {NoKey}]]
    /\ key_pending \in [Ends -> BOOLEAN]
    /\ key_update_send_time \in [Ends -> Gens]
    /\ old \in [Ends -> BOOLEAN]
    /\ key_update_time \in [Ends -> BOOLEAN]
    /\ flight \in [Ends -> SUBSET Gens]
    /\ backlog \in [Ends -> SUBSET Gens]
    /\ state \in [Ends -> {"established", "closed"}]
    /\ spoiled \in BOOLEAN

(* The keys of the two slots of an end. *)
SlotsKept ==
    \A e \in Ends : /\ rx[e][Phase(gen[e])] = gen[e]
                    /\ key_pending[e] => rx[e][Phase(gen[e] + 1)] = gen[e] - 1

(* An end always has the key it is to receive with, and until an update is      *)
(* complete also the one before (crypto.c:622-629), through failed derivations  *)
(* (crypto.c:816), decryption errors and updates made for a late packet.        *)
KeysHeld == TypeOK /\ SlotsKept

OneApart == \A e \in Ends : gen[e] <= gen[Peer(e)] + 1

(* No end is ever two key updates ahead of the other: with one bit of key phase *)
(* and two key slots the peer could not follow, nor tell that it should.  Rests *)
(* on key_pending refusing a second update (crypto.c:770) until a packet of the *)
(* peer shows that it followed, whatever order packets arrive in and whichever  *)
(* of them fail to be decrypted.  One error breaks it: on a packet the peer     *)
(* sent with the old keys, before it followed, because crypto.c:615 takes any   *)
(* error for a sign that it did.                                                *)
WithinOne == ~spoiled => OneApart

(* Whatever updates were asked for at either end, or were started by a late     *)
(* packet, the ends come back to the same keys with no update pending, so that  *)
(* the next QUIC_SOCKOPT_KEY_UPDATE is accepted (or a failed derivation closes  *)
(* the connection, or the error that WithinOne excepts has happened).           *)
Settles ==
    []<>(\/ state["client"] = "closed" \/ spoiled
         \/ gen["client"] = gen["server"] /\ \A e \in Ends : ~key_pending[e])

(* The old keys are dropped on a packet with the new keys (crypto.c:630-636)    *)
(* only by a clock that was started by the first packet sent after this update, *)
(* which is what key_update_send_time is said to be (crypto.h:45).              *)
OldKeysRetained ==
    [][\A e \in Ends :
          (/\ key_pending[e] /\ ~key_pending'[e]
           /\ \E g \in Gens, user \in BOOLEAN : g = gen[e] /\ Receive(e, g, user, FALSE))
          => key_update_send_time[e] = gen[e]]_vars
====
