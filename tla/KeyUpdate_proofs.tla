--------------------------- MODULE KeyUpdate_proofs ---------------------------
(* That an end always has the keys it needs, and that the two ends of a      *)
(* connection are never more than one key update apart unless a decryption   *)
(* error ended an update too early: for any number of generations, ends that *)
(* ask, queued packets, failed derivations and decryption errors.            *)
EXTENDS KeyUpdate, TLAPS

USE SMTT(30)

(* The key phase bit tells a generation from its neighbours and not from the *)
(* one after the next (crypto.c:588).                                        *)
LEMMA PhaseBit ==
  \A g \in Int : /\ Phase(g) \in 0..1
                 /\ Phase(g + 1) # Phase(g)
                 /\ Phase(g + 2) = Phase(g)
                 /\ Phase(g - 1) # Phase(g)
                 /\ Phase(g - 2) = Phase(g)
  BY DEF Phase

(* There are two phases, so what is not one is the other.                    *)
LEMMA OtherPhase ==
  \A g, h \in Int : Phase(h) # Phase(g) => Phase(h) = Phase(g + 1)
  BY DEF Phase

(* A connection has two ends.                                                *)
LEMMA TwoEnds ==
  \A e \in Ends : /\ Peer(e) \in Ends /\ Peer(e) # e /\ Peer(Peer(e)) = e
                  /\ \A f \in Ends : f = e \/ f = Peer(e)
<1>1. Peer("client") = "server" /\ Peer("server") = "client"
  BY Zenon DEF Peer, Ends
<1> QED BY <1>1, Zenon DEF Ends
-------------------------------------------------------------------------------
(* The keys of the two slots: what one end has after it processed a packet   *)
(* or updated its keys, its generation h, its slots and its key_pending.     *)
Held == /\ gen' \in [Ends -> Gens] /\ \A d \in Ends : gen[d] <= gen'[d]
        /\ rx' \in [Ends -> [0..1 -> Gens \cup {NoKey}]]
        /\ key_pending' \in [Ends -> BOOLEAN]
        /\ SlotsKept'

LEMMA EndHolds ==
  ASSUME KeysHeld, NEW e \in Ends, NEW h \in Gens, NEW slots \in [0..1 -> Gens \cup {NoKey}],
         NEW pending \in BOOLEAN,
         gen' = [gen EXCEPT ![e] = h], rx' = [rx EXCEPT ![e] = slots],
         key_pending' = [key_pending EXCEPT ![e] = pending],
         gen[e] <= h, slots[Phase(h)] = h, pending => slots[Phase(h + 1)] = h - 1
  PROVE  Held
<1>1. /\ gen \in [Ends -> Gens] /\ rx \in [Ends -> [0..1 -> Gens \cup {NoKey}]]
      /\ key_pending \in [Ends -> BOOLEAN]
  BY Zenon DEF KeysHeld, TypeOK
<1>2. /\ gen'[e] = h /\ gen'[Peer(e)] = gen[Peer(e)]
      /\ rx'[e] = slots /\ rx'[Peer(e)] = rx[Peer(e)]
      /\ key_pending'[e] = pending /\ key_pending'[Peer(e)] = key_pending[Peer(e)]
  BY <1>1, TwoEnds, Zenon
<1>3. /\ gen' \in [Ends -> Gens] /\ rx' \in [Ends -> [0..1 -> Gens \cup {NoKey}]]
      /\ key_pending' \in [Ends -> BOOLEAN]
  BY <1>1, Zenon
<1>4. \A d \in Ends : gen[d] <= gen'[d]
  BY <1>1, <1>2, TwoEnds DEF Gens
<1>5. SlotsKept'
  <2>1. /\ rx[Peer(e)][Phase(gen[Peer(e)])] = gen[Peer(e)]
        /\ key_pending[Peer(e)] => rx[Peer(e)][Phase(gen[Peer(e)] + 1)] = gen[Peer(e)] - 1
    BY TwoEnds, Zenon DEF KeysHeld, SlotsKept
  <2> SUFFICES ASSUME NEW d \in Ends
               PROVE  /\ rx'[d][Phase(gen'[d])] = gen'[d]
                      /\ key_pending'[d] => rx'[d][Phase(gen'[d] + 1)] = gen'[d] - 1
    BY Zenon DEF SlotsKept, Phase
  <2>2. CASE d = e
    BY <2>2, <1>2, Zenon
  <2>3. CASE d = Peer(e)
    BY <2>1, <2>3, <1>2, Zenon
  <2> QED BY <2>2, <2>3, TwoEnds, Zenon
<1> QED BY <1>3, <1>4, <1>5, Zenon DEF Held

(* quic_crypto_key_update.                                                   *)
LEMMA UpdateHolds ==
  ASSUME KeysHeld, NEW e \in Ends, key_update(e),
         NEW pending \in BOOLEAN, key_pending' = [key_pending EXCEPT ![e] = pending]
  PROVE  Held
<1> DEFINE h == gen[e] + 1
           slots == [rx[e] EXCEPT ![Phase(h)] = h]
<1>1. gen \in [Ends -> Gens] /\ rx \in [Ends -> [0..1 -> Gens \cup {NoKey}]]
  BY Zenon DEF KeysHeld, TypeOK
<1>2. gen[e] \in Int /\ h \in Gens /\ gen[e] <= h
  BY <1>1, KeyBounds DEF Gens, key_update
<1>3. /\ Phase(gen[e]) \in 0..1 /\ Phase(h) \in 0..1
      /\ Phase(h) # Phase(gen[e]) /\ Phase(h + 1) = Phase(gen[e])
  <2>1. h + 1 = gen[e] + 2
    BY <1>2
  <2> QED BY <1>2, <2>1, PhaseBit DEF Gens
<1>4. slots \in [0..1 -> Gens \cup {NoKey}] /\ slots[Phase(h)] = h
  BY <1>1, <1>2, <1>3, Zenon
<1>5. slots[Phase(h + 1)] = h - 1
  <2>1. rx[e][Phase(gen[e])] = gen[e]
    BY Zenon DEF KeysHeld, SlotsKept
  <2>2. slots[Phase(gen[e])] = rx[e][Phase(gen[e])]
    BY <1>1, <1>3, Zenon
  <2> QED BY <2>1, <2>2, <1>2, <1>3
<1>6. gen' = [gen EXCEPT ![e] = h] /\ rx' = [rx EXCEPT ![e] = slots]
  BY Zenon DEF key_update
<1> HIDE DEF h, slots
<1> QED BY <1>2, <1>4, <1>5, <1>6, EndHolds, Zenon

(* Its error path, which is taken only while no update is pending.           *)
LEMMA FailureHolds ==
  ASSUME KeysHeld, NEW e \in Ends, key_update_failed(e), ~key_pending[e],
         gen' = gen, key_pending' = key_pending
  PROVE  Held
<1>1. /\ gen \in [Ends -> Gens] /\ rx \in [Ends -> [0..1 -> Gens \cup {NoKey}]]
      /\ key_pending \in [Ends -> BOOLEAN]
  BY Zenon DEF KeysHeld, TypeOK
<1>2. gen[e] \in Int /\ gen[e] \in Gens /\ gen[e] <= gen[e]
  BY <1>1 DEF Gens
<1>3. Phase(gen[e]) \in 0..1 /\ Phase(gen[e] + 1) \in 0..1 /\ Phase(gen[e] + 1) # Phase(gen[e])
  BY <1>2, PhaseBit
<1>4. PICK k \in {rx[e][Phase(gen[e] + 1)], NoKey} :
           rx' = [rx EXCEPT ![e][Phase(gen[e] + 1)] = k]
  BY Zenon DEF key_update_failed
<1>5. k \in Gens \cup {NoKey}
  BY <1>1, <1>3, <1>4
<1> DEFINE slots == [rx[e] EXCEPT ![Phase(gen[e] + 1)] = k]
<1>6. slots \in [0..1 -> Gens \cup {NoKey}] /\ rx' = [rx EXCEPT ![e] = slots]
  BY <1>1, <1>4, <1>5, Zenon
<1>7. slots[Phase(gen[e])] = gen[e]
  <2>1. rx[e][Phase(gen[e])] = gen[e]
    BY Zenon DEF KeysHeld, SlotsKept
  <2> QED BY <2>1, <1>1, <1>3, Zenon
<1>8. gen' = [gen EXCEPT ![e] = gen[e]] /\ key_pending' = [key_pending EXCEPT ![e] = FALSE]
  BY <1>1, Zenon
<1> HIDE DEF slots
<1> QED BY <1>2, <1>6, <1>7, <1>8, EndHolds, Zenon

(* quic_crypto_decrypt: what becomes of key_pending.  An error, err, and a   *)
(* packet of another generation have the same effect.                        *)
LEMMA DecryptEffect ==
  ASSUME TypeOK, NEW e \in Ends, NEW g, NEW slots, NEW at, NEW pending \in BOOLEAN,
         NEW err \in BOOLEAN, Decrypt(e, g, slots, at, pending, err)
  PROVE  \E p \in BOOLEAN : key_pending' = [key_pending EXCEPT ![e] = p] /\ (p => pending)
<1>1. CASE Decrypted(e, g, at, pending)
  BY <1>1, Zenon DEF Decrypted
<1>2. CASE Undecrypted(e, g, at, pending)
  BY <1>2, Zenon DEF Undecrypted
<1> QED BY <1>1, <1>2, Zenon DEF Decrypt

(* A packet is processed: the keys it leaves.                                *)
Rest == /\ key_update_time' \in [Ends -> BOOLEAN]
        /\ state' \in [Ends -> {"established", "closed"}]
        /\ spoiled' \in BOOLEAN /\ (spoiled => spoiled')

LEMMA ProcessHolds ==
  ASSUME KeysHeld, NEW e \in Ends, NEW g \in Gens, NEW err \in BOOLEAN,
         ProcessSamePhase(e, g, err) \/ ProcessKeyUpdate(e, g, err)
  PROVE  Held /\ Rest
<1>1. /\ TypeOK /\ gen \in [Ends -> Gens] /\ rx \in [Ends -> [0..1 -> Gens \cup {NoKey}]]
      /\ key_pending \in [Ends -> BOOLEAN] /\ state \in [Ends -> {"established", "closed"}]
      /\ key_update_time \in [Ends -> BOOLEAN] /\ spoiled \in BOOLEAN
  BY Zenon DEF KeysHeld, TypeOK
<1>a. TypeOK
  BY <1>1, Zenon
<1>2. gen[e] \in Gens /\ gen[e] <= gen[e] /\ rx[e] \in [0..1 -> Gens \cup {NoKey}]
  BY <1>1 DEF Gens
<1>3. CASE ProcessSamePhase(e, g, err)
  <2>1. Decrypt(e, g, rx[e], gen[e], key_pending[e], err) /\ key_pending[e] \in BOOLEAN
    BY <1>1, <1>3, Zenon DEF ProcessSamePhase
  <2>2. PICK p \in BOOLEAN :
          key_pending' = [key_pending EXCEPT ![e] = p] /\ (p => key_pending[e])
    BY <1>a, <2>1, DecryptEffect, Zenon DEF Decrypt, Decrypted, Undecrypted
  <2>3. Rest
    <3>1. key_update_time' \in [Ends -> BOOLEAN]
      BY <1>1, <2>1, Zenon DEF Decrypt, Decrypted, Undecrypted
    <3>2. spoiled' \in BOOLEAN /\ (spoiled => spoiled')
      BY <1>1, <2>1, Zenon DEF Decrypt
    <3> QED BY <1>1, <1>3, <3>1, <3>2, Zenon DEF ProcessSamePhase, Rest
  <2>4. gen' = [gen EXCEPT ![e] = gen[e]] /\ rx' = [rx EXCEPT ![e] = rx[e]]
    BY <1>1, <1>3, Zenon DEF ProcessSamePhase
  <2>5. /\ rx[e][Phase(gen[e])] = gen[e]
        /\ key_pending[e] => rx[e][Phase(gen[e] + 1)] = gen[e] - 1
    BY Zenon DEF KeysHeld, SlotsKept
  <2>6. Held
    BY <1>2, <2>2, <2>4, <2>5, EndHolds, Zenon
  <2> QED BY <2>3, <2>6, Zenon
<1>4. CASE key_update(e) /\ Decrypt(e, g, rx'[e], gen[e] + 1, TRUE, err) /\ UNCHANGED state
  <2>1. PICK p \in BOOLEAN : key_pending' = [key_pending EXCEPT ![e] = p]
    BY <1>a, <1>4, DecryptEffect, Zenon DEF Decrypt, Decrypted, Undecrypted
  <2>2. Rest
    <3>1. key_update_time' \in [Ends -> BOOLEAN]
      BY <1>1, <1>4, Zenon DEF Decrypt, Decrypted, Undecrypted
    <3>2. spoiled' \in BOOLEAN /\ (spoiled => spoiled')
      BY <1>1, <1>4, Zenon DEF Decrypt
    <3> QED BY <1>1, <1>4, <3>1, <3>2, Zenon DEF Rest
  <2>3. Held
    BY <1>4, <2>1, UpdateHolds, Zenon
  <2> QED BY <2>2, <2>3, Zenon
<1>5. CASE /\ PhaseChanged(e, g) /\ key_update_failed(e) /\ state' = [f \in Ends |-> "closed"]
           /\ UNCHANGED <<gen, key_pending, key_update_time, spoiled>>
  <2>1. Rest
    BY <1>1, <1>5, Zenon DEF Rest
  <2>2. ~key_pending[e] /\ gen' = gen /\ key_pending' = key_pending
    BY <1>5, Zenon DEF PhaseChanged
  <2>3. Held
    BY <1>5, <2>2, FailureHolds, Zenon
  <2> QED BY <2>1, <2>3, Zenon
<1> QED BY <1>3, <1>4, <1>5, Zenon DEF ProcessKeyUpdate

LEMMA InitKeysHeld == Init => KeysHeld
<1> SUFFICES ASSUME Init PROVE TypeOK /\ SlotsKept
  BY Zenon DEF KeysHeld
<1>1. /\ gen \in [Ends -> Gens] /\ rx \in [Ends -> [0..1 -> Gens \union {NoKey}]]
      /\ key_update_send_time \in [Ends -> Gens]
  BY KeyBounds DEF Init, Gens, NoKey
<1>2. TypeOK
  BY <1>1, Zenon DEF Init, TypeOK
<1>3. SlotsKept
  BY DEF Init, SlotsKept, Phase
<1> QED BY <1>2, <1>3, Zenon

(* Every step keeps the keys of both ends, and generations do not go back.   *)
LEMMA NextKeysHeld ==
  ASSUME KeysHeld, [Next]_vars
  PROVE  KeysHeld' /\ (\A d \in Ends : gen[d] <= gen'[d]) /\ (spoiled => spoiled')
<1> DEFINE Kept == KeysHeld' /\ (\A d \in Ends : gen[d] <= gen'[d]) /\ (spoiled => spoiled')
<1>0. TypeOK /\ SlotsKept /\ (\A f \in [Ends -> SUBSET Gens] : InTime(f) \in [Ends -> SUBSET Gens])
  BY Zenon DEF InTime, KeysHeld
<1>a. \A d \in Ends : gen[d] <= gen[d]
  BY <1>0 DEF TypeOK, Gens
<1>b. ASSUME Held, Rest, flight' \in [Ends -> SUBSET Gens], backlog' \in [Ends -> SUBSET Gens],
             key_update_send_time' = key_update_send_time, old' = old
      PROVE  Kept
  <2>1. TypeOK'
    BY <1>0, <1>b, Zenon DEF TypeOK, Held, Rest, Gens, NoKey, Ends
  <2> QED BY <1>b, <2>1, Zenon DEF KeysHeld, Held, Rest
<1>c. ASSUME UNCHANGED <<gen, rx, key_pending>>, TypeOK', spoiled' = spoiled
      PROVE  Kept
  <2>1. SlotsKept'
    BY <1>0, <1>c, Zenon DEF SlotsKept, Phase, Ends
  <2> QED BY <1>a, <1>c, <2>1, Zenon DEF KeysHeld
<1>1. ASSUME NEW e \in Ends, KeyUpdate(e) PROVE Kept
  <2>1. ~key_pending[e]
    BY <1>1, Zenon DEF KeyUpdate
  <2>2. Held
    <3>1. CASE key_update(e) /\ key_pending' = [key_pending EXCEPT ![e] = TRUE]
      BY <3>1, UpdateHolds, Zenon
    <3>2. CASE key_update_failed(e) /\ gen' = gen /\ key_pending' = key_pending
      BY <2>1, <3>2, FailureHolds, Zenon
    <3> QED BY <1>1, <3>1, <3>2, Zenon DEF KeyUpdate
  <2>3. /\ flight' \in [Ends -> SUBSET Gens] /\ backlog' \in [Ends -> SUBSET Gens]
        /\ key_update_send_time' = key_update_send_time /\ old' = old
    BY <1>0, <1>1, Zenon DEF KeyUpdate, TypeOK
  <2>4. Rest
    BY <1>0, <1>1, Zenon DEF KeyUpdate, TypeOK, Rest
  <2> QED BY <1>b, <2>2, <2>3, <2>4, Zenon
<1>2. ASSUME NEW e \in Ends, NEW g \in Gens, NEW user \in BOOLEAN, NEW err \in BOOLEAN,
             Receive(e, g, user, err)
      PROVE  Kept
  <2>1. /\ flight' \in [Ends -> SUBSET Gens]
        /\ key_update_send_time' = key_update_send_time /\ old' = old
    BY <1>0, <1>2, Zenon DEF Receive, TypeOK
  <2>2. CASE /\ ProcessSamePhase(e, g, err) \/ ProcessKeyUpdate(e, g, err)
             /\ backlog' = InTime(backlog)
    <3>1. Held /\ Rest
      BY <2>2, ProcessHolds, Zenon
    <3>2. backlog' \in [Ends -> SUBSET Gens]
      BY <1>0, <2>2, Zenon DEF TypeOK
    <3> QED BY <1>b, <2>1, <3>1, <3>2, Zenon
  <2>3. CASE /\ backlog' = [backlog EXCEPT ![e] =
                               IF Cardinality(@) < BacklogMax THEN @ \union {g} ELSE @]
             /\ UNCHANGED <<gen, rx, key_pending, key_update_time, state, spoiled>>
    <3>1. backlog' \in [Ends -> SUBSET Gens]
      BY <1>0, <2>3, Zenon DEF TypeOK
    <3>2. TypeOK'
      BY <1>0, <2>1, <2>3, <3>1, Zenon DEF TypeOK, Ends, Gens, NoKey
    <3> QED BY <1>c, <2>3, <3>2, Zenon
  <2> QED BY <1>2, <2>2, <2>3, Zenon DEF Receive
<1>3. ASSUME NEW e \in Ends, NEW g \in Gens, NEW err \in BOOLEAN, BacklogWork(e, g, err)
      PROVE  Kept
  <2>1. [backlog EXCEPT ![e] = @ \ {g}] \in [Ends -> SUBSET Gens]
    BY <1>0, Zenon DEF TypeOK
  <2>2. /\ flight' \in [Ends -> SUBSET Gens] /\ backlog' \in [Ends -> SUBSET Gens]
        /\ key_update_send_time' = key_update_send_time /\ old' = old
    BY <1>0, <1>3, <2>1, Zenon DEF BacklogWork, TypeOK
  <2>3. Held /\ Rest
    BY <1>3, ProcessHolds, Zenon DEF BacklogWork
  <2> QED BY <1>b, <2>2, <2>3, Zenon
<1>4. ASSUME NEW e \in Ends, Encrypt(e) PROVE Kept
  <2>1. Peer(e) \in Ends /\ gen[e] \in Gens
    BY <1>0, TwoEnds, Zenon DEF TypeOK
  <2>2. flight' \in [Ends -> SUBSET Gens]
    BY <1>0, <1>4, <2>1, Zenon DEF Encrypt, TypeOK
  <2>3. key_update_send_time' \in [Ends -> Gens]
    BY <1>0, <1>4, <2>1, Zenon DEF Encrypt, StampedUnlessSet, TypeOK
  <2>4. TypeOK'
    BY <1>0, <1>4, <2>2, <2>3, Zenon DEF Encrypt, TypeOK, Ends, Gens, NoKey
  <2> QED BY <1>c, <1>4, <2>4, Zenon DEF Encrypt
<1>5. ASSUME NEW e \in Ends, NEW g \in Gens, Lose(e, g) PROVE Kept
  <2>1. TypeOK'
    BY <1>0, <1>5, Zenon DEF Lose, TypeOK, Ends, Gens, NoKey
  <2> QED BY <1>c, <1>5, <2>1, Zenon DEF Lose
<1>6. ASSUME NEW e \in Ends, Age(e) PROVE Kept
  <2>1. TypeOK'
    BY <1>0, <1>6, Zenon DEF Age, TypeOK, Ends, Gens, NoKey
  <2> QED BY <1>c, <1>6, <2>1, Zenon DEF Age
<1>7. ASSUME UNCHANGED vars PROVE Kept
  <2>1. TypeOK'
    BY <1>0, <1>7, Zenon DEF vars, TypeOK, Ends, Gens, NoKey
  <2> QED BY <1>c, <1>7, <2>1, Zenon DEF vars
<1> HIDE DEF Kept
<1>8. \A e \in Ends : MayErr(e) \subseteq BOOLEAN
  BY Zenon DEF MayErr
<1>9. ASSUME Next PROVE Kept
  <2>1. PICK e \in Ends :
          \/ KeyUpdate(e) \/ Encrypt(e) \/ Age(e)
          \/ \E g \in Gens : \/ \E user \in BOOLEAN, err \in MayErr(e) : Receive(e, g, user, err)
                             \/ \E err \in MayErr(e) : BacklogWork(e, g, err)
                             \/ Lose(e, g)
    BY <1>9, Zenon DEF Next
  <2>2. \A err \in MayErr(e) : err \in BOOLEAN
    BY <1>8, Zenon
  <2> QED BY <1>1, <1>2, <1>3, <1>4, <1>5, <1>6, <2>1, <2>2, Zenon
<1>10. Kept
  BY <1>7, <1>9, Zenon
<1> QED BY <1>10, Zenon DEF Kept

(* An end always has the key it receives with, and while an update is        *)
(* pending the previous one, however late packets arrive and wherever a      *)
(* derivation or a decryption fails: a failed derivation leaves the slot it  *)
(* worked on, which is not the one in use (crypto.c:588-636, :799-822).      *)
THEOREM KeysStayHeld == Spec => []KeysHeld
<1>1. Init => KeysHeld
  BY InitKeysHeld, Zenon
<1>2. KeysHeld /\ [Next]_vars => KeysHeld'
  BY NextKeysHeld, Zenon
<1> QED BY <1>1, <1>2, PTL DEF Spec
-------------------------------------------------------------------------------
(* The distance between the ends.  OneApart alone is not inductive: that an  *)
(* end ahead of its peer cannot update again needs key_pending, and that     *)
(* nothing clears key_pending too early needs to know which keys are         *)
(* installed and which packets can still arrive.                             *)

(* Packets on their way, f, were sent with a generation of their sender: the *)
(* one it is at now, or one not further back than MaxLate.                   *)
Sent(f, now) ==
    \A e \in Ends : \A g \in f[e] : g <= now[Peer(e)] /\ now[Peer(e)] <= g + MaxLate

(* An end that is ahead waits for its peer.                                  *)
AheadWaits == \A e \in Ends : gen[e] > gen[Peer(e)] => key_pending[e]

IInv == /\ KeysHeld /\ Sent(flight, gen) /\ Sent(backlog, gen)
        /\ ~spoiled => OneApart /\ AheadWaits

LEMMA InitIInv == Init => IInv
<1> SUFFICES ASSUME Init PROVE IInv
  BY Zenon
<1>1. Sent(flight, gen) /\ Sent(backlog, gen)
  BY TwoEnds, Zenon DEF Init, Sent
<1>2. OneApart /\ AheadWaits
  BY TwoEnds DEF Init, OneApart, AheadWaits
<1> QED BY <1>1, <1>2, InitKeysHeld, Zenon DEF IInv

(* What InTime leaves has been sent recently, also by an end that updates.   *)
LEMMA InTimeSent ==
  ASSUME NEW f \in [Ends -> SUBSET Gens], Sent(f, gen), TypeOK,
         gen' \in [Ends -> Gens], \A e \in Ends : gen[e] <= gen'[e]
  PROVE  InTime(f) \in [Ends -> SUBSET Gens] /\ Sent(InTime(f), gen')
<1>1. InTime(f) \in [Ends -> SUBSET Gens]
  BY Zenon DEF InTime
<1>2. ASSUME NEW e \in Ends, NEW g \in InTime(f)[e]
      PROVE  g <= gen'[Peer(e)] /\ gen'[Peer(e)] <= g + MaxLate
  <2>1. g \in f[e] /\ g + MaxLate >= gen'[Peer(e)] /\ g \in Gens
    BY <1>2, Zenon DEF InTime
  <2>2. Peer(e) \in Ends
    BY TwoEnds, Zenon
  <2>3. g <= gen[Peer(e)] /\ gen[Peer(e)] <= gen'[Peer(e)]
    BY <2>1, <2>2, Zenon DEF Sent
  <2> QED BY <2>1, <2>2, <2>3, KeyBounds DEF TypeOK, Gens
<1> QED BY <1>1, <1>2, Zenon DEF Sent

(* What one end does keeps the distance, if it does not leave its peer       *)
(* behind without waiting for it.                                            *)
LEMMA EndNear ==
  ASSUME TypeOK, OneApart, AheadWaits, NEW e \in Ends, NEW h \in Gens, NEW pending \in BOOLEAN,
         gen' = [gen EXCEPT ![e] = h], key_pending' = [key_pending EXCEPT ![e] = pending],
         gen[e] <= h, h <= gen[Peer(e)] + 1, h > gen[Peer(e)] => pending
  PROVE  OneApart' /\ AheadWaits'
<1>1. gen \in [Ends -> Gens] /\ key_pending \in [Ends -> BOOLEAN]
  BY Zenon DEF TypeOK
<1>2. gen[e] \in Int /\ gen[Peer(e)] \in Int /\ h \in Int
  BY <1>1, TwoEnds DEF Gens
<1>3. /\ gen'[e] = h /\ gen'[Peer(e)] = gen[Peer(e)]
      /\ key_pending'[e] = pending /\ key_pending'[Peer(e)] = key_pending[Peer(e)]
  BY <1>1, TwoEnds, Zenon
<1>4. /\ gen[Peer(e)] <= gen[e] + 1
      /\ gen[Peer(e)] > gen[e] => key_pending[Peer(e)]
  BY TwoEnds, Zenon DEF OneApart, AheadWaits
<1>5. gen'[e] <= gen'[Peer(e)] + 1 /\ gen'[Peer(e)] <= gen'[e] + 1
  BY <1>2, <1>3, <1>4
<1>6. /\ gen'[e] > gen'[Peer(e)] => key_pending'[e]
      /\ gen'[Peer(e)] > gen'[e] => key_pending'[Peer(e)]
  BY <1>2, <1>3, <1>4
<1>7. \A d \in Ends : (d = e /\ Peer(d) = Peer(e)) \/ (d = Peer(e) /\ Peer(d) = e)
  BY TwoEnds, Zenon
<1> QED BY <1>5, <1>6, <1>7, Zenon DEF OneApart, AheadWaits, Peer

(* Nor does a packet the peer sent, with the keys it has now or had before   *)
(* its last update, unless an error in decrypting it spoils the update.      *)
LEMMA SamePhaseNear ==
  ASSUME KeysHeld, OneApart, AheadWaits, MaxLate <= 1, NEW e \in Ends, NEW g \in Gens,
         NEW err \in BOOLEAN, ProcessSamePhase(e, g, err), ~spoiled',
         g <= gen[Peer(e)], gen[Peer(e)] <= g + MaxLate
  PROVE  OneApart' /\ AheadWaits'
<1>1. TypeOK /\ gen \in [Ends -> Gens] /\ key_pending \in [Ends -> BOOLEAN]
  BY Zenon DEF KeysHeld, TypeOK
<1>2. gen[e] \in Int /\ gen[Peer(e)] \in Int /\ gen[e] \in Gens /\ g \in Int /\ gen[e] <= gen[e]
  BY <1>1, TwoEnds DEF Gens
<1>3. /\ rx[e][Phase(gen[e])] = gen[e]
      /\ key_pending[e] => rx[e][Phase(gen[e] + 1)] = gen[e] - 1
      /\ gen[e] <= gen[Peer(e)] + 1
      /\ gen[e] > gen[Peer(e)] => key_pending[e]
  BY Zenon DEF KeysHeld, SlotsKept, OneApart, AheadWaits
<1>4. Decrypt(e, g, rx[e], gen[e], key_pending[e], err) /\ key_pending[e] \in BOOLEAN /\ TypeOK
  BY <1>1, Zenon DEF ProcessSamePhase
<1>5. PICK p \in BOOLEAN : key_pending' = [key_pending EXCEPT ![e] = p] /\ (p => key_pending[e])
  BY <1>4, DecryptEffect, Zenon DEF Decrypt, Decrypted, Undecrypted
<1>6. gen[e] > gen[Peer(e)] => p
  <2> SUFFICES ASSUME gen[e] > gen[Peer(e)], ~p PROVE FALSE
    BY Zenon
  <2>0. key_pending[e] /\ ~key_pending'[e]
    BY <1>1, <1>3, <1>5, Zenon
  <2>1. CASE rx[e][Phase(g)] = g /\ ~err
    <3>1. Phase(g) = Phase(gen[e])
      BY <1>1, <1>4, <2>0, <2>1, Zenon DEF Decrypt, Decrypted
    <3>2. g = gen[e]
      BY <1>3, <2>1, <3>1, Zenon
    <3> QED BY <3>2, <1>2
  <2>2. CASE rx[e][Phase(g)] = g /\ err
    BY <1>4, <2>0, <2>2, Zenon DEF Decrypt
  <2>3. CASE rx[e][Phase(g)] # g
    <3>0. Phase(g) # Phase(gen[e])
      BY <1>1, <1>4, <2>0, <2>3, Zenon DEF Decrypt, Undecrypted
    <3>1. Phase(g) = Phase(gen[e] + 1)
      BY <1>2, <3>0, OtherPhase, Zenon
    <3>2. g # gen[e] - 1
      BY <1>3, <2>0, <2>3, <3>1, Zenon
    <3>3. g = gen[e] - 2
      BY <1>2, <1>3, <3>2, KeyBounds
    <3>4. Phase(gen[e] - 2) = Phase(gen[e])
      BY <1>2, PhaseBit, Zenon
    <3> QED BY <3>0, <3>3, <3>4, Zenon
  <2> QED BY <2>1, <2>2, <2>3, Zenon
<1>7. gen' = [gen EXCEPT ![e] = gen[e]]
  BY <1>1, Zenon DEF ProcessSamePhase
<1> QED BY <1>1, <1>2, <1>3, <1>5, <1>6, <1>7, EndNear, Zenon

(* quic_crypto_key_update by an end that is not ahead.                       *)
LEMMA UpdateNear ==
  ASSUME TypeOK, OneApart, AheadWaits, NEW e \in Ends, key_update(e), ~key_pending[e],
         NEW pending \in BOOLEAN, key_pending' = [key_pending EXCEPT ![e] = pending],
         gen[e] + 1 > gen[Peer(e)] => pending
  PROVE  OneApart' /\ AheadWaits'
<1>1. gen \in [Ends -> Gens] /\ key_pending \in [Ends -> BOOLEAN]
  BY Zenon DEF TypeOK
<1>2. gen[e] \in Int /\ gen[Peer(e)] \in Int
  BY <1>1, TwoEnds DEF Gens
<1>3. gen[e] + 1 \in Gens /\ gen[e] <= gen[e] + 1
  BY <1>1, <1>2, KeyBounds DEF Gens, key_update
<1>4. ~(gen[e] > gen[Peer(e)])
  BY Zenon DEF AheadWaits
<1>5. gen[e] + 1 <= gen[Peer(e)] + 1
  BY <1>2, <1>4
<1>6. gen' = [gen EXCEPT ![e] = gen[e] + 1]
  BY Zenon DEF key_update
<1> QED BY <1>3, <1>5, <1>6, EndNear, Zenon

(* An end that follows a packet of the other phase: the update is at once    *)
(* complete only if the packet was of the new generation.                    *)
LEMMA KeyUpdateNear ==
  ASSUME KeysHeld, OneApart, AheadWaits, NEW e \in Ends, NEW g \in Gens, NEW err \in BOOLEAN,
         ProcessKeyUpdate(e, g, err), g <= gen[Peer(e)]
  PROVE  OneApart' /\ AheadWaits'
<1>1. /\ TypeOK /\ gen \in [Ends -> Gens] /\ rx \in [Ends -> [0..1 -> Gens \cup {NoKey}]]
  BY Zenon DEF KeysHeld, TypeOK
<1>2. gen[e] \in Int /\ gen[Peer(e)] \in Int /\ g \in Int
  BY <1>1, TwoEnds DEF Gens
<1>3. ~key_pending[e] /\ Phase(g) # Phase(gen[e])
  BY Zenon DEF ProcessKeyUpdate, PhaseChanged
<1>4. CASE key_update(e) /\ Decrypt(e, g, rx'[e], gen[e] + 1, TRUE, err)
  <2>1. Phase(g) = Phase(gen[e] + 1) /\ Phase(gen[e] + 1) \in 0..1
    BY <1>2, <1>3, OtherPhase, PhaseBit, Zenon
  <2>2. rx'[e][Phase(g)] = gen[e] + 1
    BY <1>1, <1>4, <2>1, Zenon DEF key_update
  <2>3. TypeOK /\ Decrypt(e, g, rx'[e], gen[e] + 1, TRUE, err) /\ key_pending \in [Ends -> BOOLEAN]
    BY <1>1, <1>4, Zenon DEF TypeOK
  <2>4. PICK p \in BOOLEAN : key_pending' = [key_pending EXCEPT ![e] = p]
    BY <2>3, DecryptEffect, Zenon DEF Decrypt, Decrypted, Undecrypted
  <2>a. key_pending'[e] = p
    BY <2>3, <2>4, Zenon
  <2>5. ~p => g = gen[e] + 1
    <3>1. CASE g = gen[e] + 1
      BY <3>1, Zenon
    <3>2. CASE g # gen[e] + 1
      BY <2>1, <2>2, <2>3, <2>a, <3>2, Zenon DEF Decrypt, Undecrypted
    <3> QED BY <3>1, <3>2, Zenon
  <2>6. gen[e] + 1 > gen[Peer(e)] => p
    BY <1>2, <2>5
  <2> QED BY <1>1, <1>3, <1>4, <2>4, <2>6, UpdateNear, Zenon
<1>5. CASE gen' = gen /\ key_pending' = key_pending
  BY <1>5, Zenon DEF OneApart, AheadWaits, Peer, Ends
<1> QED BY <1>4, <1>5, Zenon DEF ProcessKeyUpdate

(* Every step keeps the invariant.  MaxLate <= 1 is needed by packets of the *)
(* other phase only.                                                         *)
LEMMA NextSent ==
  ASSUME IInv, [Next]_vars
  PROVE  Sent(flight', gen') /\ Sent(backlog', gen')
<1> DEFINE Kept == Sent(flight', gen') /\ Sent(backlog', gen')
<1>0. /\ KeysHeld /\ TypeOK /\ Sent(flight, gen) /\ Sent(backlog, gen)
      /\ flight \in [Ends -> SUBSET Gens] /\ backlog \in [Ends -> SUBSET Gens]
  BY Zenon DEF IInv, KeysHeld, TypeOK
<1>1. KeysHeld' /\ \A d \in Ends : gen[d] <= gen'[d]
  BY <1>0, NextKeysHeld, Zenon
<1>2. gen' \in [Ends -> Gens]
  BY <1>1, Zenon DEF KeysHeld, TypeOK
<1>3. Sent(InTime(flight), gen') /\ Sent(InTime(backlog), gen')
  BY <1>0, <1>1, <1>2, InTimeSent, Zenon
<1>4. ASSUME NEW e \in Ends, KeyUpdate(e) PROVE Kept
  BY <1>3, <1>4, Zenon DEF KeyUpdate
<1>5. ASSUME NEW e \in Ends, NEW g \in Gens, NEW user, NEW err, Receive(e, g, user, err)
      PROVE  Kept
  <2>1. g \in flight[e] /\ flight' = InTime(flight)
    BY <1>5, Zenon DEF Receive
  <2>2. g <= gen[Peer(e)] /\ gen[Peer(e)] <= g + MaxLate
    BY <1>0, <2>1, Zenon DEF Sent
  <2>3. CASE backlog' = InTime(backlog)
    BY <1>3, <2>1, <2>3, Zenon
  <2>4. CASE /\ backlog' = [backlog EXCEPT ![e] =
                               IF Cardinality(@) < BacklogMax THEN @ \union {g} ELSE @]
             /\ gen' = gen
    <3>1. Sent(backlog', gen')
      BY <1>0, <2>2, <2>4, Zenon DEF Sent
    <3> QED BY <1>3, <2>1, <3>1, Zenon
  <2> QED BY <1>5, <2>3, <2>4, Zenon DEF Receive
<1>6. ASSUME NEW e \in Ends, NEW g \in Gens, NEW err, BacklogWork(e, g, err) PROVE Kept
  <2> DEFINE b == [backlog EXCEPT ![e] = @ \ {g}]
  <2>1. flight' = InTime(flight) /\ backlog' = InTime(b)
    BY <1>6, Zenon DEF BacklogWork
  <2>2. b \in [Ends -> SUBSET Gens] /\ Sent(b, gen)
    BY <1>0, Zenon DEF Sent
  <2> HIDE DEF b
  <2>3. Sent(InTime(b), gen')
    BY <1>0, <1>1, <1>2, <2>2, InTimeSent, Zenon
  <2> QED BY <1>3, <2>1, <2>3, Zenon
<1>7. ASSUME NEW e \in Ends, Encrypt(e) PROVE Kept
  <2>1. /\ gen \in [Ends -> Gens] /\ Peer(e) \in Ends /\ Peer(Peer(e)) = e
    BY <1>0, TwoEnds, Zenon DEF TypeOK
  <2>2. flight' = [flight EXCEPT ![Peer(e)] = @ \union {gen[e]}] /\ backlog' = backlog /\ gen' = gen
    BY <1>7, Zenon DEF Encrypt
  <2>3. Sent(flight', gen)
    BY <1>0, <2>1, <2>2, KeyBounds DEF Sent, Gens
  <2> QED BY <1>0, <2>2, <2>3, Zenon DEF Sent
<1>8. ASSUME NEW e \in Ends, NEW g \in Gens, Lose(e, g) PROVE Kept
  BY <1>0, <1>8, Zenon DEF Lose, Sent
<1>9. ASSUME NEW e \in Ends, Age(e) PROVE Kept
  BY <1>0, <1>9, Zenon DEF Age, Sent
<1>10. ASSUME UNCHANGED vars PROVE Kept
  BY <1>0, <1>10, Zenon DEF vars, Sent
<1> HIDE DEF Kept
<1>11. ASSUME Next PROVE Kept
  BY <1>4, <1>5, <1>6, <1>7, <1>8, <1>9, <1>11, Zenon DEF Next
<1>12. Kept
  BY <1>10, <1>11, Zenon
<1> QED BY <1>12, Zenon DEF Kept

LEMMA NextNear ==
  ASSUME IInv, MaxLate <= 1, [Next]_vars, ~spoiled, ~spoiled'
  PROVE  OneApart' /\ AheadWaits'
<1> DEFINE Near == OneApart' /\ AheadWaits'
<1>0. /\ KeysHeld /\ TypeOK /\ Sent(flight, gen) /\ Sent(backlog, gen)
      /\ OneApart /\ AheadWaits
  BY Zenon DEF IInv, KeysHeld
<1>a. ASSUME gen' = gen, key_pending' = key_pending PROVE Near
  BY <1>0, <1>a, Zenon DEF OneApart, AheadWaits, Peer, Ends
<1>b. ASSUME NEW e \in Ends, NEW g \in Gens, NEW err \in BOOLEAN,
             g <= gen[Peer(e)], gen[Peer(e)] <= g + MaxLate,
             ProcessSamePhase(e, g, err) \/ ProcessKeyUpdate(e, g, err)
      PROVE  Near
  <2>1. CASE ProcessSamePhase(e, g, err)
    BY <1>0, <1>b, <2>1, SamePhaseNear, Zenon
  <2>2. CASE ProcessKeyUpdate(e, g, err)
    BY <1>0, <1>b, <2>2, KeyUpdateNear, Zenon
  <2> QED BY <1>b, <2>1, <2>2, Zenon
<1>1. ASSUME NEW e \in Ends, KeyUpdate(e) PROVE Near
  <2>1. ~key_pending[e]
    BY <1>1, Zenon DEF KeyUpdate
  <2>2. CASE key_update(e) /\ key_pending' = [key_pending EXCEPT ![e] = TRUE]
    BY <1>0, <2>1, <2>2, UpdateNear, Zenon
  <2>3. CASE gen' = gen /\ key_pending' = key_pending
    BY <1>a, <2>3, Zenon
  <2> QED BY <1>1, <2>2, <2>3, Zenon DEF KeyUpdate
<1>2. ASSUME NEW e \in Ends, NEW g \in Gens, NEW user \in BOOLEAN, NEW err \in BOOLEAN,
             Receive(e, g, user, err)
      PROVE  Near
  <2>1. g \in flight[e]
    BY <1>2, Zenon DEF Receive
  <2>2. g <= gen[Peer(e)] /\ gen[Peer(e)] <= g + MaxLate
    BY <1>0, <2>1, Zenon DEF Sent
  <2>3. \/ ProcessSamePhase(e, g, err) \/ ProcessKeyUpdate(e, g, err)
        \/ gen' = gen /\ key_pending' = key_pending
    BY <1>2, Zenon DEF Receive
  <2> QED BY <1>a, <1>b, <2>2, <2>3, Zenon
<1>3. ASSUME NEW e \in Ends, NEW g \in Gens, NEW err \in BOOLEAN, BacklogWork(e, g, err)
      PROVE  Near
  <2>1. g \in backlog[e]
    BY <1>3, Zenon DEF BacklogWork
  <2>2. g <= gen[Peer(e)] /\ gen[Peer(e)] <= g + MaxLate
    BY <1>0, <2>1, Zenon DEF Sent
  <2>3. ProcessSamePhase(e, g, err) \/ ProcessKeyUpdate(e, g, err)
    BY <1>3, Zenon DEF BacklogWork
  <2> QED BY <1>b, <2>2, <2>3, Zenon
<1>4. ASSUME NEW e \in Ends, NEW g \in Gens, Encrypt(e) \/ Lose(e, g) \/ Age(e) PROVE Near
  BY <1>a, <1>4, Zenon DEF Encrypt, Lose, Age
<1>5. ASSUME UNCHANGED vars PROVE Near
  BY <1>a, <1>5, Zenon DEF vars
<1> HIDE DEF Near
<1>6. ASSUME Next PROVE Near
  <2>1. PICK e \in Ends :
          \/ KeyUpdate(e) \/ Encrypt(e) \/ Age(e)
          \/ \E g \in Gens : \/ \E user \in BOOLEAN, err \in MayErr(e) : Receive(e, g, user, err)
                             \/ \E err \in MayErr(e) : BacklogWork(e, g, err)
                             \/ Lose(e, g)
    BY <1>6, Zenon DEF Next
  <2>2. \A err \in MayErr(e) : err \in BOOLEAN
    BY Zenon DEF MayErr
  <2>3. 0 \in Gens
    BY KeyBounds DEF Gens
  <2> QED BY <1>1, <1>2, <1>3, <1>4, <2>1, <2>2, <2>3, Zenon
<1>7. Near
  BY <1>5, <1>6, Zenon
<1> QED BY <1>7, Zenon DEF Near

LEMMA NextIInv ==
  ASSUME IInv, MaxLate <= 1, [Next]_vars
  PROVE  IInv'
<1>1. KeysHeld' /\ (spoiled => spoiled')
  BY NextKeysHeld, Zenon DEF IInv
<1>2. Sent(flight', gen') /\ Sent(backlog', gen')
  BY NextSent, Zenon
<1>3. ~spoiled' => OneApart' /\ AheadWaits'
  BY <1>1, NextNear, Zenon
<1> QED BY <1>1, <1>2, <1>3, Zenon DEF IInv, Sent, Peer, Ends

(* If no packet stays on its way, or in the backlog, while its sender updates *)
(* twice, then no end is ever two key updates ahead of the other, however     *)
(* many generations there are, whoever asks for updates, and wherever a       *)
(* derivation or a decryption fails, but for the one error that crypto.c:615  *)
(* takes for the peer's update (crypto.c:541, :588-636, :770).                *)
THEOREM KeysWithinOne == MaxLate <= 1 => (Spec => []WithinOne)
<1> SUFFICES ASSUME MaxLate <= 1 PROVE Spec => []WithinOne
  BY Zenon
<1>1. IInv /\ [Next]_vars => IInv'
  BY NextIInv, Zenon
<1>2. IInv => WithinOne
  BY Zenon DEF IInv, WithinOne
<1> QED BY InitIInv, <1>1, <1>2, PTL DEF Spec
===============================================================================
