-------------------------- MODULE InboundMailProofs --------------------------
(***************************************************************************)
(* Proofs about InboundMail, for every number of sessions, addresses and   *)
(* messages, every way of writing local parts and every verdict, and about *)
(* what is shown of the mail, for every history and every table.           *)
(***************************************************************************)
EXTENDS Reports, FiniteSetTheorems, SequenceTheorems, WellFoundedInduction, TLAPS

-----------------------------------------------------------------------------
(* The inductive invariant.                                                *)

\* Sequence numbers do not grow for ever: what the trigger takes the maximum of has one.
Bounded == \E n \in Nat : \A m \in mail : m.seq <= n

\* c is the body for recipient l, sealed with public key k.
SealedBy(c, l, k) == c = Crypto!encryptEmailBody(Letter(l), k) /\ c # Crypto!Error

\* What a session knows, whose record is r, if the domain has had these keys since it
\* read the row: the key is one of them, the address it holds is its recipient's, and
\* the body was sealed with that key.
Knows(r, keys) ==
    /\ r.at \in {"verify", "address", "create", "store", "insert"} => r.key \in keys
    /\ r.at \in {"store", "insert"} /\ Live(r.addr) =>
          Lower[addr[r.addr].local] = Lower[Head(r.todo)]
    /\ r.at = "insert" => SealedBy(r.body, Head(r.todo), r.key)

Informed == \A s \in Session : Knows(session[s], seen[s])

\* Mail was sealed for a recipient that its address stands for.
Intact(m) ==
    \E l \in Local, k \in during[m] :
       SealedBy(body[m], l, k) /\ Lower[l] = Lower[addr[m.addr].local]
Kept == \A m \in mail : Intact(m)

\* Mail has a live address, and live addresses differ in their local parts.
Housed ==
    /\ \A m \in mail : Live(m.addr)
    /\ \A a, b \in Addr : Live(a) /\ Live(b) /\ addr[a].local = addr[b].local => a = b

\* An id that was never inserted is nobody's.
Unused ==
    \A a \in Addr : addr[a] = Absent =>
       /\ \A s \in Session : ~Holds(s, a)
       /\ \A m \in ever : m.addr # a

\* An address with a capital letter is known to the session that created it, until that
\* session has stored its one message there, and to nobody else.
OneWriter ==
    \A a \in Addr : Live(a) /\ Lower[addr[a].local] # addr[a].local =>
       /\ \A s, t \in Session : Holds(s, a) /\ Holds(t, a) => s = t
       /\ \A m \in ever, s \in Session : m.addr = a => ~Holds(s, a)
       /\ \A m, n \in ever : m.addr = a /\ n.addr = a => m = n

\* What a session can rely on, whose record is r and that nobody has interfered with.
Relies(r) ==
    /\ r.at \in {"verify", "address", "create"} => domain.status # "gone"
    /\ r.at = "create" /\ Lower[Head(r.todo)] = Head(r.todo) => Found(Head(r.todo)) = {}
    /\ r.at \in {"store", "insert"} => Live(r.addr)
    /\ r.at = "insert" => [addr |-> r.addr, seq |-> r.seq] \notin mail
    /\ r.at = "lost" => \/ Lower[Head(r.todo)] # Head(r.todo)
                         \/ Crypto!encryptEmailBody(Letter(Head(r.todo)), r.key) = Crypto!Error

Undisturbed == \A s \in Session : s \notin excused => Relies(session[s])

IInv ==
    /\ TypeOK /\ Bounded /\ Informed /\ Kept /\ Housed
    /\ Unused /\ OneWriter /\ Undisturbed

-----------------------------------------------------------------------------
(* Lemmas about the data.                                                  *)

\* A nonempty set of numbers has a least element.
LEMMA LeastNumber ==
    ASSUME NEW S, S \subseteq Nat, S # {}
    PROVE  \E m \in S : \A x \in S : m <= x
<1> DEFINE R == OpToRel(<, Nat)
<1>1. IsWellFoundedOn(R, Nat)
  BY NatLessThanWellFounded
<1> HIDE DEF R
<1>2. PICK m \in S : \A y \in S : ~(<<y, m>> \in R)
  BY <1>1, WFMin
<1>3. \A y \in S : ~(y < m)
  BY <1>2 DEF R, OpToRel
<1> QED  BY <1>3

\* Induction, for a property given as the set of the numbers that have it.  (The
\* library's theorem takes an operator, which the provers cannot instantiate.)
LEMMA NumberInduction ==
    ASSUME NEW S, 0 \in S, \A n \in Nat : n \in S => n + 1 \in S
    PROVE  \A n \in Nat : n \in S
<1> SUFFICES ASSUME NEW n \in Nat, n \notin S PROVE FALSE
  OBVIOUS
<1>1. PICK m \in Nat \ S : \A x \in Nat \ S : m <= x
  <2>1. Nat \ S # {} /\ Nat \ S \subseteq Nat
    OBVIOUS
  <2> QED  BY <2>1, LeastNumber
<1>2. m - 1 \in Nat /\ m - 1 \in S
  BY <1>1
<1>3. m \in S
  BY <1>2
<1> QED  BY <1>1, <1>3

\* A set of numbers with a bound has a maximum.
LEMMA MaxOfBounded ==
    ASSUME NEW S, S \subseteq Nat, S # {}, NEW n \in Nat, \A x \in S : x <= n
    PROVE  Max(S) \in S /\ \A x \in S : Max(S) >= x
<1> DEFINE T == {n - x : x \in S}
<1>1. T \subseteq Nat /\ T # {}
  <2>1. \A x \in S : n - x \in Nat
    OBVIOUS
  <2> QED  BY <2>1
<1>2. PICK t \in T : \A y \in T : t <= y
  <2> HIDE DEF T
  <2> QED  BY <1>1, LeastNumber
<1>3. PICK m \in S : t = n - m
  OBVIOUS
<1>4. \A x \in S : m >= x
  BY <1>2, <1>3
<1> QED  BY <1>4 DEF Max

\* The trigger's number is positive and is not the number of a message of the address.
LEMMA NextSequenceIsNew ==
    ASSUME TypeOK, Bounded, NEW a \in Addr
    PROVE  /\ NextSequence(a) \in Nat \ {0}
           /\ [addr |-> a, seq |-> NextSequence(a)] \notin mail
<1>1. Sequence(a) \subseteq Nat \ {0}
  BY DEF TypeOK, MailId, Sequence
<1>2. [addr |-> a, seq |-> NextSequence(a)] \in mail => NextSequence(a) \in Sequence(a)
  BY DEF Sequence
<1>3. CASE Sequence(a) = {}
  BY <1>2, <1>3 DEF NextSequence
<1>4. CASE Sequence(a) # {}
  <2>1. PICK n \in Nat : \A x \in Sequence(a) : x <= n
    BY DEF Bounded, Sequence
  <2>2. Max(Sequence(a)) \in Sequence(a) /\ \A x \in Sequence(a) : Max(Sequence(a)) >= x
    BY <1>1, <1>4, <2>1, MaxOfBounded
  <2>3. NextSequence(a) = Max(Sequence(a)) + 1 /\ Max(Sequence(a)) \in Nat
    BY <1>1, <1>4, <2>2 DEF NextSequence
  <2>4. NextSequence(a) \notin Sequence(a)
    BY <2>2, <2>3
  <2> QED  BY <1>2, <2>3, <2>4
<1> QED  BY <1>3, <1>4

\* The recipients of a message, and those that are left.
LEMMA RecipientsAreLocal ==
    ASSUME NEW to \in Recipients
    PROVE  /\ to \in Seq(Local) /\ Len(to) \in Nat \ {0} /\ Head(to) \in Local
           /\ Len(to) > 1 => Tail(to) \in Recipients
<1>1. PICK n \in 1..MaxRcpt : to \in [1..n -> Local]
  BY DEF Recipients
<1>2. n \in Nat \ {0} /\ to \in Seq(Local) /\ Len(to) = n
  BY <1>1, MailBoundAssumption
<1>3. Head(to) \in Local
  BY <1>2
<1>4. ASSUME n > 1 PROVE Tail(to) \in Recipients
  <2>1. Tail(to) \in [1..(n - 1) -> Local] /\ n - 1 \in 1..MaxRcpt
    <3>1. Tail(to) \in Seq(Local) /\ Len(Tail(to)) = n - 1
      BY <1>2, HeadTailProperties
    <3>2. n - 1 \in 1..MaxRcpt
      BY <1>4, MailBoundAssumption
    <3>3. Tail(to) \in [1..Len(Tail(to)) -> Local]
      BY <3>1, LenProperties
    <3> QED  BY <3>1, <3>2, <3>3
  <2> QED  BY <2>1 DEF Recipients
<1> QED  BY <1>2, <1>3, <1>4

\* A live row has a local part and a flag; the other two values have not.
LEMMA RowTypes ==
    /\ Absent \notin Address /\ Gone \notin Address /\ Absent # Gone
    /\ \A l, f : [local |-> l, forwarding |-> f] \notin {Absent, Gone}
<1>1. \A l, f : [local |-> l, forwarding |-> f] \notin {Absent, Gone}
  <2> SUFFICES ASSUME NEW l, NEW f PROVE [local |-> l, forwarding |-> f] \notin {Absent, Gone}
    OBVIOUS
  <2>1. /\ DOMAIN [local |-> l, forwarding |-> f] = {"local", "forwarding"}
        /\ DOMAIN Absent = {"local"} /\ DOMAIN Gone = {"local"}
    BY DEF Absent, Gone
  <2> QED  BY <2>1
<1>2. \A r \in Address : r = [local |-> r.local, forwarding |-> r.forwarding]
  BY DEF Address
<1>3. Absent # Gone
  <2>1. Absent.local = "absent" /\ Gone.local = "gone"
    BY DEF Absent, Gone
  <2> QED  BY <2>1
<1> QED  BY <1>1, <1>2, <1>3

\* The fields of a session's record.
LEMMA Fields ==
    ASSUME NEW r \in SessionState
    PROVE  /\ r.at \in {"idle", "domain", "lost", "verify", "address", "create", "store", "insert"}
           /\ r.at # "idle" => r.todo \in Recipients
           /\ r.at \in {"verify", "address", "create"} =>
                 r.auto \in BOOLEAN /\ r = [at |-> r.at, todo |-> r.todo, auto |-> r.auto, key |-> r.key]
           /\ r.at \in {"verify", "address", "create", "store", "insert", "lost"} => r.key \in PublicKey
           /\ r.at \in {"store", "insert"} => r.addr \in Addr /\ r.copy \in Address
           /\ r.at = "insert" => r.seq \in Nat \ {0} /\ r.body \in Sealed
BY DEF SessionState, Idle

-----------------------------------------------------------------------------
(* The steps keep the invariant.                                           *)

\* A session goes on to record r and the database stays as it is.
LEMMA SessionMoves ==
    ASSUME IInv, NEW s \in Session, NEW r \in SessionState, NEW keys \in SUBSET PublicKey,
           session' = [session EXCEPT ![s] = r], seen' = [seen EXCEPT ![s] = keys],
           UNCHANGED <<domain, addr, mail, body, ever, tasks, during>>, count' \in 0..MaxMail,
           excused' \subseteq Session, excused \ {s} \subseteq excused',
           Knows(r, keys),
           r.at \in {"store", "insert"} =>
              /\ addr[r.addr] # Absent
              /\ Live(r.addr) /\ Lower[addr[r.addr].local] # addr[r.addr].local => Holds(s, r.addr),
           s \notin excused' => Relies(r)
    PROVE  IInv'
<1>1. /\ session'[s] = r /\ \A t \in Session \ {s} : session'[t] = session[t]
      /\ seen'[s] = keys /\ \A t \in Session \ {s} : seen'[t] = seen[t]
  BY DEF IInv, TypeOK
<1>2. TypeOK'
  BY DEF IInv, TypeOK
<1>3. Bounded' /\ Housed'
  BY DEF IInv, Bounded, Housed, Live
<1>4. Informed'
  <2>1. \A q, k : Knows(q, k)' <=> Knows(q, k)
    BY DEF Knows, Live
  <2> QED  BY <1>1, <2>1 DEF IInv, Informed
<1>k. Kept'
  BY DEF IInv, Kept, Intact
<1>5. \A a \in Addr : Live(a)' <=> Live(a)
  BY DEF Live
<1>6. \A t \in Session, a \in Addr :
         Holds(t, a)' => Holds(t, a) \/ (t = s /\ r.at \in {"store", "insert"} /\ r.addr = a)
  BY <1>1 DEF Holds
<1>7. Unused'
  BY <1>6 DEF IInv, Unused
<1>8. OneWriter'
  BY <1>5, <1>6 DEF IInv, OneWriter
<1>9. \A q : Relies(q)' <=> Relies(q)
  BY DEF Relies, Found, Live
<1>10. Undisturbed'
  BY <1>1, <1>9 DEF IInv, Undisturbed
<1> QED  BY <1>2, <1>3, <1>4, <1>k, <1>7, <1>8, <1>10 DEF IInv

\* What stands beside a session that has read the domain's row.
LEMMA SessionFacts ==
    ASSUME IInv, NEW s \in Session
    PROVE  /\ session[s] \in SessionState /\ seen[s] \in SUBSET PublicKey
           /\ seen = [seen EXCEPT ![s] = seen[s]]
           /\ count \in 0..MaxMail /\ excused \subseteq Session
           /\ Knows(session[s], seen[s])
           /\ s \notin excused => Relies(session[s])
BY DEF IInv, TypeOK, Informed, Undisturbed

LEMMA AfterIsState ==
    ASSUME TypeOK, NEW s \in Session, ~At(s, "idle")
    PROVE  After(s) \in SessionState /\ After(s).at \in {"domain", "idle"}
<1>1. session[s] \in SessionState
  BY DEF TypeOK
<1>2. Todo(s) \in Recipients
  BY <1>1, Fields DEF Todo, At
<1> QED  BY <1>2, RecipientsAreLocal DEF After, SessionState, Idle

\* processEmail returns, whatever it did, and nothing in the database has changed.
LEMMA SettleStep ==
    ASSUME IInv, NEW s \in Session, ~At(s, "idle"), Settle(s),
           UNCHANGED <<domain, addr, mail, body, ever, tasks, during, count>>
    PROVE  IInv'
<1>1. After(s) \in SessionState /\ After(s).at \in {"domain", "idle"}
  BY AfterIsState DEF IInv
<1>2. /\ session' = [session EXCEPT ![s] = After(s)] /\ excused' = excused \ {s}
      /\ seen' = [seen EXCEPT ![s] = {}]
  BY DEF Settle, Become
<1>3. Relies(After(s)) /\ Knows(After(s), {})
  BY <1>1 DEF Relies, Knows
<1>4. count' \in 0..MaxMail /\ excused' \subseteq Session /\ {} \in SUBSET PublicKey
  BY <1>2 DEF IInv, TypeOK
<1> QED  BY <1>1, <1>2, <1>3, <1>4, SessionMoves

\* The record of a session that has lost its message.
Dropped(s) == [at |-> "lost", todo |-> Todo(s), key |-> session[s].key]

\* The message is lost and nothing in the database has changed.
LEMMA DropStep ==
    ASSUME IInv, NEW s \in Session, s \in Working, Drop(s),
           UNCHANGED <<domain, addr, mail, body, ever, tasks, during, count>>,
           excused' = excused \/ excused' = excused \cup {s},
           s \notin excused' => Relies(Dropped(s))
    PROVE  IInv'
<1>1. session[s] \in SessionState /\ count \in 0..MaxMail /\ excused \subseteq Session
  BY SessionFacts
<1>2. session[s].todo \in Recipients /\ session[s].key \in PublicKey
  BY <1>1, Fields DEF Working
<1>3. Dropped(s) \in SessionState /\ Dropped(s).at = "lost"
  BY <1>2 DEF Dropped, SessionState, Todo
<1>4. Knows(Dropped(s), {})
  BY <1>3 DEF Knows
<1>5. session' = [session EXCEPT ![s] = Dropped(s)] /\ seen' = [seen EXCEPT ![s] = {}]
  BY DEF Drop, Become, Dropped
<1>6. /\ count' \in 0..MaxMail /\ {} \in SUBSET PublicKey
      /\ excused' \subseteq Session /\ excused \ {s} \subseteq excused'
  BY <1>1
<1> QED  BY <1>3, <1>4, <1>5, <1>6, SessionMoves

\* The steps of a session up to the lookup of its recipient.
LEMMA ArrivalStep ==
    ASSUME IInv, NEW s \in Session,
           (\E to \in Recipients : Data(s, to)) \/ GetDomainByName(s) \/ Verify(s) \/ Lose(s)
    PROVE  IInv'
<1>0. /\ session[s] \in SessionState /\ count \in 0..MaxMail /\ excused \subseteq Session
      /\ domain.auto \in BOOLEAN /\ domain.key \in PublicKey
      /\ seen[s] \in SUBSET PublicKey /\ seen = [seen EXCEPT ![s] = seen[s]]
      /\ Knows(session[s], seen[s]) /\ (s \notin excused => Relies(session[s]))
  BY SessionFacts DEF IInv, TypeOK
<1>1. ASSUME NEW to \in Recipients, Data(s, to) PROVE IInv'
  <2> DEFINE r == [at |-> "domain", todo |-> to]
  <2>1. r \in SessionState /\ Relies(r) /\ Knows(r, seen[s]) /\ r.at = "domain"
    BY DEF SessionState, Relies, Knows
  <2>2. count' \in 0..MaxMail
    BY <1>0, <1>1, RecipientsAreLocal, MailBoundAssumption DEF Data
  <2>3. /\ session' = [session EXCEPT ![s] = r] /\ seen' = seen
        /\ UNCHANGED <<domain, addr, mail, body, ever, tasks, during, excused>>
    BY <1>1 DEF Data, Become
  <2> HIDE DEF r
  <2> QED  BY <1>0, <2>1, <2>2, <2>3, SessionMoves
<1>2. CASE GetDomainByName(s)
  <2> DEFINE r == [at |-> "verify", todo |-> Todo(s), auto |-> domain.auto, key |-> domain.key]
             keys == {domain.key}
  <2>1. CASE domain.status = "verified" /\ Become(s, r) /\ seen' = [seen EXCEPT ![s] = keys] /\ UNCHANGED excused
    <3>1. Todo(s) \in Recipients
      BY <1>0, <1>2, Fields DEF GetDomainByName, At, Todo
    <3>2. r \in SessionState /\ Relies(r) /\ Knows(r, keys) /\ r.at = "verify" /\ keys \in SUBSET PublicKey
      BY <1>0, <2>1, <3>1 DEF SessionState, Relies, Knows
    <3>3. /\ session' = [session EXCEPT ![s] = r]
          /\ UNCHANGED <<domain, addr, mail, body, ever, tasks, during, excused, count>>
      BY <1>2, <2>1 DEF GetDomainByName, Become
    <3> HIDE DEF r, keys
    <3> QED  BY <1>0, <2>1, <3>2, <3>3, SessionMoves
  <2>2. CASE Settle(s)
    BY <1>2, <2>2, SettleStep DEF GetDomainByName, At
  <2> QED  BY <1>2, <2>1, <2>2 DEF GetDomainByName
<1>3. CASE Verify(s)
  <2> DEFINE r == [session[s] EXCEPT !.at = "address"]
  <2>1. CASE Become(s, r) /\ UNCHANGED <<seen, excused>>
    <3>1. session[s].at = "verify"
      BY <1>3 DEF Verify, At
    <3>2. /\ session[s].todo \in Recipients /\ session[s].auto \in BOOLEAN /\ session[s].key \in PublicKey
          /\ session[s] = [at |-> "verify", todo |-> session[s].todo, auto |-> session[s].auto,
                           key |-> session[s].key]
      BY <1>0, <3>1, Fields
    <3>3. r = [at |-> "address", todo |-> session[s].todo, auto |-> session[s].auto, key |-> session[s].key]
      BY <3>2
    <3>4. r \in SessionState /\ r.at = "address" /\ Knows(r, seen[s])
      BY <1>0, <3>1, <3>2, <3>3 DEF SessionState, Knows
    <3>5. s \notin excused => Relies(r)
      BY <1>0, <3>1, <3>4 DEF Relies
    <3>6. /\ session' = [session EXCEPT ![s] = r]
          /\ UNCHANGED <<domain, addr, mail, body, ever, tasks, seen, during, excused, count>>
      BY <1>3, <2>1 DEF Verify, Become
    <3> HIDE DEF r
    <3> QED  BY <1>0, <3>4, <3>5, <3>6, SessionMoves
  <2>2. CASE Settle(s)
    BY <1>3, <2>2, SettleStep DEF Verify, At
  <2> QED  BY <1>3, <2>1, <2>2 DEF Verify
<1>4. CASE Lose(s)
  BY <1>4, SettleStep DEF Lose, At
<1> QED  BY <1>1, <1>2, <1>3, <1>4

\* The lookup.  What it finds has a lower-case local part; what it does not find
\* although it looked is not there.
LEMMA LookUpStep ==
    ASSUME IInv, NEW s \in Session, LookUp(s)
    PROVE  IInv'
<1>0. /\ session[s] \in SessionState /\ count \in 0..MaxMail /\ excused \subseteq Session
      /\ seen[s] \in SUBSET PublicKey /\ seen = [seen EXCEPT ![s] = seen[s]]
      /\ Knows(session[s], seen[s]) /\ (s \notin excused => Relies(session[s]))
      /\ session[s].at = "address" /\ s \in Working
  BY SessionFacts DEF LookUp, At, Working
<1>1. /\ session[s].todo \in Recipients /\ session[s].auto \in BOOLEAN /\ session[s].key \in PublicKey
      /\ session[s] = [at |-> "address", todo |-> session[s].todo, auto |-> session[s].auto,
                       key |-> session[s].key]
      /\ Recipient(s) \in Local
  BY <1>0, Fields, RecipientsAreLocal DEF Recipient, Todo
<1>k. session[s].key \in seen[s]
  BY <1>0 DEF Knows
<1>2. UNCHANGED <<domain, addr, mail, body, ever, tasks, during, count>>
  BY DEF LookUp
<1> DEFINE known == GetEmailAddressByAddress(Recipient(s))
<1>3. ASSUME NEW a \in known,
             Become(s, [at |-> "store", todo |-> Todo(s), key |-> session[s].key, addr |-> a, copy |-> addr[a]]),
             UNCHANGED <<seen, excused>>
      PROVE  IInv'
  <2> DEFINE r == [at |-> "store", todo |-> Todo(s), key |-> session[s].key, addr |-> a, copy |-> addr[a]]
  <2>1. a \in Addr /\ Live(a) /\ addr[a].local = Lower[Recipient(s)]
    BY <1>3 DEF GetEmailAddressByAddress, Found
  <2>2. addr[a] \in Address /\ addr[a] # Absent
    BY <2>1 DEF Live, IInv, TypeOK
  <2>3. Lower[addr[a].local] = addr[a].local
    BY <1>1, <2>1, LowerAssumption
  <2>4. r \in SessionState /\ Relies(r) /\ r.at = "store" /\ r.addr = a
    BY <1>1, <2>1, <2>2 DEF SessionState, Relies, Todo
  <2>5. Knows(r, seen[s])
    BY <1>k, <2>1, <2>3, <2>4 DEF Knows, Recipient
  <2>6. session' = [session EXCEPT ![s] = r]
    BY <1>3 DEF Become
  <2> HIDE DEF r
  <2> QED  BY <1>0, <1>2, <1>3, <2>2, <2>3, <2>4, <2>5, <2>6, SessionMoves
<1>4. ASSUME Become(s, [session[s] EXCEPT !.at = "create"]),
             excused' = IF known # {} THEN excused \cup {s} ELSE excused,
             UNCHANGED seen
      PROVE  IInv'
  <2> DEFINE r == [session[s] EXCEPT !.at = "create"]
  <2>1. r = [at |-> "create", todo |-> session[s].todo, auto |-> session[s].auto, key |-> session[s].key]
    BY <1>1
  <2>2. r \in SessionState /\ r.at = "create" /\ Head(r.todo) = Recipient(s) /\ Knows(r, seen[s])
    BY <1>1, <1>k, <2>1 DEF SessionState, Recipient, Todo, Knows
  <2>3. s \notin excused' => s \notin excused /\ Found(Lower[Recipient(s)]) = {}
    BY <1>4 DEF GetEmailAddressByAddress
  <2>4. s \notin excused' => Relies(r)
    BY <1>0, <2>2, <2>3 DEF Relies
  <2>5. session' = [session EXCEPT ![s] = r]
    BY <1>4 DEF Become
  <2>6. excused' \subseteq Session /\ excused \ {s} \subseteq excused'
    BY <1>0, <1>4
  <2> HIDE DEF r
  <2> QED  BY <1>0, <1>2, <1>4, <2>2, <2>4, <2>5, <2>6, SessionMoves
<1>5. CASE Settle(s)
  BY <1>0, <1>2, <1>5, SettleStep DEF At
<1>6. CASE Drop(s) /\ excused' = excused \cup {s}
  BY <1>0, <1>2, <1>6, DropStep
<1> QED  BY <1>3, <1>4, <1>5, <1>6 DEF LookUp

\* encryptEmailBody and the trigger.  The number the trigger gives is free; a key that
\* cannot encrypt is the other way for a message to get lost.
LEMMA EncryptStep ==
    ASSUME IInv, NEW s \in Session, Encrypt(s)
    PROVE  IInv'
<1>0. /\ session[s] \in SessionState /\ count \in 0..MaxMail /\ excused \subseteq Session
      /\ seen[s] \in SUBSET PublicKey /\ seen = [seen EXCEPT ![s] = seen[s]]
      /\ Knows(session[s], seen[s]) /\ (s \notin excused => Relies(session[s]))
      /\ session[s].at = "store" /\ s \in Working
  BY SessionFacts DEF Encrypt, At, Working
<1>1. /\ session[s].todo \in Recipients /\ session[s].addr \in Addr /\ session[s].copy \in Address
      /\ session[s].key \in PublicKey /\ Recipient(s) \in Local
  BY <1>0, Fields, RecipientsAreLocal DEF Recipient, Todo
<1>2. UNCHANGED <<domain, addr, mail, body, ever, tasks, during, excused, count>>
  BY DEF Encrypt
<1> DEFINE a == session[s].addr
           r == [at |-> "insert", todo |-> Todo(s), key |-> session[s].key, addr |-> a,
                 copy |-> session[s].copy, seq |-> NextSequence(a), body |-> encryptEmailBody(s)]
<1>3. CASE encryptEmailBody(s) # Crypto!Error /\ Become(s, r) /\ UNCHANGED seen
  <2>1. NextSequence(a) \in Nat \ {0} /\ [addr |-> a, seq |-> NextSequence(a)] \notin mail
    BY <1>1, NextSequenceIsNew DEF IInv
  <2>c. encryptEmailBody(s) \in Sealed
    BY <1>1, <1>3 DEF Sealed, encryptEmailBody
  <2>2. /\ r \in SessionState /\ r.at = "insert" /\ r.addr = a /\ r.seq = NextSequence(a)
        /\ r.key = session[s].key /\ r.todo = session[s].todo /\ r.body = encryptEmailBody(s)
    BY <1>1, <2>1, <2>c DEF SessionState, Todo
  <2> HIDE DEF r
  <2>3. Knows(r, seen[s])
    BY <1>0, <1>3, <2>2 DEF Knows, SealedBy, encryptEmailBody, Recipient, Todo
  <2>4. Holds(s, a) /\ addr[a] # Absent
    BY <1>0, <1>1 DEF Holds, IInv, Unused
  <2>5. session' = [session EXCEPT ![s] = r]
    BY <1>3 DEF Become
  <2>6. s \notin excused => Relies(r)
    BY <1>0, <2>1, <2>2 DEF Relies
  <2> QED  BY <1>0, <1>2, <1>3, <2>2, <2>3, <2>4, <2>5, <2>6, SessionMoves
<1>4. CASE encryptEmailBody(s) = Crypto!Error /\ Drop(s)
  <2>1. Relies(Dropped(s))
    BY <1>4 DEF Relies, Dropped, encryptEmailBody, Recipient
  <2> QED  BY <1>0, <1>2, <1>4, <2>1, DropStep
<1> QED  BY <1>3, <1>4 DEF Encrypt

\* A row is inserted into email_addresses: UNIQUE (domain_id, local_part) held.
LEMMA AddressAdded ==
    ASSUME IInv, NEW a \in Addr, NEW l \in Local, NEW f \in BOOLEAN,
           Insertable(l), InsertAddress(a, l, f), UNCHANGED mail
    PROVE  /\ addr' \in [Addr -> Address \cup {Absent, Gone}]
           /\ addr[a] = Absent /\ addr'[a] = [local |-> l, forwarding |-> f]
           /\ addr'[a].local = l /\ addr'[a] \in Address /\ Live(a)'
           /\ \A b \in Addr \ {a} : addr'[b] = addr[b]
           /\ \A b \in Addr \ {a} : Live(b)' <=> Live(b)
           /\ Housed'
<1>1. /\ addr \in [Addr -> Address \cup {Absent, Gone}] /\ addr[a] = Absent
      /\ addr' = [addr EXCEPT ![a] = [local |-> l, forwarding |-> f]]
  BY DEF IInv, TypeOK, InsertAddress
<1>2. [local |-> l, forwarding |-> f] \in Address
  BY DEF Address
<1>3. /\ addr' \in [Addr -> Address \cup {Absent, Gone}]
      /\ addr'[a] = [local |-> l, forwarding |-> f]
      /\ \A b \in Addr \ {a} : addr'[b] = addr[b]
  BY <1>1, <1>2
<1>4. Live(a)' /\ ~Live(a) /\ addr'[a].local = l
  BY <1>1, <1>3, RowTypes DEF Live
<1>5. \A b \in Addr \ {a} : Live(b)' <=> Live(b)
  BY <1>3 DEF Live
<1>6. \A b \in Addr : Live(b) => addr[b].local # l
  BY DEF Insertable, Found
<1>7. \A m \in mail : m.addr \in Addr
  BY DEF IInv, TypeOK, MailId
<1>8. Housed'
  BY <1>3, <1>4, <1>5, <1>6, <1>7 DEF IInv, Housed
<1> QED  BY <1>1, <1>2, <1>3, <1>4, <1>5, <1>8

\* Mail is not disturbed by changes to the address book that leave its address alone.
LEMMA KeptStays ==
    ASSUME IInv, UNCHANGED <<mail, body, during>>,
           \A m \in mail : Live(m.addr) => addr'[m.addr].local = addr[m.addr].local
    PROVE  Kept'
BY DEF IInv, Kept, Intact, Housed

\* The session creates the address of its recipient, is refused, or fails.
LEMMA CreateStep ==
    ASSUME IInv, NEW s \in Session, CreateEmailAddress(s)
    PROVE  IInv'
<1>0. /\ session[s] \in SessionState /\ count \in 0..MaxMail /\ excused \subseteq Session
      /\ seen[s] \in SUBSET PublicKey /\ Knows(session[s], seen[s])
      /\ (s \notin excused => Relies(session[s]))
      /\ session[s].at = "create" /\ s \in Working
  BY SessionFacts DEF CreateEmailAddress, At, Working
<1>1. session[s].todo \in Recipients /\ Recipient(s) \in Local /\ session[s].key \in PublicKey
  BY <1>0, Fields, RecipientsAreLocal DEF Recipient, Todo
<1>2. UNCHANGED <<domain, mail, body, ever, tasks, during, count>>
  BY DEF CreateEmailAddress
<1>3. ASSUME NEW a \in Addr, Insertable(Recipient(s)), InsertAddress(a, Recipient(s), FALSE),
             Become(s, [at |-> "store", todo |-> Todo(s), key |-> session[s].key, addr |-> a, copy |-> addr'[a]]),
             excused' = excused \cup (Creating(Recipient(s)) \ {s}), UNCHANGED seen
      PROVE  IInv'
  <2> DEFINE r == [at |-> "store", todo |-> Todo(s), key |-> session[s].key, addr |-> a, copy |-> addr'[a]]
  <2>1. /\ addr' \in [Addr -> Address \cup {Absent, Gone}]
        /\ addr[a] = Absent /\ addr'[a] # Absent /\ addr'[a].local = Recipient(s)
        /\ addr'[a] \in Address /\ Live(a)'
        /\ \A b \in Addr \ {a} : addr'[b] = addr[b]
        /\ \A b \in Addr \ {a} : Live(b)' <=> Live(b)
        /\ Housed'
    BY <1>1, <1>2, <1>3, AddressAdded, RowTypes
  <2>2. r \in SessionState /\ r.at = "store" /\ r.addr = a /\ r.todo = session[s].todo /\ r.key = session[s].key
    BY <1>1, <2>1 DEF SessionState, Todo
  <2>3. /\ session' \in [Session -> SessionState] /\ session'[s] = r
        /\ \A t \in Session \ {s} : session'[t] = session[t]
    BY <1>3, <2>2 DEF Become, IInv, TypeOK
  <2> HIDE DEF r
  <2>4. TypeOK'
    BY <1>2, <1>3, <2>1, <2>3 DEF IInv, TypeOK, Creating
  <2>5. Bounded'
    BY <1>2 DEF IInv, Bounded
  <2>6. /\ \A t \in Session : Holds(t, a)' => t = s
        /\ \A t \in Session, b \in Addr \ {a} : Holds(t, b)' => Holds(t, b)
        /\ \A t \in Session : ~Holds(t, a)
    BY <2>1, <2>2, <2>3 DEF Holds, IInv, Unused
  <2>7. \A m \in ever : m.addr # a
    BY <2>1 DEF IInv, Unused
  <2>k. Kept'
    <3>1. \A m \in mail : m.addr \in Addr \ {a}
      BY <2>7 DEF IInv, TypeOK, MailId
    <3> QED  BY <1>2, <2>1, <3>1, KeptStays
  <2>i. Informed'
    <3>1. Knows(session[s], seen[s])'
      BY <1>0, <1>3, <2>1, <2>2, <2>3 DEF Knows, Recipient, Todo
    <3>2. ASSUME NEW t \in Session \ {s} PROVE Knows(session[t], seen[t])'
      <4>1. Knows(session[t], seen[t]) /\ session[t] \in SessionState /\ session'[t] = session[t]
        BY <2>3, SessionFacts
      <4>2. session[t].at \in {"store", "insert"} => session[t].addr \in Addr \ {a}
        BY <2>6, <4>1, Fields DEF Holds
      <4> QED  BY <1>3, <2>1, <4>1, <4>2 DEF Knows
    <3> QED  BY <3>1, <3>2 DEF Informed
  <2>8. Unused'
    BY <1>2, <2>1, <2>6 DEF IInv, Unused
  <2>9. OneWriter'
    BY <1>2, <2>1, <2>6, <2>7 DEF IInv, OneWriter
  <2>10. Relies(session[s])'
    BY <2>1, <2>2, <2>3 DEF Relies
  <2>11. ASSUME NEW t \in Session \ {s}, t \notin excused' PROVE Relies(session[t])'
    <3>1. /\ t \notin excused /\ Relies(session[t]) /\ session[t] \in SessionState
          /\ session'[t] = session[t] /\ t \notin Creating(Recipient(s))
      BY <1>3, <2>3, <2>11, SessionFacts
    <3>2. session[t].at \in {"store", "insert"} => session[t].addr \in Addr \ {a}
      BY <2>6, <3>1, Fields DEF Holds
    <3>3. session[t].at = "create" => Head(session[t].todo) # Recipient(s)
      BY <3>1 DEF Creating, Recipient, Todo
    <3>4. \A l : l # Recipient(s) /\ Found(l) = {} => Found(l)' = {}
      BY <2>1 DEF Found
    <3> QED  BY <1>2, <2>1, <3>1, <3>2, <3>3, <3>4 DEF Relies
  <2>12. Undisturbed'
    BY <2>10, <2>11 DEF Undisturbed
  <2> QED  BY <2>1, <2>4, <2>5, <2>k, <2>i, <2>8, <2>9, <2>12 DEF IInv
<1>4. CASE ~Insertable(Recipient(s)) /\ Drop(s) /\ UNCHANGED <<addr, excused>>
  <2>1. s \notin excused => Relies(Dropped(s))
    BY <1>0, <1>4 DEF Relies, Dropped, Insertable, Recipient, Todo
  <2> QED  BY <1>0, <1>2, <1>4, <2>1, DropStep
<1>5. CASE Drop(s) /\ excused' = excused \cup {s} /\ UNCHANGED addr
  BY <1>0, <1>2, <1>5, DropStep
<1> QED  BY <1>3, <1>4, <1>5 DEF CreateEmailAddress

\* The INSERT into received_emails.  A session that holds a mixed-case address is the
\* only one and lets go of it here.
LEMMA InsertStep ==
    ASSUME IInv, NEW s \in Session, ProcessIncomingEmail(s)
    PROVE  IInv'
<1>0. /\ session[s] \in SessionState /\ count \in 0..MaxMail /\ excused \subseteq Session
      /\ seen[s] \in SUBSET PublicKey /\ Knows(session[s], seen[s])
      /\ (s \notin excused => Relies(session[s]))
      /\ session[s].at = "insert" /\ s \in Working
  BY SessionFacts DEF ProcessIncomingEmail, At, Working
<1>1. /\ session[s].todo \in Recipients /\ session[s].addr \in Addr
      /\ session[s].copy \in Address /\ session[s].seq \in Nat \ {0}
      /\ session[s].body \in Sealed /\ Recipient(s) \in Local
  BY <1>0, Fields, RecipientsAreLocal DEF Recipient, Todo
<1>2. UNCHANGED <<domain, addr, count>>
  BY DEF ProcessIncomingEmail
<1> DEFINE a == session[s].addr
           m == [addr |-> a, seq |-> session[s].seq]
<1>3. m \in MailId /\ m.addr = a /\ m.seq = session[s].seq
  BY <1>1 DEF MailId
<1>4. CASE /\ Live(m.addr) /\ m \notin mail
           /\ InsertMail(m, session[s].body, seen[s])
           /\ tasks' = tasks \cup {Started(m, session[s].copy)}
           /\ Become(s, After(s))
           /\ seen' = [seen EXCEPT ![s] = {}]
           /\ excused' = (excused \cup {t \in Session \ {s} :
                             session[t].at = "insert" /\ session[t].addr = m.addr}) \ {s}
  <2>1. After(s) \in SessionState /\ After(s).at \in {"domain", "idle"}
    BY <1>0, AfterIsState DEF IInv, At
  <2>2. /\ session' \in [Session -> SessionState] /\ session'[s] = After(s)
        /\ \A t \in Session \ {s} : session'[t] = session[t]
    BY <1>4, <2>1 DEF Become, IInv, TypeOK
  <2>3. Started(m, session[s].copy) \in [mail : MailId, forward : BOOLEAN]
    BY <1>1, <1>3 DEF Started, HasForwarding, Address
  <2>m. mail' = mail \cup {m} /\ ever' = ever \cup {m}
    BY <1>4 DEF InsertMail
  <2>b. /\ body' \in [mail' -> Sealed] /\ during' \in [mail' -> SUBSET PublicKey]
        /\ body'[m] = session[s].body /\ during'[m] = seen[s]
        /\ \A n \in mail : body'[n] = body[n] /\ during'[n] = during[n]
    BY <1>0, <1>1, <1>4, <2>m DEF InsertMail, Extended, IInv, TypeOK
  <2> HIDE DEF m
  <2>s. /\ seen' \in [Session -> SUBSET PublicKey] /\ seen'[s] = {}
        /\ \A t \in Session \ {s} : seen'[t] = seen[t]
    BY <1>4 DEF IInv, TypeOK
  <2>4. TypeOK'
    BY <1>2, <1>3, <1>4, <2>2, <2>3, <2>m, <2>b, <2>s DEF IInv, TypeOK
  <2>5. Bounded'
    <3>1. PICK n \in Nat : \A x \in mail : x.seq <= n
      BY DEF IInv, Bounded
    <3>2. PICK k \in Nat : n <= k /\ m.seq <= k
      BY <1>1, <1>3
    <3>3. \A x \in mail : x.seq \in Nat
      BY DEF IInv, TypeOK, MailId
    <3>4. \A x \in mail' : x.seq <= k
      BY <2>m, <3>1, <3>2, <3>3
    <3> QED  BY <3>4 DEF Bounded
  <2>k. Kept'
    <3>1. Lower[addr[a].local] = Lower[Recipient(s)] /\ session[s].key \in seen[s]
          /\ SealedBy(session[s].body, Recipient(s), session[s].key)
      BY <1>0, <1>3, <1>4 DEF Knows, Recipient, Todo
    <3>2. PICK x \in MailId : x = m
      BY <1>3
    <3>3. Intact(x)'
      BY <1>1, <1>2, <1>3, <2>b, <3>1, <3>2 DEF Intact
    <3>4. \A n \in mail : Intact(n)'
      BY <1>2, <2>b DEF IInv, Kept, Intact
    <3>5. mail' = mail \cup {x}
      BY <2>m, <3>2
    <3> QED  BY <3>3, <3>4, <3>5 DEF Kept
  <2>i. Informed'
    <3>1. Knows(session[s], seen[s])'
      BY <2>1, <2>2 DEF Knows
    <3>2. \A t \in Session \ {s} : Knows(session[t], seen[t])'
      BY <1>2, <2>2, <2>s DEF IInv, Informed, Knows, Live
    <3> QED  BY <3>1, <3>2 DEF Informed
  <2>7. Housed'
    BY <1>2, <1>4, <2>m DEF IInv, Housed, Live
  <2>8. /\ \A t \in Session, b \in Addr : Holds(t, b)' => Holds(t, b) /\ t # s
        /\ \A b \in Addr : Live(b)' <=> Live(b)
    BY <1>2, <2>1, <2>2 DEF Holds, Live
  <2>9. Unused'
    BY <1>2, <1>3, <1>4, <2>8, <2>m DEF IInv, Unused, Live
  <2>10. Holds(s, a)
    BY <1>0 DEF Holds
  <2>11. OneWriter'
    <3> SUFFICES ASSUME NEW b \in Addr, Live(b), Lower[addr[b].local] # addr[b].local
                 PROVE  /\ \A t, u \in Session : Holds(t, b)' /\ Holds(u, b)' => t = u
                        /\ \A x \in ever', t \in Session : x.addr = b => ~Holds(t, b)'
                        /\ \A x, y \in ever' : x.addr = b /\ y.addr = b => x = y
      BY <1>2, <2>8 DEF OneWriter
    <3>1. /\ \A t, u \in Session : Holds(t, b) /\ Holds(u, b) => t = u
          /\ \A x \in ever, t \in Session : x.addr = b => ~Holds(t, b)
          /\ \A x, y \in ever : x.addr = b /\ y.addr = b => x = y
      BY DEF IInv, OneWriter
    <3>2. CASE b = a
      <4>1. \A x \in ever : x.addr # b
        BY <2>10, <3>1, <3>2
      <4>2. \A t \in Session : ~Holds(t, b)'
        BY <2>8, <2>10, <3>1, <3>2
      <4> QED  BY <2>m, <4>1, <4>2
    <3>3. CASE b # a
      BY <1>3, <2>8, <2>m, <3>1, <3>3
    <3> QED  BY <3>2, <3>3
  <2>12. Relies(session[s])'
    BY <2>1, <2>2 DEF Relies
  <2>13. ASSUME NEW t \in Session \ {s}, t \notin excused' PROVE Relies(session[t])'
    <3>1. t \notin excused /\ ~(session[t].at = "insert" /\ session[t].addr = a)
      BY <1>3, <1>4, <2>13
    <3>2. Relies(session[t])
      BY <3>1 DEF IInv, Undisturbed
    <3>3. session[t].at = "insert" => [addr |-> session[t].addr, seq |-> session[t].seq] # m
      BY <1>3, <3>1
    <3> QED  BY <1>2, <2>2, <2>m, <3>2, <3>3 DEF Relies, Found, Live
  <2>14. Undisturbed'
    BY <2>12, <2>13 DEF Undisturbed
  <2> QED  BY <2>4, <2>5, <2>k, <2>i, <2>7, <2>9, <2>11, <2>14 DEF IInv
<1>5. CASE ~(Live(m.addr) /\ m \notin mail) /\ Drop(s)
           /\ UNCHANGED <<mail, body, ever, tasks, during, excused>>
  <2>1. s \in excused
    BY <1>0, <1>5 DEF Relies
  <2> QED  BY <1>0, <1>2, <1>5, <2>1, DropStep
<1>6. CASE Drop(s) /\ excused' = excused \cup {s} /\ UNCHANGED <<mail, body, ever, tasks, during>>
  BY <1>0, <1>2, <1>6, DropStep
<1> QED  BY <1>4, <1>5, <1>6 DEF ProcessIncomingEmail

\* The owner posts an address.
LEMMA PostStep ==
    ASSUME IInv, NEW l \in Local, NEW f \in BOOLEAN, PostEmailAddress(l, f)
    PROVE  IInv'
<1>1. PICK a \in Addr : InsertAddress(a, Lower[l], f)
  BY DEF PostEmailAddress, CreateEmailAddressFromInput
<1>2. /\ Insertable(Lower[l]) /\ Lower[l] \in Local /\ excused' = excused \cup Creating(Lower[l])
      /\ UNCHANGED <<domain, mail, body, ever, session, tasks, seen, during, count>>
  BY LowerAssumption DEF PostEmailAddress, CreateEmailAddressFromInput
<1>3. /\ addr' \in [Addr -> Address \cup {Absent, Gone}]
      /\ addr[a] = Absent /\ addr'[a] # Absent /\ addr'[a].local = Lower[l]
      /\ \A b \in Addr \ {a} : addr'[b] = addr[b]
      /\ \A b \in Addr \ {a} : Live(b)' <=> Live(b)
      /\ Housed'
  <2>1. Insertable(Lower[l]) /\ Lower[l] \in Local /\ UNCHANGED mail
    BY <1>2
  <2>2. addr'[a] = [local |-> Lower[l], forwarding |-> f] => addr'[a] # Absent
    BY RowTypes
  <2> QED  BY <1>1, <2>1, <2>2, AddressAdded
<1>4. TypeOK'
  BY <1>2, <1>3 DEF IInv, TypeOK, Creating
<1>5. Bounded'
  BY <1>2 DEF IInv, Bounded
<1>6. \A t \in Session, b \in Addr : Holds(t, b)' <=> Holds(t, b)
  BY <1>2 DEF Holds
<1>7. Unused'
  BY <1>2, <1>3, <1>6 DEF IInv, Unused
<1>8. (\A t \in Session : ~Holds(t, a)) /\ (\A m \in ever : m.addr # a)
  BY <1>3 DEF IInv, Unused
<1>9. OneWriter'
  BY <1>2, <1>3, <1>6, <1>8 DEF IInv, OneWriter
<1>h. ASSUME NEW t \in Session
      PROVE  /\ session[t] \in SessionState /\ Knows(session[t], seen[t])
             /\ session[t].at \in {"store", "insert"} => session[t].addr \in Addr \ {a}
  BY <1>8, Fields, SessionFacts DEF Holds
<1>i. Informed'
  BY <1>2, <1>3, <1>h DEF Informed, Knows
<1>k. Kept'
  <2>1. \A m \in mail : m.addr \in Addr \ {a}
    BY <1>8 DEF IInv, TypeOK, MailId
  <2> QED  BY <1>2, <1>3, <2>1, KeptStays
<1>10. ASSUME NEW t \in Session, t \notin excused' PROVE Relies(session[t])'
  <2>1. Relies(session[t]) /\ t \notin Creating(Lower[l])
    BY <1>2, <1>10, SessionFacts
  <2>2. session[t].at = "create" => Head(session[t].todo) # Lower[l]
    BY <2>1 DEF Creating, Recipient, Todo
  <2>3. \A x : x # Lower[l] /\ Found(x) = {} => Found(x)' = {}
    BY <1>3 DEF Found
  <2> QED  BY <1>2, <1>3, <1>h, <2>1, <2>2, <2>3 DEF Relies
<1>11. Undisturbed'
  BY <1>10 DEF Undisturbed
<1> QED  BY <1>3, <1>4, <1>5, <1>i, <1>k, <1>7, <1>9, <1>11 DEF IInv

\* The owner changes the forwarding of an address: its local part stays.
LEMMA PutStep ==
    ASSUME IInv, NEW a \in Addr, NEW f \in BOOLEAN, PutEmailAddress(a, f)
    PROVE  IInv'
<1>1. /\ Live(a) /\ addr' = [addr EXCEPT ![a] = [addr[a] EXCEPT !.forwarding = f]]
      /\ UNCHANGED <<domain, mail, body, ever, session, tasks, seen, during, excused, count>>
  BY DEF PutEmailAddress, UpdateEmailAddress, UpdateAddress
<1>2. addr[a] \in Address
  BY <1>1 DEF IInv, TypeOK, Live
<1>3. addr'[a] = [local |-> addr[a].local, forwarding |-> f] /\ addr'[a] \in Address
  BY <1>1, <1>2 DEF IInv, TypeOK, Address
<1>4. \A b \in Addr \ {a} : addr'[b] = addr[b]
  BY <1>1 DEF IInv, TypeOK
<1>5. \A b \in Addr : /\ Live(b)' <=> Live(b)
                      /\ Live(b) => addr'[b].local = addr[b].local
                      /\ addr'[b] = Absent => addr[b] = Absent
  BY <1>1, <1>3, <1>4, RowTypes DEF Live
<1>6. TypeOK'
  BY <1>1, <1>3 DEF IInv, TypeOK
<1>7. Bounded'
  BY <1>1 DEF IInv, Bounded
<1>8. \A m \in mail : m.addr \in Addr
  BY DEF IInv, TypeOK, MailId
<1>k. Kept'
  BY <1>1, <1>5, <1>8, KeptStays
<1>i. ASSUME NEW t \in Session PROVE Knows(session[t], seen[t])'
  <2>1. session[t] \in SessionState /\ Knows(session[t], seen[t])
    BY SessionFacts
  <2>2. session[t].at \in {"store", "insert"} => session[t].addr \in Addr
    BY <2>1, Fields
  <2> QED  BY <1>1, <1>5, <2>1, <2>2 DEF Knows
<1>9. Housed'
  BY <1>1, <1>5, <1>8 DEF IInv, Housed
<1>10. \A t \in Session, b \in Addr : Holds(t, b)' <=> Holds(t, b)
  BY <1>1 DEF Holds
<1>11. Unused' /\ OneWriter'
  BY <1>1, <1>5, <1>10 DEF IInv, Unused, OneWriter
<1>12. ASSUME NEW t \in Session, t \notin excused' PROVE Relies(session[t])'
  <2>1. Relies(session[t]) /\ session[t] \in SessionState
    BY <1>1, <1>12 DEF IInv, Undisturbed, TypeOK
  <2>2. session[t].at \in {"store", "insert"} => session[t].addr \in Addr
    BY <2>1, Fields
  <2>3. \A l : Found(l)' = Found(l)
    BY <1>5 DEF Found
  <2> QED  BY <1>1, <1>5, <2>1, <2>2, <2>3 DEF Relies
<1>13. Undisturbed'
  BY <1>12 DEF Undisturbed
<1> QED  BY <1>6, <1>7, <1>9, <1>k, <1>i, <1>11, <1>13 DEF IInv, Informed

\* Addresses are deleted, one by the owner or all with the domain: none of them has
\* mail, and every session that holds one of them is excused.
LEMMA DeleteAddresses ==
    ASSUME IInv, NEW D, \A a \in D : Live(a) /\ \A m \in mail : m.addr # a,
           addr' = [a \in Addr |-> IF a \in D THEN Gone ELSE addr[a]],
           UNCHANGED <<mail, body, ever, session, tasks, seen, during, count>>,
           domain' \in [status : {"pending", "verified", "gone"}, auto : BOOLEAN, key : PublicKey],
           excused \subseteq excused', excused' \subseteq Session,
           \A t \in Session, a \in D : Holds(t, a) => t \in excused',
           domain' = domain \/ Working \subseteq excused'
    PROVE  IInv'
<1>1. TypeOK'
  BY DEF IInv, TypeOK
<1>2. Bounded'
  BY DEF IInv, Bounded
<1>3. \A a \in Addr : /\ Live(a)' <=> Live(a) /\ a \notin D
                      /\ Live(a)' => addr'[a] = addr[a]
                      /\ addr'[a] = Absent => addr[a] = Absent
  BY RowTypes DEF Live
<1>4. \A m \in mail : m.addr \in Addr /\ m.addr \notin D
  BY DEF IInv, TypeOK, MailId
<1>5. Housed'
  BY <1>3, <1>4 DEF IInv, Housed
<1>k. Kept'
  BY <1>4, KeptStays
<1>6. \A t \in Session, b \in Addr : Holds(t, b)' <=> Holds(t, b)
  BY DEF Holds
<1>7. Unused' /\ OneWriter'
  BY <1>3, <1>6 DEF IInv, Unused, OneWriter
<1>h. ASSUME NEW t \in Session
      PROVE  /\ session[t] \in SessionState /\ Knows(session[t], seen[t])
             /\ session[t].at \in {"store", "insert"} => session[t].addr \in Addr
  BY Fields, SessionFacts
<1>i. Informed'
  BY <1>3, <1>h DEF Informed, Knows
<1>8. ASSUME NEW t \in Session, t \notin excused' PROVE Relies(session[t])'
  <2>1. Relies(session[t])
    BY <1>8, SessionFacts
  <2>2. session[t].at \in {"store", "insert"} => session[t].addr \notin D
    BY <1>8 DEF Holds
  <2>3. \A l : Found(l) = {} => Found(l)' = {}
    BY <1>3 DEF Found
  <2>4. domain' = domain \/ session[t].at \notin {"verify", "address", "create", "store", "insert"}
    BY <1>8 DEF Working
  <2> QED  BY <1>3, <1>h, <2>1, <2>2, <2>3, <2>4 DEF Relies
<1>9. Undisturbed'
  BY <1>8 DEF Undisturbed
<1> QED  BY <1>1, <1>2, <1>5, <1>k, <1>i, <1>7, <1>9 DEF IInv

LEMMA DeleteStep ==
    ASSUME IInv, (\E a \in Addr : DeleteEmailAddress(a)) \/ DeleteDomain
    PROVE  IInv'
<1>0. /\ addr \in [Addr -> Address \cup {Absent, Gone}] /\ excused \cup Working \subseteq Session
      /\ domain \in [status : {"pending", "verified", "gone"}, auto : BOOLEAN, key : PublicKey]
  BY DEF IInv, TypeOK, Working
<1>1. ASSUME NEW a \in Addr, DeleteEmailAddress(a) PROVE IInv'
  <2> DEFINE D == {a}
  <2>1. \A b \in D : Live(b) /\ \A m \in mail : m.addr # b
    BY <1>1 DEF DeleteEmailAddress, DeleteAddress, Sequence
  <2>2. addr' = [b \in Addr |-> IF b \in D THEN Gone ELSE addr[b]]
    BY <1>0, <1>1 DEF DeleteEmailAddress, DeleteAddress
  <2>3. /\ UNCHANGED <<domain, mail, body, ever, session, tasks, seen, during, count>>
        /\ excused' = excused \cup {t \in Session : Holds(t, a)}
    BY <1>1 DEF DeleteEmailAddress
  <2>4. /\ \A t \in Session, b \in D : Holds(t, b) => t \in excused'
        /\ excused \subseteq excused' /\ excused' \subseteq Session
    BY <1>0, <2>3
  <2>5. /\ domain' \in [status : {"pending", "verified", "gone"}, auto : BOOLEAN, key : PublicKey]
        /\ domain' = domain
    BY <1>0, <2>3
  <2> HIDE DEF D
  <2> QED  BY <2>1, <2>2, <2>3, <2>4, <2>5, DeleteAddresses
<1>2. CASE DeleteDomain
  <2> DEFINE D == {a \in Addr : Live(a)}
  <2>1. \A a \in D : Live(a) /\ \A m \in mail : m.addr # a
    BY <1>2 DEF DeleteDomain
  <2>2. addr' = [b \in Addr |-> IF b \in D THEN Gone ELSE addr[b]]
    BY <1>0, <1>2 DEF DeleteDomain
  <2>3. /\ UNCHANGED <<mail, body, ever, session, tasks, seen, during, count>>
        /\ excused' = excused \cup Working
    BY <1>2 DEF DeleteDomain
  <2>4. /\ \A t \in Session, b \in D : Holds(t, b) => t \in excused'
        /\ excused \subseteq excused' /\ excused' \subseteq Session /\ Working \subseteq excused'
    BY <1>0, <2>3 DEF Holds, Working
  <2>5. domain' \in [status : {"pending", "verified", "gone"}, auto : BOOLEAN, key : PublicKey]
    BY <1>0, <1>2 DEF DeleteDomain
  <2> HIDE DEF D
  <2> QED  BY <2>1, <2>2, <2>3, <2>4, <2>5, DeleteAddresses
<1> QED  BY <1>1, <1>2

\* Received mail is deleted, the domain's row is written, a goroutine ends: addresses and
\* sessions stay, what a session relies on holds all the more, and the key it has is one
\* the domain has had.
LEMMA RowStep ==
    ASSUME IInv,
           \/ \E m \in mail : DeleteReceivedEmail(m)
           \/ \E d \in [status : {"pending", "verified"}, auto : BOOLEAN, key : PublicKey] : SetDomain(d)
           \/ \E t \in tasks : RunTask(t)
           \/ UNCHANGED vars
    PROVE  IInv'
<1>1. /\ UNCHANGED <<addr, ever, session, excused, count>>
      /\ mail' \subseteq mail /\ tasks' \subseteq tasks
      /\ body' \in [mail' -> Sealed] /\ during' \in [mail' -> SUBSET PublicKey]
      /\ \A n \in mail' : body'[n] = body[n] /\ during'[n] = during[n]
      /\ seen' \in [Session -> SUBSET PublicKey] /\ \A t \in Session : seen[t] \subseteq seen'[t]
      /\ domain.status # "gone" => domain'.status # "gone"
      /\ domain' \in [status : {"pending", "verified", "gone"}, auto : BOOLEAN, key : PublicKey]
  <2>0. /\ domain \in [status : {"pending", "verified", "gone"}, auto : BOOLEAN, key : PublicKey]
        /\ seen \in [Session -> SUBSET PublicKey]
        /\ body \in [mail -> Sealed] /\ during \in [mail -> SUBSET PublicKey]
    BY DEF IInv, TypeOK
  <2>1. ASSUME NEW m \in mail, DeleteReceivedEmail(m)
        PROVE  /\ UNCHANGED <<addr, ever, session, excused, count, tasks, seen, domain>>
               /\ mail' \subseteq mail
               /\ body' \in [mail' -> Sealed] /\ during' \in [mail' -> SUBSET PublicKey]
               /\ \A n \in mail' : body'[n] = body[n] /\ during'[n] = during[n]
    BY <2>0, <2>1 DEF DeleteReceivedEmail, DeleteMail
  <2>2. ASSUME NEW d \in [status : {"pending", "verified"}, auto : BOOLEAN, key : PublicKey], SetDomain(d)
        PROVE  /\ UNCHANGED <<addr, ever, session, excused, count, tasks, mail, body, during>>
               /\ domain' = d
               /\ seen' \in [Session -> SUBSET PublicKey] /\ \A t \in Session : seen[t] \subseteq seen'[t]
    BY <2>0, <2>2 DEF SetDomain
  <2>3. ASSUME NEW t \in tasks, RunTask(t)
        PROVE  /\ UNCHANGED <<addr, ever, session, excused, count, mail, body, seen, during, domain>>
               /\ tasks' \subseteq tasks
    BY <2>3 DEF RunTask
  <2> QED  BY <2>0, <2>1, <2>2, <2>3 DEF vars
<1>2. TypeOK'
  BY <1>1 DEF IInv, TypeOK
<1>3. Bounded' /\ Housed'
  BY <1>1 DEF IInv, Bounded, Housed, Live
<1>k. Kept'
  BY <1>1 DEF IInv, Kept, Intact
<1>i. Informed'
  BY <1>1 DEF IInv, Informed, Knows, Live
<1>4. Unused' /\ OneWriter'
  BY <1>1 DEF IInv, Unused, OneWriter, Holds, Live
<1>5. ASSUME NEW t \in Session, t \notin excused' PROVE Relies(session[t])'
  BY <1>1, <1>5 DEF IInv, Undisturbed, Relies, Found, Live
<1>6. Undisturbed'
  BY <1>5 DEF Undisturbed
<1> QED  BY <1>2, <1>3, <1>k, <1>i, <1>4, <1>6 DEF IInv

LEMMA Inductive == Spec => []IInv
<1>1. Init => IInv
  <2> SUFFICES ASSUME Init PROVE IInv
    OBVIOUS
  <2>a. domain \in [status : {"pending", "verified", "gone"}, auto : BOOLEAN, key : PublicKey]
    BY DEF Init, AcceptedKey
  <2>b. /\ addr \in [Addr -> Address \cup {Absent, Gone}]
        /\ session \in [Session -> SessionState] /\ seen \in [Session -> SUBSET PublicKey]
        /\ body \in [mail -> Sealed] /\ during \in [mail -> SUBSET PublicKey]
    BY DEF Init, SessionState
  <2>1. TypeOK
    BY <2>a, <2>b, MailBoundAssumption DEF Init, TypeOK
  <2>2. Bounded
    BY DEF Init, Bounded
  <2>3. \A s \in Session : session[s].at = "idle"
    BY DEF Init, Idle
  <2>4. \A a \in Addr : ~Live(a)
    BY DEF Init, Live
  <2>5. Informed /\ Kept /\ Housed /\ Unused /\ OneWriter
    BY <2>3, <2>4 DEF Init, Informed, Knows, Kept, Housed, Unused, OneWriter, Holds
  <2>6. Undisturbed
    BY <2>3 DEF Undisturbed, Relies
  <2> QED  BY <2>1, <2>2, <2>5, <2>6 DEF IInv
<1>2. IInv /\ [Next]_vars => IInv'
  BY ArrivalStep, LookUpStep, EncryptStep, CreateStep, InsertStep,
     PostStep, PutStep, DeleteStep, RowStep
     DEF Next, SessionStep, Owner
<1> QED  BY <1>1, <1>2, PTL DEF Spec

-----------------------------------------------------------------------------
(* Theorems.                                                               *)

\* Every variable keeps its type, whatever text the owner puts in the place of the
\* domain's public key; in particular what is in encrypted_body was sealed, and the
\* trigger's sequence numbers are positive.
THEOREM TypeCorrect == Spec => []TypeOK
<1>1. IInv => TypeOK
  BY DEF IInv
<1> QED  BY <1>1, Inductive, PTL

\* What was sealed with a public key opens with the private key of its pair.
LEMMA SealedOpens ==
    ASSUME NEW m, NEW k, Crypto!encryptEmailBody(m, k) # Crypto!Error
    PROVE  Crypto!GetParsedReceivedEmail(Crypto!encryptEmailBody(m, k), PrivateKey(k)) = m
<1> DEFINE p == Crypto!ParsePublicKey(k)
           e == [key |-> Crypto!KeySize, nonce |-> Crypto!NonceSize,
                 sealed |-> [body |-> m, pair |-> p.pair]]
<1>1. DOMAIN Crypto!Error = {"error"}
  BY DEF Crypto!Error
<1>2. p # Crypto!Error /\ Crypto!Encrypt(m, p) # Crypto!Error
  BY DEF Crypto!encryptEmailBody
<1>3. p.pair = k.pair
  BY <1>2 DEF Crypto!ParsePublicKey
<1>4. Crypto!Encrypt(m, p) = e
  BY <1>2 DEF Crypto!Encrypt
<1>5. e # Crypto!Error
  <2>1. DOMAIN e = {"key", "nonce", "sealed"}
    OBVIOUS
  <2> QED  BY <1>1, <2>1
<1>6. Crypto!encryptEmailBody(m, k) = Crypto!Serialize(e)
  BY <1>2, <1>4, <1>5 DEF Crypto!encryptEmailBody
<1>7. Crypto!DeserializeEncryptedData(Crypto!Serialize(e)) = e
  BY DEF Crypto!DeserializeEncryptedData, Crypto!Serialize
<1>8. PrivateKey(k) # Crypto!NoKey
  <2>1. PrivateKey(k).size = 32 /\ Crypto!NoKey.size = 0
    BY DEF PrivateKey, Crypto!NoKey, Crypto!KeySize
  <2> QED  BY <2>1
<1>9. Crypto!Decrypt(e, PrivateKey(k)) = m
  BY <1>3 DEF Crypto!Decrypt, PrivateKey
<1> HIDE DEF e
<1>10. Crypto!GetParsedReceivedEmail(Crypto!Serialize(e), PrivateKey(k)) = m
  BY <1>5, <1>7, <1>8, <1>9 DEF Crypto!GetParsedReceivedEmail, Crypto!ParseFromEncrypted
<1> QED  BY <1>6, <1>10

\* However sessions and requests interleave and whatever the owner puts in the place of
\* the domain's key, stored mail belongs to an address, opens with the private key of a
\* key the domain had while the mail was being received, and was sent to that address;
\* live addresses differ in their local parts: StorageConsistent for every number of
\* sessions, addresses, messages and keys.
THEOREM StorageIsConsistent == Spec => []StorageConsistent
<1>1. IInv => StorageConsistent
  <2> SUFFICES ASSUME IInv PROVE StorageConsistent
    OBVIOUS
  <2>1. ASSUME NEW m \in mail
        PROVE  \E k \in during[m] :
                  LET text == Crypto!GetParsedReceivedEmail(body[m], PrivateKey(k))
                  IN text # Crypto!Error /\ Lower[text.to] = Lower[addr[m.addr].local]
    <3>1. PICK l \in Local, k \in during[m] :
             SealedBy(body[m], l, k) /\ Lower[l] = Lower[addr[m.addr].local]
      BY DEF IInv, Kept, Intact
    <3>2. Crypto!GetParsedReceivedEmail(body[m], PrivateKey(k)) = Letter(l)
      BY <3>1, SealedOpens DEF SealedBy
    <3>3. Letter(l) # Crypto!Error /\ Letter(l).to = l
      <4>1. DOMAIN Letter(l) = {"to"} /\ DOMAIN Crypto!Error = {"error"} /\ Letter(l).to = l
        BY DEF Letter, Crypto!Error
      <4> QED  BY <4>1
    <3> QED  BY <3>1, <3>2, <3>3
  <2>2. \A a, b \in GetByDomainID : addr[a].local = addr[b].local => a = b
    BY DEF IInv, Housed, GetByDomainID
  <2>3. \A m \in mail : Live(m.addr)
    BY DEF IInv, Housed
  <2> QED  BY <2>1, <2>2, <2>3 DEF StorageConsistent
<1> QED  BY <1>1, Inductive, PTL

\* An address that was created as the sender wrote it, with a capital letter, never gets
\* a second message: MixedCaseHoldsOneMail for every number of sessions and messages.
THEOREM MixedCaseNeverFillsUp == Spec => []MixedCaseHoldsOneMail
<1>1. IInv => MixedCaseHoldsOneMail
  BY DEF IInv, OneWriter, MixedCaseHoldsOneMail
<1> QED  BY <1>1, Inductive, PTL

\* A message to a lower-case recipient that passed every check is lost behind a 250 only
\* when somebody created, deleted or wrote to its address or deleted the domain under its
\* session, or a statement of the session failed, or the public key it had read cannot
\* encrypt: LossNeedsRival for every number of sessions, addresses, messages and keys.
THEOREM LossHasACause == Spec => []LossNeedsRival
<1>1. IInv => LossNeedsRival
  BY DEF IInv, Undisturbed, Relies, LossNeedsRival, Recipient, Todo
<1> QED  BY <1>1, Inductive, PTL

-----------------------------------------------------------------------------
(* Verification.                                                           *)

\* f solves the equation by which evaluateSPF is defined, up to level n.
Eval(dns, n, f) ==
   f = [k \in 0..n |-> [d \in Records(dns) |-> IF k = 0 THEN "permerror" ELSE evaluateRecord(dns, d, f[k - 1])]]

\* There is such a function, so the definition of evaluateSPF denotes one.
LEMMA EvalExists ==
    ASSUME NEW dns
    PROVE  \A n \in Nat : \E f : Eval(dns, n, f)
<1> DEFINE S == {n \in Nat : \E f : Eval(dns, n, f)}
<1>1. 0 \in S
  <2>1. Eval(dns, 0, [k \in 0..0 |-> [d \in Records(dns) |-> "permerror"]])
    BY DEF Eval
  <2> QED  BY <2>1
<1>2. ASSUME NEW n \in Nat, n \in S PROVE n + 1 \in S
  <2>1. PICK f : Eval(dns, n, f)
    BY <1>2
  <2> DEFINE g == [k \in 0..n + 1 |-> IF k <= n THEN f[k] ELSE [d \in Records(dns) |-> evaluateRecord(dns, d, f[n])]]
  <2>2. \A k \in 0..n : g[k] = f[k]
    OBVIOUS
  <2>3. Eval(dns, n + 1, g)
    <3>1. ASSUME NEW k \in 0..n + 1
          PROVE  g[k] = [d \in Records(dns) |-> IF k = 0 THEN "permerror" ELSE evaluateRecord(dns, d, g[k - 1])]
      <4>1. CASE k = 0
        BY <2>1, <4>1 DEF Eval
      <4>2. CASE k \in 1..n
        <5>1. f[k] = [d \in Records(dns) |-> evaluateRecord(dns, d, f[k - 1])]
          BY <2>1, <4>2 DEF Eval
        <5>2. g[k] = f[k] /\ g[k - 1] = f[k - 1]
          BY <2>2, <4>2
        <5>3. k # 0
          BY <4>2
        <5> HIDE DEF g
        <5> QED  BY <5>1, <5>2, <5>3
      <4>3. CASE k = n + 1
        <5>1. g[k - 1] = f[n]
          BY <4>3
        <5> QED  BY <4>3, <5>1
      <4> QED  BY <4>1, <4>2, <4>3
    <3> QED  BY <3>1 DEF Eval
  <2> QED  BY <2>3
<1> HIDE DEF S
<1>3. \A n \in Nat : n \in S
  BY <1>1, <1>2, NumberInduction
<1> QED  BY <1>3 DEF S

LEMMA EvalIs ==
    ASSUME NEW dns
    PROVE  \E f : Eval(dns, DepthLimit + 1, f) /\ evaluateSPF(dns) = f[DepthLimit + 1]
<1>1. PICK f : Eval(dns, DepthLimit + 1, f)
  BY EvalExists, DepthAssumption
<1> QED  BY <1>1 DEF Eval, evaluateSPF

\* A mechanism passes only if it matches with the qualifier +, or includes a record that
\* passes one level down.
LEMMA MechanismPasses ==
    ASSUME NEW dns \in Zone, NEW m \in Mechanism, NEW d \in Dom, NEW inner,
           evaluateMechanism(dns, m, d, inner) = "pass"
    PROVE  \/ m.kind # "include" /\ m.qualifier = "+" /\ Matches(dns, m, d) = "yes"
           \/ m.kind = "include" /\ m.value \in Records(dns) /\ inner[m.value] = "pass"
<1>0. /\ m.kind \in {"all", "include", "a", "mx", "ip", "exists", "unknown"}
      /\ m.qualifier \in {"+", "-", "~", "?"} /\ m.value \in Dom \cup {NoDomain}
      /\ m.covers \in {"yes", "no", "error"}
  BY DEF Mechanism
<1>1. \A e \in Dom : dns[e] \in DNSEntry
  BY ZoneAssumption
<1>2. \A e \in Dom : /\ dns[e].txt \in {"found", "none", "error"}
                     /\ dns[e].a \in {"none", "other", "sender", "error"}
  BY <1>1 DEF DNSEntry
<1>3. CASE m.kind = "include"
  <2>1. m.value \in Dom /\ evaluateInclude(dns, m.value, inner[m.value]) = "pass"
    BY <1>0, <1>3 DEF evaluateMechanism
  <2>2. dns[m.value].txt \in {"found", "none", "error"}
    BY <1>2, <2>1
  <2>3. dns[m.value].txt = "found" /\ m.value \in Records(dns)
    BY <2>1, <2>2 DEF evaluateInclude, getSPFRecord, Records
  <2>4. inner[m.value] = "pass"
    BY <2>1, <2>3 DEF evaluateInclude, getSPFRecord
  <2> QED  BY <1>3, <2>3, <2>4
<1>4. CASE m.kind # "include"
  <2>1. PICK target : target = IF m.value = NoDomain THEN d ELSE m.value
    OBVIOUS
  <2>2. target \in Dom
    BY <1>0, <2>1
  <2>3. evaluateA(dns, target) \in {"yes", "no", "error"} /\ evaluateExists(dns, target) \in {"yes", "no", "error"}
    BY <1>2, <2>2 DEF evaluateA, evaluateExists
  <2>4. evaluateMX(dns, target) \in {"yes", "no", "error"}
    BY DEF evaluateMX
  <2>5. Matches(dns, m, d) \in {"yes", "no", "error"}
    BY <1>0, <1>4, <2>1, <2>3, <2>4 DEF Matches
  <2>6. Matches(dns, m, d) = "yes" /\ qualifierToResult(m.qualifier) = "pass"
    BY <1>4, <2>5 DEF evaluateMechanism
  <2>7. m.qualifier = "+"
    BY <1>0, <2>6 DEF qualifierToResult
  <2> QED  BY <1>4, <2>6, <2>7
<1> QED  BY <1>3, <1>4

\* A record passes only if one of its mechanisms does.
LEMMA RecordPasses ==
    ASSUME NEW dns \in Zone, NEW d \in Dom, NEW inner, evaluateRecord(dns, d, inner) = "pass"
    PROVE  \E i \in DOMAIN Spf(dns, d) :
              \/ /\ Spf(dns, d)[i].kind # "include" /\ Spf(dns, d)[i].qualifier = "+"
                 /\ Matches(dns, Spf(dns, d)[i], d) = "yes"
              \/ /\ Spf(dns, d)[i].kind = "include" /\ Spf(dns, d)[i].value \in Records(dns)
                 /\ inner[Spf(dns, d)[i].value] = "pass"
<1> DEFINE says(i) == evaluateMechanism(dns, Spf(dns, d)[i], d, inner)
           decided == {i \in DOMAIN Spf(dns, d) : says(i) # "neutral"}
<1>1. Spf(dns, d) \in Seq(Mechanism)
  BY ZoneAssumption DEF Spf, DNSEntry
<1>2. decided \subseteq Nat /\ decided \subseteq DOMAIN Spf(dns, d)
  BY <1>1
<1>3. decided # {} /\ says(Min(decided)) = "pass"
  BY DEF evaluateRecord
<1> HIDE DEF decided
<1>4. Min(decided) \in decided
  BY <1>2, <1>3, LeastNumber DEF Min
<1>5. PICK i \in DOMAIN Spf(dns, d) : says(i) = "pass"
  BY <1>2, <1>3, <1>4
<1>6. Spf(dns, d)[i] \in Mechanism
  BY <1>1
<1> QED  BY <1>5, <1>6, MechanismPasses

\* The same for Included.
Within(dns, d, n, f) ==
    f = [k \in 0..n |-> IF k = 0 THEN {d} ELSE WithIncludes(dns, f[k - 1])]

LEMMA WithinStep ==
    ASSUME NEW dns, NEW d, NEW n \in Nat, NEW f, Within(dns, d, n, f), NEW k \in Nat, k + 1 <= n
    PROVE  f[k + 1] = WithIncludes(dns, f[k])
<1>1. k + 1 \in 0..n /\ k + 1 # 0
  OBVIOUS
<1>2. (k + 1) - 1 = k
  OBVIOUS
<1>3. f[k + 1] = WithIncludes(dns, f[(k + 1) - 1])
  BY <1>1, Zenon DEF Within
<1> QED  BY <1>2, <1>3

LEMMA WithinExists ==
    ASSUME NEW dns, NEW d
    PROVE  \A n \in Nat : \E f : Within(dns, d, n, f)
<1> DEFINE S == {n \in Nat : \E f : Within(dns, d, n, f)}
<1>1. 0 \in S
  <2>1. Within(dns, d, 0, [k \in 0..0 |-> {d}])
    BY DEF Within
  <2> QED  BY <2>1
<1>2. ASSUME NEW n \in Nat, n \in S PROVE n + 1 \in S
  <2>1. PICK f : Within(dns, d, n, f)
    BY <1>2
  <2> DEFINE g == [k \in 0..n + 1 |-> IF k <= n THEN f[k] ELSE WithIncludes(dns, f[n])]
  <2>2. \A k \in 0..n : g[k] = f[k]
    OBVIOUS
  <2>3. ASSUME NEW k \in 0..n + 1
        PROVE  g[k] = IF k = 0 THEN {d} ELSE WithIncludes(dns, g[k - 1])
    <3>1. CASE k = 0
      BY <2>1, <3>1 DEF Within
    <3>2. CASE k \in 1..n
      <4>1. k \in 0..n /\ k # 0
        BY <3>2
      <4>2. f[k] = WithIncludes(dns, f[k - 1])
        BY <2>1, <4>1, Zenon DEF Within
      <4>3. g[k] = f[k] /\ g[k - 1] = f[k - 1]
        BY <2>2, <3>2
      <4> QED  BY <3>2, <4>2, <4>3
    <3>3. CASE k = n + 1
      <4>1. g[k - 1] = f[n]
        BY <3>3
      <4> QED  BY <3>3, <4>1
    <3> QED  BY <3>1, <3>2, <3>3
  <2>4. Within(dns, d, n + 1, g)
    BY <2>3 DEF Within
  <2> QED  BY <2>4
<1> HIDE DEF S
<1>3. \A n \in Nat : n \in S
  BY <1>1, <1>2, NumberInduction
<1> QED  BY <1>3 DEF S

LEMMA WithinUnique ==
    ASSUME NEW dns, NEW d, NEW n \in Nat, NEW f, Within(dns, d, n, f),
           NEW m \in Nat, NEW g, Within(dns, d, m, g)
    PROVE  \A k \in Nat : k <= n /\ k <= m => f[k] = g[k]
<1> DEFINE S == {k \in Nat : k <= n /\ k <= m => f[k] = g[k]}
<1>1. 0 \in S
  BY DEF Within
<1>2. ASSUME NEW k \in Nat, k \in S PROVE k + 1 \in S
  <2> SUFFICES ASSUME k + 1 <= n, k + 1 <= m PROVE f[k + 1] = g[k + 1]
    OBVIOUS
  <2>1. f[k] = g[k]
    BY <1>2
  <2>2. f[k + 1] = WithIncludes(dns, f[k])
    BY WithinStep
  <2>3. g[k + 1] = WithIncludes(dns, g[k])
    BY WithinStep
  <2> QED  BY <2>1, <2>2, <2>3
<1> HIDE DEF S
<1>3. \A k \in Nat : k \in S
  BY <1>1, <1>2, NumberInduction
<1> QED  BY <1>3 DEF S

LEMMA IncludedIs ==
    ASSUME NEW dns, NEW d, NEW n \in Nat
    PROVE  \E f : Within(dns, d, n, f) /\ Included(dns, d, n) = f[n]
<1>1. PICK f : Within(dns, d, n, f)
  BY WithinExists
<1> QED  BY <1>1 DEF Within, Included

LEMMA IncludedFirst ==
    ASSUME NEW dns, NEW d
    PROVE  Included(dns, d, 0) = {d}
<1>1. PICK f : Within(dns, d, 0, f) /\ Included(dns, d, 0) = f[0]
  BY IncludedIs
<1> QED  BY <1>1 DEF Within

LEMMA IncludedStep ==
    ASSUME NEW dns, NEW d, NEW n \in Nat
    PROVE  Included(dns, d, n + 1) = WithIncludes(dns, Included(dns, d, n))
<1>1. PICK f : Within(dns, d, n, f) /\ Included(dns, d, n) = f[n]
  BY IncludedIs
<1>2. PICK g : Within(dns, d, n + 1, g) /\ Included(dns, d, n + 1) = g[n + 1]
  BY IncludedIs
<1>3. f[n] = g[n]
  BY <1>1, <1>2, WithinUnique
<1>4. g[n + 1] = WithIncludes(dns, g[n])
  BY <1>2, WithinStep
<1> QED  BY <1>1, <1>2, <1>3, <1>4

\* What an included record takes in, the including one takes in with one more include.
LEMMA IncludedThrough ==
    ASSUME NEW dns, NEW d, NEW e \in WithIncludes(dns, {d})
    PROVE  \A n \in Nat : Included(dns, e, n) \subseteq Included(dns, d, n + 1)
<1> DEFINE S == {n \in Nat : Included(dns, e, n) \subseteq Included(dns, d, n + 1)}
<1>1. 0 \in S
  <2>1. Included(dns, e, 0) = {e} /\ Included(dns, d, 0) = {d}
    BY IncludedFirst
  <2>2. Included(dns, d, 0 + 1) = WithIncludes(dns, {d})
    BY <2>1, IncludedStep
  <2> QED  BY <2>1, <2>2
<1>2. ASSUME NEW n \in Nat, n \in S PROVE n + 1 \in S
  <2>1. \A A, B : A \subseteq B => WithIncludes(dns, A) \subseteq WithIncludes(dns, B)
    BY DEF WithIncludes
  <2>2. Included(dns, e, n) \subseteq Included(dns, d, n + 1)
    BY <1>2
  <2>3. Included(dns, e, n + 1) = WithIncludes(dns, Included(dns, e, n))
    BY IncludedStep
  <2>4. Included(dns, d, (n + 1) + 1) = WithIncludes(dns, Included(dns, d, n + 1))
    BY IncludedStep
  <2>5. Included(dns, e, n + 1) \subseteq Included(dns, d, (n + 1) + 1)
    BY <2>1, <2>2, <2>3, <2>4
  <2> QED  BY <2>5
<1> HIDE DEF S
<1>3. \A n \in Nat : n \in S
  BY <1>1, <1>2, NumberInduction
<1> QED  BY <1>3 DEF S

LEMMA AuthorisedThrough ==
    ASSUME NEW dns, NEW d, NEW e \in WithIncludes(dns, {d}), NEW n \in Nat, Authorised(dns, e, n)
    PROVE  Authorised(dns, d, n + 1)
<1>1. Included(dns, e, n) \subseteq Included(dns, d, n + 1)
  BY IncludedThrough
<1> QED  BY <1>1 DEF Authorised

LEMMA AuthorisedHere ==
    ASSUME NEW dns, NEW d, NEW n \in Nat, NEW i \in DOMAIN Spf(dns, d),
           Spf(dns, d)[i].kind # "include", Spf(dns, d)[i].qualifier = "+",
           Matches(dns, Spf(dns, d)[i], d) = "yes"
    PROVE  Authorised(dns, d, n)
<1> DEFINE S == {k \in Nat : d \in Included(dns, d, k)}
<1>1. 0 \in S
  BY IncludedFirst
<1>2. ASSUME NEW k \in Nat, k \in S PROVE k + 1 \in S
  <2>1. Included(dns, d, k + 1) = WithIncludes(dns, Included(dns, d, k))
    BY IncludedStep
  <2> QED  BY <1>2, <2>1 DEF WithIncludes
<1> HIDE DEF S
<1>3. \A k \in Nat : k \in S
  BY <1>1, <1>2, NumberInduction
<1> QED  BY <1>3 DEF S, Authorised

\* The invariant of the recursion: with k + 1 levels allowed a record passes only if one
\* at most k includes away authorises the sender.  With none, nothing passes.
LEMMA PassIsFound ==
    ASSUME NEW dns \in Zone, NEW f, Eval(dns, DepthLimit + 1, f)
    PROVE  \A k \in Nat : k <= DepthLimit =>
              \A d \in Records(dns) : f[k + 1][d] = "pass" => Authorised(dns, d, k)
<1> USE DepthAssumption
<1> DEFINE S == {k \in Nat : k <= DepthLimit =>
                    \A d \in Records(dns) : f[k + 1][d] = "pass" => Authorised(dns, d, k)}
<1>0. ASSUME NEW k \in Nat, k <= DepthLimit, NEW d \in Records(dns), f[k + 1][d] = "pass"
      PROVE  \/ Authorised(dns, d, k)
             \/ \E e \in WithIncludes(dns, {d}) : f[k][e] = "pass"
  <2>1. k + 1 \in 0..DepthLimit + 1 /\ k + 1 # 0 /\ (k + 1) - 1 = k
    BY <1>0
  <2>2. f[k + 1] = [e \in Records(dns) |-> IF k + 1 = 0 THEN "permerror" ELSE evaluateRecord(dns, e, f[(k + 1) - 1])]
    BY <2>1, Zenon DEF Eval
  <2>3. d \in Dom /\ evaluateRecord(dns, d, f[k]) = "pass"
    BY <1>0, <2>1, <2>2 DEF Records
  <2>4. PICK i \in DOMAIN Spf(dns, d) :
              \/ /\ Spf(dns, d)[i].kind # "include" /\ Spf(dns, d)[i].qualifier = "+"
                 /\ Matches(dns, Spf(dns, d)[i], d) = "yes"
              \/ /\ Spf(dns, d)[i].kind = "include" /\ Spf(dns, d)[i].value \in Records(dns)
                 /\ f[k][Spf(dns, d)[i].value] = "pass"
    BY <2>3, RecordPasses
  <2>5. Spf(dns, d)[i].kind = "include" /\ Spf(dns, d)[i].value \in Records(dns)
           => Spf(dns, d)[i].value \in WithIncludes(dns, {d})
    BY DEF WithIncludes
  <2> QED  BY <2>4, <2>5, AuthorisedHere
<1>1. 0 \in S
  <2>1. \A e \in Records(dns) : f[0][e] = "permerror"
    BY DEF Eval
  <2>2. \A d \in Records(dns) : WithIncludes(dns, {d}) \subseteq Records(dns)
    BY DEF WithIncludes
  <2>3. ASSUME 0 <= DepthLimit, NEW d \in Records(dns), f[0 + 1][d] = "pass" PROVE Authorised(dns, d, 0)
    BY <1>0, <2>1, <2>2, <2>3
  <2> QED  BY <2>3
<1>2. ASSUME NEW k \in Nat, k \in S PROVE k + 1 \in S
  <2>1. ASSUME k + 1 <= DepthLimit, NEW d \in Records(dns), f[(k + 1) + 1][d] = "pass"
        PROVE  Authorised(dns, d, k + 1)
    <3>1. CASE Authorised(dns, d, k + 1)
      BY <3>1
    <3>2. ASSUME NEW e \in WithIncludes(dns, {d}), f[k + 1][e] = "pass" PROVE Authorised(dns, d, k + 1)
      <4>1. e \in Records(dns)
        BY DEF WithIncludes
      <4>2. Authorised(dns, e, k)
        BY <1>2, <2>1, <3>2, <4>1
      <4> QED  BY <4>2, AuthorisedThrough
    <3> QED  BY <1>0, <2>1, <3>1, <3>2
  <2> QED  BY <2>1
<1> HIDE DEF S
<1>3. \A k \in Nat : k \in S
  BY <1>1, <1>2, NumberInduction
<1> QED  BY <1>3 DEF S

\* SPF passes have a cause, whatever the zone and the depth limit.
LEMMA SPFPassesHaveCause == SPFPassesAreAuthorised
<1> SUFFICES ASSUME NEW dns \in Zone, NEW from \in Dom, VerifySPF(dns, "v4", from) = "pass"
             PROVE  Authorised(dns, from, DepthLimit)
  BY DEF SPFPassesAreAuthorised
<1>1. dns[from].txt \in {"found", "none", "error"}
  BY ZoneAssumption DEF DNSEntry
<1>2. from # NoDomain
  BY DEF VerifySPF
<1>3. dns[from].txt = "found" /\ from \in Records(dns)
  BY <1>1, <1>2 DEF VerifySPF, getSPFRecord, Records
<1>4. evaluateSPF(dns)[from] = "pass"
  BY <1>2, <1>3 DEF VerifySPF, getSPFRecord
<1>5. PICK f : Eval(dns, DepthLimit + 1, f) /\ evaluateSPF(dns) = f[DepthLimit + 1]
  BY EvalIs
<1> QED  BY <1>3, <1>4, <1>5, PassIsFound, DepthAssumption

LEMMA MessageFacts ==
    ASSUME NEW m \in Message
    PROVE  /\ m.from \in Dom \cup {NoDomain}
           /\ m.signatures \subseteq [domain : Dom, err : {"nil", "tempfail", "permfail", "other"}]
           /\ m.dmarc.lookup \in {"found", "nopolicy", "tempfail", "permfail"}
           /\ m.content.subject \in TextAnalysis /\ m.content.body \in TextAnalysis
  BY MessageAssumption

\* DMARC passes only on SPF, or on a good signature of the same organization.
LEMMA DMARCPasses ==
    ASSUME NEW policy, NEW spf, NEW signatures, NEW from,
           policy.lookup \in {"found", "nopolicy", "tempfail", "permfail"},
           VerifyDMARC(policy, spf, VerifyDKIM(signatures), from).result = "pass"
    PROVE  \/ spf = "pass"
           \/ \E s \in signatures : dkimErrorToStatus(s.err) = "pass" /\ Org[s.domain] = Org[from]
<1>1. from # NoDomain /\ policy.lookup = "found"
  BY DEF VerifyDMARC
<1>2. evaluateDMARCPolicy(policy, spf, VerifyDKIM(signatures), from) = "pass"
  BY <1>1 DEF VerifyDMARC
<1>3. spf = "pass" \/ checkDKIMAlignment(policy, VerifyDKIM(signatures), from)
  BY <1>2 DEF evaluateDMARCPolicy, checkSPFAlignment
<1>4. ASSUME checkDKIMAlignment(policy, VerifyDKIM(signatures), from)
      PROVE  \E s \in signatures : dkimErrorToStatus(s.err) = "pass" /\ Org[s.domain] = Org[from]
  <2>1. PICK r \in VerifyDKIM(signatures).results : r.status = "pass" /\ Aligned(policy.strictDKIM, r.domain, from)
    BY <1>4 DEF checkDKIMAlignment
  <2>2. PICK s \in signatures : r = [domain |-> s.domain, status |-> dkimErrorToStatus(s.err)]
    BY <2>1 DEF VerifyDKIM
  <2>3. r.domain = s.domain /\ r.status = dkimErrorToStatus(s.err)
    BY <2>2
  <2> QED  BY <2>1, <2>3 DEF Aligned
<1> QED  BY <1>3, <1>4

\* Nothing else leads to dmarc=pass in the header, and its cause is beside it.
LEMMA DMARCPassesHaveCause == DMARCPassesAreBacked
<1> SUFFICES ASSUME NEW m \in Message,
                    Claim("dmarc", "pass", m.from) \in BuildAuthResultsHeader(m.from, Checks(DefaultConfig, m))
             PROVE  \/ Claim("spf", "pass", m.from) \in BuildAuthResultsHeader(m.from, Checks(DefaultConfig, m))
                    \/ \E d \in Dom : /\ Org[d] = Org[m.from]
                                      /\ Claim("dkim", "pass", d) \in BuildAuthResultsHeader(m.from, Checks(DefaultConfig, m))
  BY DEF DMARCPassesAreBacked
<1>1. PICK r : r = Checks(DefaultConfig, m)
  OBVIOUS
<1>2. PICK spf : spf = VerifySPF(m.dns, m.ip, m.from)
  OBVIOUS
<1>3. /\ r.spf = spf /\ r.dkim = VerifyDKIM(m.signatures)
      /\ r.dmarc = VerifyDMARC(m.dmarc, spf, VerifyDKIM(m.signatures), m.from)
  BY <1>1, <1>2 DEF Checks, DefaultConfig
<1>4. Claim("dmarc", "pass", m.from) = Claim("dmarc", mapDMARCStatusToAuthRes(r.dmarc.result), m.from)
  BY <1>1 DEF BuildAuthResultsHeader, Claim
<1>5. r.dmarc.result = "pass"
  BY <1>4 DEF Claim, mapDMARCStatusToAuthRes, DMARCStatus
<1>6. \/ spf = "pass"
      \/ \E s \in m.signatures : dkimErrorToStatus(s.err) = "pass" /\ Org[s.domain] = Org[m.from]
  BY <1>3, <1>5, MessageFacts, DMARCPasses
<1>7. CASE spf = "pass"
  <2>1. mapSPFStatusToAuthRes(r.spf) = "pass"
    BY <1>3, <1>7 DEF mapSPFStatusToAuthRes, SPFStatus
  <2>2. Claim("spf", "pass", m.from).value = "pass"
    BY DEF Claim
  <2> QED  BY <1>1, <2>1, <2>2 DEF BuildAuthResultsHeader
<1>8. ASSUME NEW s \in m.signatures, dkimErrorToStatus(s.err) = "pass", Org[s.domain] = Org[m.from]
      PROVE  \E d \in Dom : /\ Org[d] = Org[m.from]
                            /\ Claim("dkim", "pass", d) \in BuildAuthResultsHeader(m.from, Checks(DefaultConfig, m))
  <2>1. s.domain \in Dom
    BY MessageFacts
  <2>2. PICK e : e = [domain |-> s.domain, status |-> "pass"]
    OBVIOUS
  <2>3. e \in r.dkim.results
    BY <1>3, <1>8, <2>2 DEF VerifyDKIM
  <2>4. Claim("dkim", mapDKIMStatusToAuthRes(e.status), e.domain) = Claim("dkim", "pass", s.domain)
    BY <2>2 DEF mapDKIMStatusToAuthRes, DKIMStatus
  <2>5. Claim("dkim", "pass", s.domain) \in BuildAuthResultsHeader(m.from, r)
    BY <2>3, <2>4 DEF BuildAuthResultsHeader
  <2> QED  BY <1>1, <1>8, <2>1, <2>5
<1> QED  BY <1>6, <1>7, <1>8

\* Whatever a message says, its spam score is at most 1.
LEMMA ContentIsClamped ==
    ASSUME NEW m \in Message
    PROVE  VerifyContent(m.content) \in Nat /\ VerifyContent(m.content) <= 1000
<1>1. \A x \in Int : Clamp(x) \in Nat /\ Clamp(x) <= 1000
  BY DEF Clamp
<1>2. ASSUME NEW t \in TextAnalysis PROVE analyzeText(t) \in Int
  <2>1. t.patterns \in Nat /\ t.words \in {"tenth", "twentieth", "some", "none"} /\ t.phrases \in Nat
    BY DEF TextAnalysis
  <2>2. checkSpamWords(t.words) \in Int
    BY <2>1 DEF checkSpamWords
  <2>3. checkSuspiciousPhrases(t.phrases) \in Int
    BY <2>1 DEF checkSuspiciousPhrases
  <2> QED  BY <2>1, <2>2, <2>3 DEF analyzeText
<1>3. applyHeuristics(m.content.text, m.content.raw, m.content.headers) \in Int
  BY DEF applyHeuristics, analyzeHeaders, Weigh
<1>4. PICK x \in Int, y \in Int, z \in Int : /\ x = analyzeText(m.content.subject)
                                            /\ y = analyzeText(m.content.body)
                                            /\ z = applyHeuristics(m.content.text, m.content.raw, m.content.headers)
  BY <1>2, <1>3, MessageFacts
<1>5. PICK w \in Int : w = (x * 3) \div 2 + y + z
  OBVIOUS
<1>6. VerifyContent(m.content) \in {500, Clamp(w)}
  BY <1>4, <1>5 DEF VerifyContent
<1>7. Clamp(w) \in Nat /\ Clamp(w) <= 1000
  BY <1>1
<1> QED  BY <1>6, <1>7

\* A good sender's reputation is at least 0.7, so reputation adds at most 0.09 to the
\* risk and content at most 0.4; nothing else adds to it.
LEMMA GoodSendersHaveNothingToFear == GoodSendersAreAccepted
<1> SUFFICES ASSUME NEW m \in Message,
                    m.ip # "none", m.from # NoDomain,
                    VerifySPF(m.dns, m.ip, m.from) = "pass",
                    VerifyDKIM(m.signatures).valid,
                    m.dmarc.lookup \in {"found", "nopolicy"},
                    isPrivateIP(m.ip) \/ IPListings(m.ip, m.ipReplies) = 0,
                    ~ \E b \in DOMAIN m.domainReplies : checkDomainBlacklist(m.domainReplies[b]),
                    ~ hasSuspiciousTLD(m.about.tld)
             PROVE  VerifyEmail(DefaultConfig, m) = {"accept"}
  BY DEF GoodSendersAreAccepted
<1>1. PICK r : r = Checks(DefaultConfig, m)
  OBVIOUS
<1>2. /\ r.spf = "pass" /\ r.dkim = VerifyDKIM(m.signatures)
      /\ r.dmarc = VerifyDMARC(m.dmarc, "pass", VerifyDKIM(m.signatures), m.from)
      /\ r.reputation = VerifyReputation(m) /\ r.spam = VerifyContent(m.content)
  BY <1>1 DEF Checks, DefaultConfig
<1>3. r.dmarc.result \in {"pass", "none"}
  <2>1. CASE m.dmarc.lookup = "found"
    <3>1. checkSPFAlignment(m.dmarc, "pass", m.from)
      BY DEF checkSPFAlignment, Aligned
    <3> QED  BY <1>2, <2>1, <3>1 DEF VerifyDMARC, evaluateDMARCPolicy
  <2>2. CASE m.dmarc.lookup = "nopolicy"
    <3>1. PICK p : p = ""
      OBVIOUS
    <3>2. VerifyDMARC(m.dmarc, "pass", VerifyDKIM(m.signatures), m.from) = [policy |-> p, result |-> "none"]
      BY <2>2, <3>1 DEF VerifyDMARC
    <3>3. r.dmarc = [policy |-> p, result |-> "none"]
      BY <1>2, <3>2
    <3> QED  BY <3>3
  <2> QED  BY <2>1, <2>2
<1>4. checkIPReputation(m.ip, m.ipReplies) = [status |-> "good", lists |-> 0, adjust |-> 100]
  BY DEF checkIPReputation
<1>5. PICK age \in 0..150 : age = checkDomainAge(m.about)
  BY DEF checkDomainAge
<1>6. checkDomainReputation(m.domainReplies, m.about) = [status |-> "good", lists |-> 0, adjust |-> age + 100]
  <2>1. {b \in DOMAIN m.domainReplies : checkDomainBlacklist(m.domainReplies[b])} = {}
    OBVIOUS
  <2>2. Cardinality({b \in DOMAIN m.domainReplies : checkDomainBlacklist(m.domainReplies[b])}) = 0
    BY <2>1, FS_EmptySet
  <2> QED  BY <1>5, <2>2 DEF checkDomainReputation
<1>7. /\ r.reputation.ip = "good" /\ r.reputation.domain = "good" /\ r.reputation.blacklisted = 0
      /\ r.reputation.score \in Int
      /\ 700 <= r.reputation.score /\ r.reputation.score <= 1000
  <2>1. VerifyReputation(m) = [ip |-> "good", domain |-> "good", blacklisted |-> 0 + 0,
                               score |-> Clamp(500 + 100 + (age + 100))]
    BY <1>4, <1>6 DEF VerifyReputation
  <2>2. PICK s \in Int : s = Clamp(500 + 100 + (age + 100)) /\ 700 <= s /\ s <= 1000
    BY <1>5 DEF Clamp
  <2>3. r.reputation = [ip |-> "good", domain |-> "good", blacklisted |-> 0, score |-> s]
    BY <1>2, <2>1, <2>2
  <2> QED  BY <2>2, <2>3
<1>8. r.spam \in Nat /\ r.spam <= 1000
  BY <1>2, ContentIsClamped
<1>9. PICK risk \in Int : risk <= 490 /\ risk = RiskScore(DefaultConfig, r)
  <2>1. PICK s \in Int : s = r.reputation.score /\ 700 <= s /\ s <= 1000
    BY <1>7
  <2>2. PICK c \in Nat : c = r.spam /\ c <= 1000
    BY <1>8
  <2>3. PICK x \in Int : x = ((1000 - s) * 3) \div 10 /\ x <= 90
    BY <2>1
  <2>4. PICK y \in Int : y = (c * 4) \div 10 /\ y <= 400
    BY <2>2
  <2>5. ((1000 - r.reputation.score) * 3) \div 10 = x /\ (r.spam * 4) \div 10 = y
    BY <2>1, <2>2, <2>3, <2>4
  <2>6. RiskScore(DefaultConfig, r) = 0 + 0 + 0 + 0 + 0 + x + y + 200 * 0
    BY <1>2, <1>3, <1>7, <2>5 DEF RiskScore, DefaultConfig
  <2>7. 0 + 0 + 0 + 0 + 0 + x + y + 200 * 0 = x + y /\ x + y \in Int /\ x + y <= 490
    BY <2>3, <2>4
  <2> QED  BY <2>6, <2>7
<1>10. ASSUME NEW x \in Rounded(risk) PROVE riskScoreToAction(DefaultConfig, x, r) = "accept"
  <2>1. x \in Int /\ x <= 490
    BY <1>9 DEF Rounded
  <2> QED  BY <1>2, <1>3, <2>1 DEF riskScoreToAction, DefaultConfig
<1>11. VerifyEmail(DefaultConfig, m) = {riskScoreToAction(DefaultConfig, x, r) : x \in Rounded(risk)}
  BY <1>1, <1>9 DEF VerifyEmail
<1>12. risk \in Rounded(risk)
  BY DEF Rounded
<1> QED  BY <1>10, <1>11, <1>12

\* Whatever the resolver says and however records include one another, also in circles,
\* SPF says "pass" only for a sender that a record authorises, and the header that is
\* stored claims dmarc=pass only beside a claim that backs it: PassIsAuthorised for
\* every zone, every message and every depth limit.
THEOREM PassesHaveACause == Spec => []PassIsAuthorised
<1>1. PassIsAuthorised
  BY SPFPassesHaveCause, DMARCPassesHaveCause DEF PassIsAuthorised, PassesAreAuthorised
<1> QED  BY <1>1, PTL

\* No text, heuristic or header brings a message that SPF and DKIM vouch for, from a
\* sender on no list, to quarantine: GoodSenderIsAccepted for every message.
THEOREM ContentAloneIsNoVerdict == Spec => []GoodSenderIsAccepted
<1>1. GoodSenderIsAccepted
  BY GoodSendersHaveNothingToFear DEF GoodSenderIsAccepted
<1> QED  BY <1>1, PTL

-----------------------------------------------------------------------------
(* What is shown of received mail.  Sums over the groups of a report.       *)

\* Of disjoint sets.
LEMMA Disjoint ==
    ASSUME NEW A, NEW B, IsFiniteSet(A), IsFiniteSet(B), A \cap B = {}
    PROVE  /\ IsFiniteSet(A \cup B)
           /\ Cardinality(A \cup B) = Cardinality(A) + Cardinality(B)
<1>1. Cardinality(A) \in Nat /\ Cardinality(B) \in Nat /\ Cardinality(A \cap B) = 0
  BY FS_CardinalityType, FS_EmptySet
<1>2. IsFiniteSet(A \cup B) /\ Cardinality(A \cup B) = Cardinality(A) + Cardinality(B) - Cardinality(A \cap B)
  BY FS_Union
<1> QED  BY <1>1, <1>2

\* What the elements of S with a column in s are.
Fibres(S, c, s) == {i \in S : c[i] \in s}

\* The recursion of a sum over the values of a column.
Adds(D, g, f) ==
    f = [s \in SUBSET D |-> IF s = {} THEN 0 ELSE g[CHOOSE x \in s : TRUE] + f[s \ {CHOOSE x \in s : TRUE}]]

\* g has the size of the fibre of each value.
Sizes(S, c, D, g) ==
    /\ \A i \in S : c[i] \in D
    /\ \A v \in D : g[v] = Cardinality({i \in S : c[i] = v})

LEMMA FibresSplit ==
    ASSUME NEW S, IsFiniteSet(S), NEW c, NEW s, NEW x \in s
    PROVE  /\ IsFiniteSet(Fibres(S, c, s)) /\ Cardinality(Fibres(S, c, s)) \in Nat
           /\ Cardinality(Fibres(S, c, s)) =
                 Cardinality({i \in S : c[i] = x}) + Cardinality(Fibres(S, c, s \ {x}))
<1> DEFINE A == {i \in S : c[i] = x}
           B == Fibres(S, c, s \ {x})
<1>1. IsFiniteSet(A) /\ IsFiniteSet(B) /\ IsFiniteSet(Fibres(S, c, s))
  BY FS_Subset DEF Fibres
<1>2. A \cap B = {} /\ A \cup B = Fibres(S, c, s)
  BY DEF Fibres
<1>3. Cardinality(A \cup B) = Cardinality(A) + Cardinality(B)
  <2> HIDE DEF A, B
  <2> QED  BY <1>1, <1>2, Disjoint
<1> QED  BY <1>1, <1>2, <1>3, FS_CardinalityType

\* A sum of the sizes of the fibres counts all.
LEMMA FibreSum ==
    ASSUME NEW S, IsFiniteSet(S), NEW D, IsFiniteSet(D), NEW c, NEW g, Sizes(S, c, D, g)
    PROVE  /\ \E f : Adds(D, g, f)
           /\ \A f : Adds(D, g, f) => f[D] = Cardinality(S)
<1> DEFINE h == [s \in SUBSET D |-> Cardinality(Fibres(S, c, s))]
<1>0. \A s \in SUBSET D : s # {} => (CHOOSE x \in s : TRUE) \in s
  OBVIOUS
<1>1. \A s \in SUBSET D : s # {} =>
         Cardinality(Fibres(S, c, s)) = g[CHOOSE x \in s : TRUE] + Cardinality(Fibres(S, c, s \ {CHOOSE x \in s : TRUE}))
  <2> SUFFICES ASSUME NEW s \in SUBSET D, s # {}
               PROVE  Cardinality(Fibres(S, c, s)) = g[CHOOSE x \in s : TRUE] + Cardinality(Fibres(S, c, s \ {CHOOSE x \in s : TRUE}))
    OBVIOUS
  <2>1. PICK x \in s : x = CHOOSE y \in s : TRUE
    BY <1>0
  <2>2. g[x] = Cardinality({i \in S : c[i] = x})
    BY DEF Sizes
  <2>3. Cardinality(Fibres(S, c, s)) = g[x] + Cardinality(Fibres(S, c, s \ {x}))
    BY <2>2, FibresSplit
  <2> QED  BY <2>1, <2>3
<1>2. Cardinality(Fibres(S, c, {})) = 0
  <2>1. Fibres(S, c, {}) = {}
    BY DEF Fibres
  <2> QED  BY <2>1, FS_EmptySet
<1>3. Adds(D, g, h)
  BY <1>1, <1>2 DEF Adds
<1>4. ASSUME NEW f, Adds(D, g, f) PROVE f[D] = Cardinality(S)
  <2> DEFINE P == {n \in Nat : \A s \in SUBSET D : Cardinality(s) = n => f[s] = Cardinality(Fibres(S, c, s))}
  <2>1. \A s \in SUBSET D : IsFiniteSet(s) /\ Cardinality(s) \in Nat /\ (Cardinality(s) = 0 <=> s = {})
    BY FS_Subset, FS_CardinalityType, FS_EmptySet
  <2>2. 0 \in P
    BY <1>2, <1>4, <2>1 DEF Adds
  <2>3. ASSUME NEW n \in Nat, n \in P PROVE n + 1 \in P
    <3> SUFFICES ASSUME NEW s \in SUBSET D, Cardinality(s) = n + 1 PROVE f[s] = Cardinality(Fibres(S, c, s))
      OBVIOUS
    <3>1. s # {}
      BY <2>1
    <3>2. PICK x \in s : x = CHOOSE y \in s : TRUE
      BY <1>0, <3>1
    <3>3. s \ {x} \in SUBSET D /\ Cardinality(s \ {x}) = n
      <4>1. IsFiniteSet(s) /\ x \in s
        BY <2>1
      <4>2. Cardinality(s \ {x}) = Cardinality(s) - 1
        BY <4>1, FS_RemoveElement
      <4> QED  BY <4>2
    <3>4. f[s \ {x}] = Cardinality(Fibres(S, c, s \ {x}))
      BY <2>3, <3>3
    <3>5. f[s] = g[x] + f[s \ {x}]
      BY <1>4, <3>1, <3>2 DEF Adds
    <3> QED  BY <1>1, <3>1, <3>2, <3>4, <3>5
  <2> HIDE DEF P
  <2>4. \A n \in Nat : n \in P
    BY <2>2, <2>3, NumberInduction
  <2>5. f[D] = Cardinality(Fibres(S, c, D))
    BY <2>1, <2>4 DEF P
  <2>6. Fibres(S, c, D) = S
    BY DEF Fibres, Sizes
  <2> QED  BY <2>5, <2>6
<1> QED  BY <1>3, <1>4

\* So does the function the sum is defined by.
LEMMA SumOfFibres ==
    ASSUME NEW S, IsFiniteSet(S), NEW D, IsFiniteSet(D), NEW c, NEW g, Sizes(S, c, D, g)
    PROVE  Adds(D, g, CHOOSE f : Adds(D, g, f)) /\ (CHOOSE f : Adds(D, g, f))[D] = Cardinality(S)
<1>1. (\E f : Adds(D, g, f)) /\ \A f : Adds(D, g, f) => f[D] = Cardinality(S)
  BY FibreSum
<1>2. Adds(D, g, CHOOSE f : Adds(D, g, f))
  BY <1>1, Zenon
<1> QED  BY <1>1, <1>2, Zenon

\* The values of a column.
LEMMA ImageFinite ==
    ASSUME NEW S, IsFiniteSet(S), NEW c
    PROVE  IsFiniteSet({c[i] : i \in S})
<1> DEFINE D == {c[i] : i \in S}
           k == [i \in S |-> c[i]]
<1>1. k \in Surjection(S, D)
  BY DEF Surjection
<1> HIDE DEF D, k
<1>2. IsFiniteSet(D)
  BY <1>1, FS_Surjection
<1> QED  BY <1>2 DEF D

\* A GROUP BY counts every row once.
LEMMA GroupsAddUp ==
    ASSUME NEW S, IsFiniteSet(S), NEW c,
           NEW d, d = [v \in {c[i] : i \in S} |-> Cardinality({i \in S : c[i] = v})]
    PROVE  Total(d) = Cardinality(S)
<1>1. PICK D : D = {c[i] : i \in S}
  OBVIOUS
<1>2. IsFiniteSet(D)
  BY <1>1, ImageFinite
<1>3. DOMAIN d = D /\ Sizes(S, c, D, d)
  BY <1>1 DEF Sizes
<1>4. MapThenSumSet(LAMBDA v : d[v], D) = (CHOOSE f : Adds(D, d, f))[D]
  BY DEF MapThenSumSet, MapThenFoldSet, Adds
<1>5. (CHOOSE f : Adds(D, d, f))[D] = Cardinality(S)
  BY ONLY IsFiniteSet(S), <1>2, <1>3, SumOfFibres
<1>6. Total(d) = MapThenSumSet(LAMBDA v : d[v], D)
  BY <1>3 DEF Total
<1> QED  BY <1>4, <1>5, <1>6

\* Every row has one of the four actions.
LEMMA ActionsPartition ==
    ASSUME NEW T, NEW S, IsFiniteSet(S), \A i \in S : T[i].action \in Action
    PROVE  Cardinality(Of(T, S, "accept")) + Cardinality(Of(T, S, "reject"))
              + Cardinality(Of(T, S, "quarantine")) + Cardinality(Of(T, S, "tempfail")) = Cardinality(S)
<1> DEFINE A == Of(T, S, "accept")
           B == Of(T, S, "reject")
           C == Of(T, S, "quarantine")
           D == Of(T, S, "tempfail")
<1>1. IsFiniteSet(A) /\ IsFiniteSet(B) /\ IsFiniteSet(C) /\ IsFiniteSet(D)
  BY FS_Subset DEF Of
<1>2. /\ S = ((A \cup B) \cup C) \cup D
      /\ A \cap B = {} /\ (A \cup B) \cap C = {} /\ ((A \cup B) \cup C) \cap D = {}
  BY DEF Of, Action
<1> HIDE DEF A, B, C, D
<1>3. IsFiniteSet(A \cup B) /\ Cardinality(A \cup B) = Cardinality(A) + Cardinality(B)
  BY <1>1, <1>2, Disjoint
<1>4. IsFiniteSet((A \cup B) \cup C) /\ Cardinality((A \cup B) \cup C) = Cardinality(A \cup B) + Cardinality(C)
  BY <1>1, <1>2, <1>3, Disjoint
<1>5. Cardinality(S) = Cardinality((A \cup B) \cup C) + Cardinality(D)
  BY <1>1, <1>2, <1>4, Disjoint
<1>6. Cardinality(S) = Cardinality(A) + Cardinality(B) + Cardinality(C) + Cardinality(D)
  BY <1>3, <1>4, <1>5
<1> QED  BY <1>6 DEF A, B, C, D

\* Rows of a table.
LEMMA TableFacts ==
    ASSUME NEW T \in Table, NEW f
    PROVE  /\ IsFiniteSet(DOMAIN T) /\ DOMAIN T \subseteq Nat
           /\ IsFiniteSet(Selected(T, f)) /\ Selected(T, f) \subseteq DOMAIN T
           /\ \A i \in DOMAIN T : T[i].action \in Action /\ T[i].at \in Nat
<1>1. /\ T \in Seq({T[i] : i \in DOMAIN T})
      /\ \A i \in DOMAIN T : \E b \in Inbox, d \in Sender, o \in Outcome :
            T[i].at \in Nat /\ T[i] = RecordVerificationResult(b, T[i].at, d, o)
  BY TableAssumption
<1>2. PICK n \in Nat : DOMAIN T = 1..n /\ IsFiniteSet(1..n)
  BY <1>1, FS_Interval
<1>3. ASSUME NEW i \in DOMAIN T PROVE T[i].action \in Action /\ T[i].at \in Nat
  <2>1. PICK b \in Inbox, d \in Sender, o \in Outcome :
           T[i].at \in Nat /\ T[i] = RecordVerificationResult(b, T[i].at, d, o)
    BY <1>1
  <2>2. T[i].action = o.action
    BY <2>1 DEF RecordVerificationResult
  <2> QED  BY <2>1, <2>2, OutcomeAssumption DEF Action
<1>5. Selected(T, f) \subseteq DOMAIN T
  BY DEF Selected
<1>6. IsFiniteSet(Selected(T, f))
  BY <1>2, <1>5, FS_Subset
<1> QED  BY <1>2, <1>3, <1>5, <1>6

\* The four counts of the overview add up.
LEMMA OverviewAddsUp ==
    ASSUME NEW T \in Table, NEW f
    PROVE  Sum(GetOverview(T, f)) = GetOverview(T, f).total
<1>1. IsFiniteSet(Selected(T, f)) /\ \A i \in Selected(T, f) : T[i].action \in Action
  BY TableFacts
<1> QED  BY <1>1, ActionsPartition DEF Sum, GetOverview

\* Every distribution counts every selected row.
LEMMA DistributionsAddUp ==
    ASSUME NEW T \in Table, NEW f, NEW k \in 1..6
    PROVE  Total(GetDistributions(T, f)[k]) = GetOverview(T, f).total
<1>1. PICK S : S = Selected(T, f) /\ IsFiniteSet(S)
  BY TableFacts
<1>2. GetOverview(T, f).total = Cardinality(S)
  BY <1>1 DEF GetOverview
<1>3. Total(GetActionDistribution(T, f)) = Cardinality(S)
  <2> DEFINE c == [i \in S |-> T[i].action]
  <2>1. GetActionDistribution(T, f) = [v \in {c[i] : i \in S} |-> Cardinality({i \in S : c[i] = v})]
    BY <1>1 DEF GetActionDistribution, Distribution
  <2> HIDE DEF c
  <2> QED  BY <1>1, <2>1, GroupsAddUp
<1>4. Total(GetReputationDistribution(T, f)) = Cardinality(S)
  <2> DEFINE c == [i \in S |-> ScoreRange(T[i].rep)]
  <2>1. GetReputationDistribution(T, f) = [v \in {c[i] : i \in S} |-> Cardinality({i \in S : c[i] = v})]
    BY <1>1 DEF GetReputationDistribution, Distribution
  <2> HIDE DEF c
  <2> QED  BY <1>1, <2>1, GroupsAddUp
<1>5. Total(GetContentDistribution(T, f)) = Cardinality(S)
  <2> DEFINE c == [i \in S |-> T[i].verdict]
  <2>1. GetContentDistribution(T, f) = [v \in {c[i] : i \in S} |-> Cardinality({i \in S : c[i] = v})]
    BY <1>1 DEF GetContentDistribution, Distribution
  <2> HIDE DEF c
  <2> QED  BY <1>1, <2>1, GroupsAddUp
<1>6. Total(GetSPFDistribution(T, f)) = Cardinality(S)
  <2> DEFINE c == [i \in S |-> T[i].spf]
  <2>1. GetSPFDistribution(T, f) = [v \in {c[i] : i \in S} |-> Cardinality({i \in S : c[i] = v})]
    BY <1>1 DEF GetSPFDistribution, Distribution
  <2> HIDE DEF c
  <2> QED  BY <1>1, <2>1, GroupsAddUp
<1>7. Total(GetDKIMDistribution(T, f)) = Cardinality(S)
  <2> DEFINE c == [i \in S |-> T[i].dkim]
  <2>1. GetDKIMDistribution(T, f) = [v \in {c[i] : i \in S} |-> Cardinality({i \in S : c[i] = v})]
    BY <1>1 DEF GetDKIMDistribution, Distribution
  <2> HIDE DEF c
  <2> QED  BY <1>1, <2>1, GroupsAddUp
<1>8. Total(GetDMARCDistribution(T, f)) = Cardinality(S)
  <2> DEFINE c == [i \in S |-> T[i].dmarc]
  <2>1. GetDMARCDistribution(T, f) = [v \in {c[i] : i \in S} |-> Cardinality({i \in S : c[i] = v})]
    BY <1>1 DEF GetDMARCDistribution, Distribution
  <2> HIDE DEF c
  <2> QED  BY <1>1, <2>1, GroupsAddUp
<1>9. /\ GetDistributions(T, f)[1] = GetActionDistribution(T, f)
      /\ GetDistributions(T, f)[2] = GetReputationDistribution(T, f)
      /\ GetDistributions(T, f)[3] = GetContentDistribution(T, f)
      /\ GetDistributions(T, f)[4] = GetSPFDistribution(T, f)
      /\ GetDistributions(T, f)[5] = GetDKIMDistribution(T, f)
      /\ GetDistributions(T, f)[6] = GetDMARCDistribution(T, f)
  BY DEF GetDistributions
<1>10. k = 1 \/ k = 2 \/ k = 3 \/ k = 4 \/ k = 5 \/ k = 6
  OBVIOUS
<1> QED  BY <1>2, <1>3, <1>4, <1>5, <1>6, <1>7, <1>8, <1>9, <1>10

\* The points of the timeline count every selected row.
LEMMA TimelineAddsUp ==
    ASSUME NEW T \in Table, NEW f, NEW granularity,
           NEW series, series = GetTimeSeriesData(T, f, granularity)
    PROVE  MapThenSumSet(LAMBDA b : Sum(series[b]), DOMAIN series) = GetOverview(T, f).total
<1>1. PICK S : S = Selected(T, f) /\ IsFiniteSet(S) /\ \A i \in S : T[i].action \in Action
  BY TableFacts
<1>2. GetOverview(T, f).total = Cardinality(S)
  BY <1>1 DEF GetOverview
<1> DEFINE c == [i \in S |-> Truncated(granularity, T[i].at)]
           D == {c[i] : i \in S}
           g == [b \in D |-> Sum(series[b])]
           u(b) == {i \in S : c[i] = b}
<1>3. /\ DOMAIN series = D
      /\ \A b \in D : series[b] = [accepted |-> Cardinality(Of(T, u(b), "accept")),
                                   rejected |-> Cardinality(Of(T, u(b), "reject")),
                                   quarantined |-> Cardinality(Of(T, u(b), "quarantine")),
                                   tempfail |-> Cardinality(Of(T, u(b), "tempfail"))]
  <2>1. {Truncated(granularity, T[i].at) : i \in S} = D
    OBVIOUS
  <2>2. \A b : {i \in S : Truncated(granularity, T[i].at) = b} = u(b)
    OBVIOUS
  <2> QED  BY <1>1, <2>1, <2>2 DEF GetTimeSeriesData
<1>4. ASSUME NEW b \in D PROVE g[b] = Cardinality(u(b))
  <2>1. IsFiniteSet(u(b)) /\ \A i \in u(b) : T[i].action \in Action
    BY <1>1, FS_Subset
  <2> HIDE DEF D, u
  <2>2. g[b] = Cardinality(Of(T, u(b), "accept")) + Cardinality(Of(T, u(b), "reject"))
                 + Cardinality(Of(T, u(b), "quarantine")) + Cardinality(Of(T, u(b), "tempfail"))
    <3>1. g[b] = Sum(series[b])
      BY <1>4
    <3>2. PICK r : r = series[b]
      OBVIOUS
    <3>3. /\ r.accepted = Cardinality(Of(T, u(b), "accept")) /\ r.rejected = Cardinality(Of(T, u(b), "reject"))
          /\ r.quarantined = Cardinality(Of(T, u(b), "quarantine")) /\ r.tempfail = Cardinality(Of(T, u(b), "tempfail"))
      <4>1. PICK k, l, m, n : /\ k = Cardinality(Of(T, u(b), "accept")) /\ l = Cardinality(Of(T, u(b), "reject"))
                              /\ m = Cardinality(Of(T, u(b), "quarantine")) /\ n = Cardinality(Of(T, u(b), "tempfail"))
        OBVIOUS
      <4>2. r = [accepted |-> k, rejected |-> l, quarantined |-> m, tempfail |-> n]
        BY <1>3, <1>4, <3>2, <4>1, Zenon
      <4> QED  BY ONLY <4>1, <4>2
    <3> HIDE DEF g
    <3> QED  BY <3>1, <3>2, <3>3 DEF Sum
  <2> QED  BY <2>1, <2>2, ActionsPartition
<1>5. Sizes(S, c, D, g)
  BY <1>4 DEF Sizes
<1>6. IsFiniteSet(D)
  <2> HIDE DEF c
  <2> QED  BY <1>1, ImageFinite
<1> HIDE DEF c, D
<1>7. (\E h : Adds(D, g, h)) /\ \A h : Adds(D, g, h) => h[D] = Cardinality(S)
  <2> HIDE DEF g
  <2> QED  BY <1>1, <1>5, <1>6, FibreSum
<1> DEFINE W(h) == h = [s \in SUBSET D |-> IF s = {} THEN 0 ELSE Sum(series[CHOOSE x \in s : TRUE]) + h[s \ {CHOOSE x \in s : TRUE}]]
<1>8. \A h : W(h) <=> Adds(D, g, h)
  <2>1. \A s \in SUBSET D : s # {} => g[CHOOSE x \in s : TRUE] = Sum(series[CHOOSE x \in s : TRUE])
    OBVIOUS
  <2> HIDE DEF g
  <2> QED  BY <2>1 DEF Adds
<1>9. MapThenSumSet(LAMBDA b : Sum(series[b]), D) = (CHOOSE h : W(h))[D]
  BY DEF MapThenSumSet, MapThenFoldSet
<1> HIDE DEF W, g
<1>10. W(CHOOSE h : W(h))
  BY <1>7, <1>8, Zenon
<1> QED  BY <1>2, <1>3, <1>7, <1>8, <1>9, <1>10

-----------------------------------------------------------------------------
(* Listings: in what order rows come, and how pages cut them.               *)

\* s goes from the greatest key to the least.
Ranked(s, key) == \A j, k \in DOMAIN s : j < k => key[s[j]] >= key[s[k]]

\* A listing of D has each of its elements once.
LEMMA OrderingFacts ==
    ASSUME NEW D, IsFiniteSet(D), NEW s \in SetToSeqs(D)
    PROVE  /\ s \in Seq(D) /\ Len(s) = Cardinality(D) /\ DOMAIN s = 1..Cardinality(D)
           /\ {s[k] : k \in DOMAIN s} = D
           /\ \A i, j \in DOMAIN s : s[i] = s[j] => i = j
<1>1. PICK n \in Nat : n = Cardinality(D)
  BY FS_CardinalityType
<1>2. s \in [1..n -> D] /\ \A i, j \in 1..n : i # j => s[i] # s[j]
  BY <1>1 DEF SetToSeqs
<1>3. s \in Seq(D) /\ Len(s) = n /\ DOMAIN s = 1..n
  BY <1>2
<1>4. s \in Injection(1..n, D)
  BY <1>2 DEF Injection, IsInjective
<1>5. IsFiniteSet(1..n) /\ Cardinality(1..n) = n
  <2>1. IsFiniteSet(1..n) /\ Cardinality(1..n) = IF 1 > n THEN 0 ELSE n - 1 + 1
    BY FS_Interval
  <2> QED  BY <2>1
<1>6. s \in Surjection(1..n, D)
  BY <1>1, <1>4, <1>5, FS_Injection
<1>7. {s[k] : k \in DOMAIN s} = D
  BY <1>2, <1>6 DEF Surjection
<1> QED  BY <1>1, <1>2, <1>3, <1>7

\* A finite set can be listed in descending order of any number its elements have.
LEMMA RankingExists ==
    ASSUME NEW D, IsFiniteSet(D), NEW key \in [D -> Nat]
    PROVE  \E s \in SetToSeqs(D) : Ranked(s, key)
<1> DEFINE P == {n \in Nat : \A E \in SUBSET D : Cardinality(E) = n => \E s \in SetToSeqs(E) : Ranked(s, key)}
<1>0. \A E \in SUBSET D : IsFiniteSet(E) /\ Cardinality(E) \in Nat /\ (Cardinality(E) = 0 <=> E = {})
  BY FS_Subset, FS_CardinalityType, FS_EmptySet
<1>1. 0 \in P
  <2> SUFFICES ASSUME NEW E \in SUBSET D, Cardinality(E) = 0 PROVE \E s \in SetToSeqs(E) : Ranked(s, key)
    OBVIOUS
  <2>1. [i \in 1..0 |-> i] \in SetToSeqs(E) /\ Ranked([i \in 1..0 |-> i], key)
    BY DEF SetToSeqs, Ranked
  <2> QED  BY <2>1
<1>2. ASSUME NEW n \in Nat, n \in P PROVE n + 1 \in P
  <2> SUFFICES ASSUME NEW E \in SUBSET D, Cardinality(E) = n + 1 PROVE \E s \in SetToSeqs(E) : Ranked(s, key)
    OBVIOUS
  <2>1. E # {}
    BY <1>0
  <2>2. PICK m \in E : \A x \in E : key[m] <= key[x]
    <3>1. {key[x] : x \in E} \subseteq Nat /\ {key[x] : x \in E} # {}
      BY <2>1
    <3>2. PICK v \in {key[x] : x \in E} : \A w \in {key[x] : x \in E} : v <= w
      BY <3>1, LeastNumber
    <3> QED  BY <3>2
  <2>3. E \ {m} \in SUBSET D /\ Cardinality(E \ {m}) = n
    <3>1. IsFiniteSet(E) /\ m \in E
      BY <1>0
    <3>2. Cardinality(E \ {m}) = Cardinality(E) - 1
      BY <3>1, FS_RemoveElement
    <3> QED  BY <3>2
  <2>4. PICK s \in SetToSeqs(E \ {m}) : Ranked(s, key)
    BY <1>2, <2>3
  <2>5. s \in [1..n -> E \ {m}] /\ \A i, j \in 1..n : i # j => s[i] # s[j]
    BY <2>3 DEF SetToSeqs
  <2> DEFINE t == [i \in 1..(n + 1) |-> IF i = n + 1 THEN m ELSE s[i]]
  <2>6. t \in [1..(n + 1) -> E]
    BY <2>5
  <2>7. \A i, j \in 1..(n + 1) : i # j => t[i] # t[j]
    BY <2>5
  <2>8. t \in SetToSeqs(E)
    BY <2>6, <2>7 DEF SetToSeqs
  <2>9. Ranked(t, key)
    <3> SUFFICES ASSUME NEW j \in 1..(n + 1), NEW k \in 1..(n + 1), j < k PROVE key[t[j]] >= key[t[k]]
      BY DEF Ranked
    <3>1. CASE k = n + 1
      <4>1. t[k] = m /\ t[j] \in E /\ key[t[j]] \in Nat /\ key[m] \in Nat
        BY <2>6, <3>1
      <4> QED  BY <2>2, <4>1
    <3>2. CASE k # n + 1
      <4>1. j \in DOMAIN s /\ k \in DOMAIN s /\ t[k] = s[k] /\ t[j] = s[j]
        BY <2>5, <3>2
      <4> QED  BY <2>4, <4>1 DEF Ranked
    <3> QED  BY <3>1, <3>2
  <2> QED  BY <2>8, <2>9
<1> HIDE DEF P
<1>3. \A n \in Nat : n \in P
  BY <1>1, <1>2, NumberInduction
<1> QED  BY <1>0, <1>3 DEF P

\* The place of an element in a listing without ties.
LEMMA RankIsPlace ==
    ASSUME NEW D, IsFiniteSet(D), NEW key \in [D -> Nat], \A x, y \in D : key[x] = key[y] => x = y,
           NEW s \in SetToSeqs(D), Ranked(s, key), NEW i \in DOMAIN s
    PROVE  Cardinality({x \in D : key[x] >= key[s[i]]}) = i
<1>1. /\ s \in Seq(D) /\ DOMAIN s = 1..Len(s)
      /\ {s[k] : k \in DOMAIN s} = D
      /\ \A j, k \in DOMAIN s : s[j] = s[k] => j = k
  BY OrderingFacts
<1>2. i \in Nat /\ i <= Len(s) /\ i >= 1 /\ Len(s) \in Nat
  BY <1>1
<1> DEFINE R == {x \in D : key[x] >= key[s[i]]}
           t == [k \in 1..i |-> s[k]]
<1>3. \A k \in DOMAIN s : s[k] \in D /\ key[s[k]] \in Nat
  BY <1>1
<1>4. \A k \in DOMAIN s : key[s[k]] >= key[s[i]] <=> k <= i
  <2> SUFFICES ASSUME NEW k \in DOMAIN s PROVE key[s[k]] >= key[s[i]] <=> k <= i
    OBVIOUS
  <2>0. k \in Nat
    BY <1>1
  <2>1. CASE k < i
    BY <1>2, <2>0, <2>1 DEF Ranked
  <2>2. CASE k = i
    BY <1>2, <1>3, <2>2
  <2>3. CASE i < k
    <3>1. key[s[i]] >= key[s[k]]
      BY <2>3 DEF Ranked
    <3>2. key[s[i]] # key[s[k]]
      BY <1>1, <1>2, <1>3, <2>0, <2>3
    <3> QED  BY <1>2, <1>3, <2>0, <2>3, <3>1, <3>2
  <2> QED  BY <1>2, <2>0, <2>1, <2>2, <2>3
<1>5. \A k \in 1..i : k \in DOMAIN s
  BY <1>1, <1>2
<1>6. t \in [1..i -> R]
  BY <1>3, <1>4, <1>5
<1>7. t \in Bijection(1..i, R)
  <2>1. \A j, k \in 1..i : t[j] = t[k] => j = k
    BY <1>1, <1>5
  <2>2. \A x \in R : \E k \in 1..i : t[k] = x
    <3> SUFFICES ASSUME NEW x \in R PROVE \E k \in 1..i : t[k] = x
      OBVIOUS
    <3>1. PICK k \in DOMAIN s : s[k] = x
      BY <1>1
    <3>2. k \in 1..i
      BY <1>1, <1>2, <1>4, <3>1
    <3> QED  BY <3>1, <3>2
  <2> QED  BY <1>6, <2>1, <2>2 DEF Bijection, Injection, Surjection, IsInjective
<1>8. IsFiniteSet(1..i) /\ Cardinality(1..i) = i
  <2>1. 1 \in Int /\ i \in Int
    BY <1>2
  <2>2. IsFiniteSet(1..i) /\ Cardinality(1..i) = IF 1 > i THEN 0 ELSE i - 1 + 1
    BY ONLY <2>1, FS_Interval
  <2> QED  BY ONLY <1>2, <2>2
<1> HIDE DEF R, t
<1>9. ExistsBijection(1..i, R)
  BY <1>7 DEF ExistsBijection
<1>10. Cardinality(R) = i
  BY <1>8, <1>9, FS_Bijection
<1> QED  BY <1>10 DEF R

\* Without ties there is one listing.
LEMMA RankingUnique ==
    ASSUME NEW D, IsFiniteSet(D), NEW key \in [D -> Nat], \A x, y \in D : key[x] = key[y] => x = y,
           NEW s \in SetToSeqs(D), Ranked(s, key), NEW t \in SetToSeqs(D), Ranked(t, key)
    PROVE  s = t
<1>1. /\ s \in Seq(D) /\ t \in Seq(D) /\ Len(s) = Len(t) /\ DOMAIN s = DOMAIN t
      /\ {t[k] : k \in DOMAIN t} = D
  BY OrderingFacts
<1>2. ASSUME NEW i \in DOMAIN s PROVE s[i] = t[i]
  <2>1. s[i] \in D
    BY <1>1
  <2>2. PICK k \in DOMAIN t : t[k] = s[i]
    BY <1>1, <2>1
  <2>3. Cardinality({x \in D : key[x] >= key[s[i]]}) = i
    BY RankIsPlace
  <2>4. Cardinality({x \in D : key[x] >= key[t[k]]}) = k
    BY RankIsPlace
  <2>5. i = k
    BY <2>2, <2>3, <2>4
  <2> QED  BY <2>2, <2>5
<1>3. s = [i \in DOMAIN s |-> s[i]] /\ t = [i \in DOMAIN s |-> t[i]]
  BY <1>1
<1> QED  BY <1>2, <1>3

\* The recursion of FlattenSeq.
Flattens(pages, n, f) == f = [i \in 1..n |-> IF i = 1 THEN pages[i] ELSE f[i - 1] \o pages[i]]

\* The pages of s end at the places off.
Cuts(s, n, off, pages) ==
    /\ off \in [0..n -> 0..Len(s)] /\ off[0] = 0 /\ off[n] = Len(s)
    /\ \A k \in 1..n : off[k - 1] <= off[k]
    /\ \A k \in 1..n : pages[k] = SubSeq(s, off[k - 1] + 1, off[k])

\* One page after another, a sequence that was cut into pages is whole again.
LEMMA FlattenPages ==
    ASSUME NEW X, NEW s \in Seq(X), NEW n \in Nat, n >= 1, NEW off, NEW pages, Cuts(s, n, off, pages)
    PROVE  (CHOOSE f : Flattens(pages, n, f))[n] = s
<1> DEFINE g == [i \in 1..n |-> SubSeq(s, 1, off[i])]
<1>0. Len(s) \in Nat
  OBVIOUS
<1>1. ASSUME NEW i \in 1..n, i # 1 PROVE SubSeq(s, 1, off[i - 1]) \o pages[i] = SubSeq(s, 1, off[i])
  <2>1. PICK a, b : a = off[i - 1] /\ b = off[i]
    OBVIOUS
  <2>2. i - 1 \in 0..n /\ i \in 0..n
    BY <1>1
  <2>3. a \in 0..Len(s) /\ b \in a..Len(s) /\ pages[i] = SubSeq(s, a + 1, b)
    <3>1. off[i - 1] \in 0..Len(s) /\ off[i] \in 0..Len(s)
      BY <2>2 DEF Cuts
    <3>2. off[i - 1] <= off[i]
      BY DEF Cuts
    <3>3. pages[i] = SubSeq(s, off[i - 1] + 1, off[i])
      BY Zenon DEF Cuts
    <3> QED  BY ONLY <1>0, <2>1, <3>1, <3>2, <3>3
  <2>4. 1 \in 1..Len(s) + 1 /\ a \in 1 - 1..Len(s)
    BY <1>0, <2>3
  <2>5. SubSeq(s, 1, a) \o SubSeq(s, a + 1, b) = SubSeq(s, 1, b)
    BY ONLY s \in Seq(X), <2>3, <2>4, ConcatAdjacentSubSeq
  <2> QED  BY ONLY <2>1, <2>3, <2>5
<1>2. SubSeq(s, 1, off[1]) = pages[1]
  <2>1. 1 \in 1..n /\ 1 - 1 = 0
    OBVIOUS
  <2>2. off[0] = 0
    BY DEF Cuts
  <2>3. pages[1] = SubSeq(s, off[1 - 1] + 1, off[1])
    BY <2>1, Zenon DEF Cuts
  <2>4. off[1 - 1] + 1 = 1
    BY <2>1, <2>2
  <2> QED  BY <2>3, <2>4
<1>3. Flattens(pages, n, g)
  <2>1. ASSUME NEW i \in 1..n PROVE g[i] = IF i = 1 THEN pages[i] ELSE g[i - 1] \o pages[i]
    <3>1. CASE i = 1
      BY <1>2, <3>1
    <3>2. CASE i # 1
      <4>1. i - 1 \in 1..n
        BY <3>2
      <4> QED  BY <1>1, <3>2, <4>1
    <3> QED  BY <3>1, <3>2
  <2> QED  BY <2>1 DEF Flattens
<1>4. PICK f : f = CHOOSE h : Flattens(pages, n, h)
  OBVIOUS
<1>5. Flattens(pages, n, f)
  <2> HIDE DEF g
  <2> QED  BY <1>3, <1>4, Zenon
<1>6. /\ f[1] = pages[1]
      /\ \A i \in 1..n : i # 1 => f[i] = f[i - 1] \o pages[i]
  <2>1. 1 \in 1..n
    OBVIOUS
  <2> QED  BY <1>5, <2>1 DEF Flattens
<1> DEFINE P == {m \in Nat : m + 1 \in 1..n => f[m + 1] = SubSeq(s, 1, off[m + 1])}
<1>7. 0 \in P
  <2>1. 0 + 1 = 1
    OBVIOUS
  <2> QED  BY <1>2, <1>6, <2>1
<1>8. ASSUME NEW m \in Nat, m \in P PROVE m + 1 \in P
  <2> SUFFICES ASSUME m + 1 + 1 \in 1..n PROVE f[m + 1 + 1] = SubSeq(s, 1, off[m + 1 + 1])
    OBVIOUS
  <2>1. PICK i \in 1..n : i = m + 1 + 1
    OBVIOUS
  <2>2. i # 1 /\ i - 1 = m + 1 /\ i - 1 \in 1..n
    BY <2>1
  <2>3. f[i - 1] = SubSeq(s, 1, off[i - 1])
    BY <1>8, <2>2
  <2>4. f[i] = f[i - 1] \o pages[i]
    BY <1>6, <2>2
  <2>5. f[i] = SubSeq(s, 1, off[i])
    BY <1>1, <2>2, <2>3, <2>4
  <2> QED  BY <2>1, <2>5
<1>9. f[n] = SubSeq(s, 1, off[n])
  <2>1. \A m \in Nat : m \in P
    <3> HIDE DEF P
    <3> QED  BY <1>7, <1>8, NumberInduction
  <2>2. n - 1 \in Nat /\ n - 1 + 1 = n /\ n \in 1..n
    OBVIOUS
  <2>3. n - 1 \in P
    BY <2>1, <2>2
  <2> QED  BY <2>2, <2>3
<1>10. SubSeq(s, 1, off[n]) = s
  BY SubSeqFull DEF Cuts
<1> QED  BY <1>4, <1>9, <1>10

\* The minimum of two numbers.
LEMMA LesserOf ==
    ASSUME NEW a \in Int, NEW b \in Int
    PROVE  Min({a, b}) = IF a <= b THEN a ELSE b
<1>1. CASE a <= b
  <2>1. \A x \in {a, b} : (\A y \in {a, b} : x <= y) <=> x = a
    BY <1>1
  <2> QED  BY <1>1, <2>1 DEF Min
<1>2. CASE ~(a <= b)
  <2>1. \A x \in {a, b} : (\A y \in {a, b} : x <= y) <=> x = b
    BY <1>2
  <2> QED  BY <1>2, <2>1 DEF Min
<1> QED  BY <1>1, <1>2

\* The k-th page of s.
PageOf(s, size, k) == SubSeq(s, (k - 1) * size + 1, Min({k * size, Len(s)}))

\* Enough pages of one size show every element of a sequence, in its order.
LEMMA PagesShowAll ==
    ASSUME NEW X, NEW s \in Seq(X), NEW size \in 1..2, NEW n \in Nat, n * size >= Len(s),
           NEW pages, pages = [k \in 1..n |-> PageOf(s, size, k)]
    PROVE  FlattenSeq(pages) = s
<1>0. Len(s) \in Nat /\ Len(pages) = n /\ (size = 1 \/ size = 2)
  OBVIOUS
<1>1. CASE n = 0
  <2>1. Len(s) = 0
    BY <1>0, <1>1
  <2>2. FlattenSeq(pages) = pages
    BY <1>0, <1>1 DEF FlattenSeq
  <2>3. s = <<>> /\ pages = <<>>
    BY <1>1, <2>1
  <2> QED  BY <2>2, <2>3
<1>2. CASE n >= 1
  <2> DEFINE off == [k \in 0..n |-> IF k * size <= Len(s) THEN k * size ELSE Len(s)]
  <2>1. off \in [0..n -> 0..Len(s)] /\ off[0] = 0 /\ off[n] = Len(s)
    BY <1>0
  <2>2. \A k \in 1..n : off[k - 1] <= off[k]
    BY <1>0
  <2>3. ASSUME NEW k \in 1..n PROVE pages[k] = SubSeq(s, off[k - 1] + 1, off[k])
    <3>1. PICK a \in Nat, b \in Nat : a = (k - 1) * size /\ b = k * size /\ a < b
      BY <1>0
    <3>2. off[k - 1] = (IF a <= Len(s) THEN a ELSE Len(s)) /\ off[k] = IF b <= Len(s) THEN b ELSE Len(s)
      BY <3>1
    <3>3. Min({b, Len(s)}) = IF b <= Len(s) THEN b ELSE Len(s)
      BY <1>0, LesserOf
    <3>4. pages[k] = SubSeq(s, a + 1, off[k])
      BY <3>1, <3>2, <3>3 DEF PageOf
    <3> HIDE DEF off
    <3>5. CASE a <= Len(s)
      BY <3>2, <3>4, <3>5
    <3>6. CASE ~(a <= Len(s))
      <4>1. off[k - 1] = Len(s) /\ off[k] = Len(s)
        BY <1>0, <3>1, <3>2, <3>6
      <4>2. SubSeq(s, a + 1, Len(s)) = <<>> /\ SubSeq(s, Len(s) + 1, Len(s)) = <<>>
        <5>1. a + 1 \in Int /\ Len(s) + 1 \in Int /\ Len(s) \in Int /\ Len(s) < a + 1 /\ Len(s) < Len(s) + 1
          BY <1>0, <3>1, <3>6
        <5> QED  BY ONLY <5>1, SubSeqEmpty
      <4> QED  BY <3>4, <4>1, <4>2
    <3> QED  BY <3>5, <3>6
  <2>4. Cuts(s, n, off, pages)
    BY <2>1, <2>2, <2>3 DEF Cuts
  <2>5. (CHOOSE f : Flattens(pages, n, f))[n] = s
    <3> HIDE DEF off
    <3> QED  BY ONLY s \in Seq(X), n \in Nat, <1>2, <2>4, FlattenPages
  <2>6. FlattenSeq(pages) = (CHOOSE f : Flattens(pages, n, f))[n]
    BY <1>0, <1>2 DEF FlattenSeq, Flattens
  <2> QED  BY <2>5, <2>6
<1> QED  BY <1>1, <1>2

-----------------------------------------------------------------------------
(* The statistics of the administrators.                                   *)

\* With a filter the top senders are told, and ranked as they should be.
LEMMA TopSendersLead ==
    ASSUME NEW T \in Table, NEW f, NEW limit \in 1..100
    PROVE  IF Given(f) = {} THEN GetTopSenders(T, f, limit) = Failed
           ELSE GetTopSenders(T, f, limit) # Failed /\ RankingIsRight(T, f, limit)
<1> DEFINE S == {j \in Selected(T, f) : T[j].sender # ""}
           c == [j \in S |-> T[j].sender]
           D == {c[j] : j \in S}
           counts == [v \in D |-> Cardinality({j \in S : T[j].sender = v})]
           good(s) == \A j, k \in DOMAIN s : j < k => counts[s[j]] >= counts[s[k]]
           ranked == CHOOSE s \in SetToSeqs(DOMAIN counts) : good(s)
           shown == [k \in 1..Min({limit, Len(ranked)}) |-> [sender |-> ranked[k], count |-> counts[ranked[k]]]]
<1>1. IsFiniteSet(S)
  BY TableFacts, FS_Subset
<1>2. IsFiniteSet(D)
  <2> HIDE DEF S, c
  <2> QED  BY <1>1, ImageFinite
<1>3. counts \in [D -> Nat]
  <2>1. \A v : Cardinality({j \in S : T[j].sender = v}) \in Nat
    <3> HIDE DEF S
    <3> QED  BY <1>1, FS_Subset, FS_CardinalityType
  <2> QED  BY <2>1
<1>4. ranked \in SetToSeqs(D) /\ Ranked(ranked, counts)
  <2>1. DOMAIN counts = D
    OBVIOUS
  <2> HIDE DEF D, counts
  <2>2. \E s \in SetToSeqs(D) : Ranked(s, counts)
    BY <1>2, <1>3, RankingExists
  <2> QED  BY <2>1, <2>2 DEF Ranked
<1>5. GetTopSenders(T, f, limit) = IF Given(f) = {} THEN Failed ELSE [senders |-> shown]
  <2>1. Distribution(S, LAMBDA j : T[j].sender) = counts
    BY DEF Distribution
  <2>2. (IF limit \in 1..100 THEN limit ELSE 10) = limit
    OBVIOUS
  <2>3. GetTopSenders(T, f, limit) = GetTopSenderDomains(T, f, limit)
    BY ONLY <2>2 DEF GetTopSenders
  <2> HIDE DEF counts
  <2> QED  BY <2>1, <2>3 DEF GetTopSenderDomains
<1>6. \A v \in D : v # "" /\ counts[v] = MailOf(T, f, v)
  <2>1. \A v : v # "" => {j \in S : T[j].sender = v} = {j \in Selected(T, f) : T[j].sender = v}
    OBVIOUS
  <2>2. \A v \in D : v # ""
    OBVIOUS
  <2> QED  BY <2>1, <2>2 DEF MailOf
<1>7. \A i \in Selected(T, f) : T[i].sender = "" \/ T[i].sender \in D
  OBVIOUS
<1> HIDE DEF S, c, D, counts, ranked
<1>8. /\ ranked \in Seq(D) /\ Len(ranked) \in Nat /\ DOMAIN ranked = 1..Len(ranked)
      /\ {ranked[k] : k \in DOMAIN ranked} = D
      /\ \A j, k \in DOMAIN ranked : ranked[j] = ranked[k] => j = k
  BY ONLY <1>2, <1>4, OrderingFacts
<1>9. PICK n \in Nat : /\ n = Min({limit, Len(ranked)}) /\ n <= Len(ranked)
                       /\ n = limit \/ n = Len(ranked)
  <2>1. limit \in Int /\ limit \in Nat /\ Len(ranked) \in Int
    BY <1>8
  <2>2. Min({limit, Len(ranked)}) = IF limit <= Len(ranked) THEN limit ELSE Len(ranked)
    BY ONLY <2>1, LesserOf
  <2>3. CASE limit <= Len(ranked)
    <3>1. limit = Min({limit, Len(ranked)})
      BY ONLY <2>2, <2>3
    <3> QED  BY ONLY <2>1, <2>3, <3>1
  <2>4. CASE ~(limit <= Len(ranked))
    <3>1. Len(ranked) = Min({limit, Len(ranked)})
      BY ONLY <2>2, <2>4
    <3>2. Len(ranked) \in Nat
      BY ONLY <1>8
    <3>3. Len(ranked) <= Len(ranked)
      BY ONLY <3>2
    <3> QED  BY ONLY <3>1, <3>2, <3>3, Zenon
  <2> QED  BY ONLY <2>3, <2>4
<1>10. /\ DOMAIN shown = 1..n /\ Len(shown) = n
       /\ \A k \in 1..n : /\ shown[k].sender = ranked[k] /\ shown[k].count = counts[ranked[k]]
                          /\ ranked[k] \in D /\ counts[ranked[k]] \in Nat /\ k \in DOMAIN ranked
  BY <1>3, <1>8, <1>9
<1> HIDE DEF shown
<1>11. \A k \in DOMAIN shown : shown[k].count = MailOf(T, f, shown[k].sender)
  <2>1. ASSUME NEW k \in 1..n PROVE shown[k].count = MailOf(T, f, shown[k].sender)
    <3>1. shown[k].sender = ranked[k] /\ shown[k].count = counts[ranked[k]] /\ ranked[k] \in D
      BY ONLY <1>10
    <3>2. counts[ranked[k]] = MailOf(T, f, ranked[k])
      BY ONLY <1>6, <3>1
    <3> QED  BY ONLY <3>1, <3>2
  <2>2. DOMAIN shown = 1..n
    BY ONLY <1>10
  <2> QED  BY ONLY <2>1, <2>2
<1>12. \A j, k \in DOMAIN shown :
          j < k => shown[j].count >= shown[k].count /\ shown[j].sender # shown[k].sender
  BY <1>4, <1>8, <1>10 DEF Ranked
<1>13. ASSUME NEW i \in Selected(T, f), T[i].sender # "",
              \A k \in DOMAIN shown : shown[k].sender # T[i].sender
       PROVE  /\ Len(shown) = limit
              /\ \A k \in DOMAIN shown : MailOf(T, f, T[i].sender) <= shown[k].count
  <2>1. PICK m \in DOMAIN ranked : ranked[m] = T[i].sender
    BY <1>7, <1>8, <1>13
  <2>2. m > n /\ m <= Len(ranked) /\ m \in Nat
    <3>1. m \in Nat /\ m >= 1 /\ m <= Len(ranked) /\ n \in Nat
      BY ONLY <1>8, <1>9, <2>1
    <3>2. ASSUME m \in 1..n PROVE FALSE
      <4>1. m \in DOMAIN shown /\ shown[m].sender = ranked[m]
        BY ONLY <1>10, <3>2
      <4> QED  BY ONLY <1>13, <2>1, <4>1
    <3> QED  BY ONLY <3>1, <3>2
  <2>3. n = limit
    BY <1>8, <1>9, <2>2
  <2>4. ASSUME NEW k \in 1..n PROVE MailOf(T, f, T[i].sender) <= shown[k].count
    <3>1. k < m /\ k \in DOMAIN ranked
      BY <1>10, <2>2
    <3>2. counts[ranked[k]] >= counts[ranked[m]]
      BY <1>4, <3>1 DEF Ranked
    <3>3. ranked[m] \in D /\ counts[ranked[m]] = MailOf(T, f, T[i].sender) /\ counts[ranked[m]] \in Nat
      BY <1>3, <1>6, <1>8, <2>1
    <3>4. shown[k].count = counts[ranked[k]] /\ counts[ranked[k]] \in Nat
      BY <1>10
    <3> QED  BY ONLY <3>2, <3>3, <3>4
  <2> QED  BY <1>10, <2>3, <2>4
<1>14. [senders |-> shown] # Failed /\ [senders |-> shown].senders = shown
  <2>1. DOMAIN [senders |-> shown] = {"senders"} /\ DOMAIN Failed = {"failed"}
    BY DEF Failed
  <2> QED  BY <2>1
<1>15. CASE Given(f) # {}
  <2>1. GetTopSenders(T, f, limit).senders = shown /\ GetTopSenders(T, f, limit) # Failed
    BY ONLY <1>5, <1>14, <1>15
  <2>2. PICK senders : senders = shown
    OBVIOUS
  <2> QED  BY ONLY <1>11, <1>12, <1>13, <1>15, <2>1 DEF RankingIsRight
<1>16. CASE Given(f) = {}
  BY ONLY <1>5, <1>16
<1> QED  BY ONLY <1>15, <1>16

\* A finite set of numbers can be listed from the greatest to the least.
LEMMA NewestFirst ==
    ASSUME NEW E, E \subseteq Nat, IsFiniteSet(E)
    PROVE  Newest(E) \in SetToSeqs(E)
<1> DEFINE key == [i \in E |-> i]
<1>1. key \in [E -> Nat]
  OBVIOUS
<1>2. PICK s \in SetToSeqs(E) : Ranked(s, key)
  <2> HIDE DEF key
  <2> QED  BY <1>1, RankingExists
<1>3. s \in Seq(E) /\ DOMAIN s \subseteq Nat /\ \A i, j \in DOMAIN s : s[i] \in E /\ (s[i] = s[j] => i = j)
  BY OrderingFacts
<1>4. \A j, k \in DOMAIN s : j < k => s[j] > s[k]
  <2> SUFFICES ASSUME NEW j \in DOMAIN s, NEW k \in DOMAIN s, j < k PROVE s[j] > s[k]
    OBVIOUS
  <2>1. s[j] \in E /\ s[k] \in E /\ s[j] # s[k] /\ j \in Nat /\ k \in Nat
    BY <1>3
  <2>2. key[s[j]] >= key[s[k]]
    BY <1>2 DEF Ranked
  <2>3. PICK x \in Nat, y \in Nat : x = s[j] /\ y = s[k]
    BY <2>1
  <2>4. x >= y /\ x # y
    BY <2>1, <2>2, <2>3
  <2> QED  BY ONLY <2>3, <2>4
<1> QED  BY <1>4 DEF Newest

\* All pages of a domain's rows.
DomainRows(T, s, f) ==
    FlattenSeq([k \in 1..GetDomainSMTPStats(T, s, f, 1, 1).pages |-> GetDomainSMTPStats(T, s, f, k, 1).rows])

\* The pages of a domain's rows show each row once.
LEMMA DomainPagesShowAll ==
    ASSUME NEW T \in Table, NEW f, "domain_id" \notin Given(f), NEW s,
           NEW rows, rows = DomainRows(T, s, f)
    PROVE  /\ {rows[k] : k \in DOMAIN rows} = {i \in Selected(T, f) : T[i].site = s}
           /\ \A j, k \in DOMAIN rows : rows[j] = rows[k] => j = k
<1> DEFINE g == [x \in Given(f) \cup {"domain_id"} |-> IF x = "domain_id" THEN s ELSE f[x]]
           E == {i \in Selected(T, f) : T[i].site = s}
<1>1. {i \in Selected(T, g) : T[i].site = s} = E
  BY DEF Selected, Given
<1>2. IsFiniteSet(E) /\ E \subseteq Nat
  BY TableFacts, FS_Subset
<1> HIDE DEF E
<1>3. PICK newest : newest = Newest(E)
  OBVIOUS
<1>4. newest \in SetToSeqs(E)
  BY <1>2, <1>3, NewestFirst
<1>5. /\ newest \in Seq(E) /\ Len(newest) \in Nat
      /\ {newest[k] : k \in DOMAIN newest} = E
      /\ \A j, k \in DOMAIN newest : newest[j] = newest[k] => j = k
  BY <1>2, <1>4, OrderingFacts
<1>6. ASSUME NEW k \in Nat, k >= 1
      PROVE  GetDomainSMTPStats(T, s, f, k, 1) = [rows |-> PageOf(newest, 1, k), pages |-> Len(newest)]
  <2>1. parsePagination(k, 1) = [page |-> k, size |-> 1]
    BY <1>6 DEF parsePagination
  <2>2. GetDomainStats(T, s, f, [page |-> k, size |-> 1]) = [rows |-> PageOf(newest, 1, k), total |-> Len(newest)]
    <3>1. GetDomainStats(T, s, f, [page |-> k, size |-> 1]) = GetStatsForDomain(T, s, g, [page |-> k, size |-> 1])
      BY DEF GetDomainStats
    <3> HIDE DEF g
    <3>2. PICK p : p = [page |-> k, size |-> 1]
      OBVIOUS
    <3>3. p.page = k /\ p.size = 1
      BY <3>2
    <3>4. GetStatsForDomain(T, s, g, p) = [rows |-> PageOf(newest, 1, k), total |-> Len(newest)]
      BY <1>1, <1>3, <3>3 DEF GetStatsForDomain, PageOf
    <3> QED  BY <3>1, <3>2, <3>4
  <2>3. (Len(newest) + 1 - 1) \div 1 = Len(newest)
    BY <1>5
  <2> QED  BY <2>1, <2>2, <2>3 DEF GetDomainSMTPStats
<1>7. rows = FlattenSeq([k \in 1..Len(newest) |-> PageOf(newest, 1, k)])
  <2>1. GetDomainSMTPStats(T, s, f, 1, 1).pages = Len(newest)
    BY <1>6
  <2>2. \A k \in 1..Len(newest) : GetDomainSMTPStats(T, s, f, k, 1).rows = PageOf(newest, 1, k)
    BY <1>6
  <2> QED  BY <2>1, <2>2 DEF DomainRows
<1>8. rows = newest
  <2>1. PICK n \in Nat, size \in 1..2 : n = Len(newest) /\ size = 1 /\ n * size >= Len(newest)
    BY ONLY <1>5
  <2>2. rows = FlattenSeq([k \in 1..n |-> PageOf(newest, size, k)])
    BY <1>7, <2>1
  <2>3. PICK pages : pages = [k \in 1..n |-> PageOf(newest, size, k)]
    OBVIOUS
  <2>4. FlattenSeq(pages) = newest
    BY ONLY <1>5, <2>1, <2>3, PagesShowAll
  <2> QED  BY ONLY <2>2, <2>3, <2>4
<1> QED  BY ONLY <1>5, <1>8 DEF E

\* All reports of one table agree.
LEMMA AllReportsAgree == ReportsAgree
<1> SUFFICES ASSUME NEW T \in Table, NEW f \in Filter
             PROVE  LET overview == GetOverview(T, f) IN
                    /\ Sum(overview) = overview.total
                    /\ \A k \in 1..6 : Total(GetDistributions(T, f)[k]) = overview.total
                    /\ \A granularity \in {"hour", "day", "week", "month", "year"} :
                          LET series == GetTimeSeriesData(T, f, granularity)
                          IN MapThenSumSet(LAMBDA b : Sum(series[b]), DOMAIN series) = overview.total
                    /\ \A limit \in {1, 2} :
                          IF Given(f) = {} THEN GetTopSenders(T, f, limit) = Failed
                          ELSE GetTopSenders(T, f, limit) # Failed /\ RankingIsRight(T, f, limit)
                    /\ \A s \in Site :
                          LET answer(k) == GetDomainSMTPStats(T, s, f, k, 1)
                              rows == FlattenSeq([k \in 1..answer(1).pages |-> answer(k).rows])
                          IN "domain_id" \notin Given(f) =>
                                /\ {rows[k] : k \in DOMAIN rows} = {i \in Selected(T, f) : T[i].site = s}
                                /\ \A j, k \in DOMAIN rows : rows[j] = rows[k] => j = k
  BY DEF ReportsAgree
<1>1. Sum(GetOverview(T, f)) = GetOverview(T, f).total
  BY OverviewAddsUp
<1>2. \A k \in 1..6 : Total(GetDistributions(T, f)[k]) = GetOverview(T, f).total
  BY DistributionsAddUp
<1>3. \A granularity, series : series = GetTimeSeriesData(T, f, granularity)
         => MapThenSumSet(LAMBDA b : Sum(series[b]), DOMAIN series) = GetOverview(T, f).total
  BY TimelineAddsUp
<1>4. \A limit \in {1, 2} :
         IF Given(f) = {} THEN GetTopSenders(T, f, limit) = Failed
         ELSE GetTopSenders(T, f, limit) # Failed /\ RankingIsRight(T, f, limit)
  <2>1. {1, 2} \subseteq 1..100
    OBVIOUS
  <2> QED  BY <2>1, TopSendersLead
<1>5. \A s : "domain_id" \notin Given(f) => \A rows : rows = DomainRows(T, s, f) =>
         /\ {rows[k] : k \in DOMAIN rows} = {i \in Selected(T, f) : T[i].site = s}
         /\ \A j, k \in DOMAIN rows : rows[j] = rows[k] => j = k
  BY DomainPagesShowAll
<1> QED  BY <1>1, <1>2, <1>3, <1>4, <1>5 DEF DomainRows

-----------------------------------------------------------------------------
(* The inbox of an owner.                                                  *)

\* A history and its messages.
LEMMA HistoryFacts ==
    ASSUME NEW h \in Stored
    PROVE  /\ h \in Seq(Arrival) /\ Len(h) \in Nat /\ DOMAIN h = 1..Len(h)
           /\ \A i \in DOMAIN h : h[i] \in Arrival /\ i \in Nat /\ i # NoStat
           /\ Mails(h) \subseteq DOMAIN h /\ Stats(h) \subseteq DOMAIN h
           /\ IsFiniteSet(DOMAIN h) /\ Cardinality(DOMAIN h) = Len(h)
           /\ \A i \in DOMAIN h : Joined(h, i) \subseteq Stats(h)
<1>1. h \in Seq(Arrival) /\ Len(h) \in Nat /\ DOMAIN h = 1..Len(h)
  BY StoredAssumption
<1>2. \A i \in DOMAIN h : h[i] \in Arrival /\ i \in Nat /\ i # NoStat
  BY <1>1 DEF NoStat
<1>3. IsFiniteSet(1..Len(h)) /\ Cardinality(1..Len(h)) = Len(h)
  <2>1. 1 \in Int /\ Len(h) \in Int
    BY <1>1
  <2>2. IsFiniteSet(1..Len(h)) /\ Cardinality(1..Len(h)) = IF 1 > Len(h) THEN 0 ELSE Len(h) - 1 + 1
    BY ONLY <2>1, FS_Interval
  <2> QED  BY ONLY <1>1, <2>2
<1> QED  BY <1>1, <1>2, <1>3 DEF Mails, Stats, Joined

\* The rows of the join.
RowsOf(h, i) == {[mail |-> i, stat |-> j] : j \in IF Joined(h, i) = {} THEN {NoStat} ELSE Joined(h, i)}

\* Every message has a row, a row has a message and perhaps statistics, and rows are few.
LEMMA RowFacts ==
    ASSUME NEW h \in Stored
    PROVE  /\ \A i : GetByID(h, i) = IF i \in Mails(h) THEN RowsOf(h, i) ELSE {}
           /\ \A r \in Rows(h) : r.mail \in Mails(h) /\ (r.stat # NoStat => r.stat \in Stats(h))
           /\ \A i \in Mails(h) : \E r \in Rows(h) : r.mail = i
           /\ IsFiniteSet(Rows(h))
<1>1. Rows(h) = UNION {RowsOf(h, i) : i \in Mails(h)}
  BY DEF Rows, RowsOf
<1>2. \A i : \A r \in RowsOf(h, i) : r.mail = i
  BY DEF RowsOf
<1>3. \A i : GetByID(h, i) = IF i \in Mails(h) THEN RowsOf(h, i) ELSE {}
  BY <1>1, <1>2 DEF GetByID
<1>4. \A i \in Mails(h) : \A r \in RowsOf(h, i) : r.stat # NoStat => r.stat \in Stats(h)
  BY HistoryFacts DEF RowsOf
<1>5. \A i : RowsOf(h, i) # {}
  <2> SUFFICES ASSUME NEW i PROVE RowsOf(h, i) # {}
    OBVIOUS
  <2>1. PICK j : j \in IF Joined(h, i) = {} THEN {NoStat} ELSE Joined(h, i)
    OBVIOUS
  <2>2. [mail |-> i, stat |-> j] \in RowsOf(h, i)
    BY <2>1 DEF RowsOf
  <2> QED  BY <2>2
<1>6. IsFiniteSet(Rows(h))
  <2> DEFINE N == 0..Len(h)
             c == [p \in N \X N |-> [mail |-> p[1], stat |-> p[2]]]
             C == {c[p] : p \in N \X N}
  <2>1. IsFiniteSet(N)
    BY HistoryFacts, FS_Interval
  <2>2. IsFiniteSet(N \X N)
    <3> HIDE DEF N
    <3> QED  BY <2>1, FS_Product
  <2>3. IsFiniteSet(C)
    <3> HIDE DEF c, N
    <3> QED  BY <2>2, ImageFinite
  <2>4. Rows(h) \subseteq C
    <3> SUFFICES ASSUME NEW r \in Rows(h) PROVE r \in C
      OBVIOUS
    <3>1. PICK i \in Mails(h) : r \in RowsOf(h, i)
      BY <1>1
    <3>2. PICK j : r = [mail |-> i, stat |-> j] /\ (j \in Joined(h, i) \/ j = NoStat)
      BY <3>1 DEF RowsOf
    <3>3. i \in N /\ j \in N
      BY <3>1, <3>2, HistoryFacts DEF NoStat
    <3>4. <<i, j>> \in N \X N /\ c[<<i, j>>] = r
      BY <3>2, <3>3
    <3> QED  BY <3>4
  <2> HIDE DEF C
  <2> QED  BY <2>3, <2>4, FS_Subset
<1> QED  BY <1>1, <1>2, <1>3, <1>4, <1>5, <1>6

\* Without a filter a user gets the rows of the own mail.
LEMMA OwnRows ==
    ASSUME NEW h, NEW user
    PROVE  Matching(h, user, NoFilter) = {r \in Rows(h) : BoxUser[h[r.mail].box] = user}
<1>1. DOMAIN NoFilter = {}
  BY DEF NoFilter
<1> HIDE DEF NoFilter
<1>2. \A r : Passes(h, r, NoFilter)
  BY <1>1 DEF Passes
<1> QED  BY <1>2 DEF Matching

\* A message that is alone is joined with its own statistics or with none.
LEMMA AloneHasOwn ==
    ASSUME NEW h \in Stored, NEW i \in Mails(h), Alone(h, i)
    PROVE  /\ Joined(h, i) \subseteq {i}
           /\ i \in Stats(h) /\ h[i].late < Window => i \in Joined(h, i)
<1>1. i \in DOMAIN h /\ h[i] \in Arrival
  BY HistoryFacts
<1>2. h[i].at \in Nat /\ h[i].late \in Nat
  BY <1>1 DEF Arrival
<1>3. ASSUME NEW j \in Joined(h, i), j # i PROVE FALSE
  <2>1. j \in Stats(h) /\ j \in DOMAIN h /\ h[j] \in Arrival
    BY <1>1, HistoryFacts
  <2>2. h[j].recorded /\ h[j].box = h[i].box /\ h[j].from = h[i].from
    BY <2>1 DEF Joined, Stats
  <2>3. PICK a \in Nat, b \in Nat, c \in Nat : a = h[i].at /\ b = h[j].at /\ c = h[j].late
    BY <1>2, <2>1 DEF Arrival
  <2>4. b + c - a \in (1 - Window)..(Window - 1)
    BY <2>3 DEF Joined
  <2>5. b + c >= a + Window \/ a >= b + c + Window
    BY <1>3, <2>1, <2>2, <2>3 DEF Alone
  <2>6. PICK d \in Nat : d = b + c
    BY ONLY <2>3
  <2>7. d < a + 300 /\ a < d + 300
    <3>1. d - a \in 1 - 300..300 - 1
      BY ONLY <2>4, <2>6 DEF Window
    <3>2. PICK e \in Int : e = d - a /\ d = a + e
      BY ONLY <2>3, <2>6
    <3>3. e < 300 /\ 0 - e < 300
      BY ONLY <3>1, <3>2
    <3> QED  BY ONLY <2>3, <2>6, <3>2, <3>3
  <2>8. d >= a + 300 \/ a >= d + 300
    BY ONLY <2>5, <2>6 DEF Window
  <2> QED  BY ONLY <2>3, <2>6, <2>7, <2>8
<1>4. ASSUME i \in Stats(h), h[i].late < Window PROVE i \in Joined(h, i)
  <2>1. PICK a \in Nat, c \in Nat : a = h[i].at /\ c = h[i].late
    BY <1>2
  <2>2. a + c - a \in (1 - Window)..(Window - 1)
    <3>1. c < 300 /\ 1 - Window = 1 - 300 /\ Window - 1 = 299
      BY <1>4, <2>1 DEF Window
    <3>2. a + c - a = c
      BY ONLY <2>1
    <3>3. c \in 1 - 300..299
      BY ONLY <2>1, <3>1
    <3> QED  BY ONLY <3>1, <3>2, <3>3
  <2> QED  BY <1>4, <2>1, <2>2 DEF Joined
<1> QED  BY <1>3, <1>4

\* Every row has one security status.
LEMMA OneStatus ==
    ASSUME NEW h \in Stored, NEW user, NEW r \in Matching(h, user, NoFilter)
    PROVE  \E s \in Status : \A t \in Status : r \in Matching(h, user, [security_status |-> t]) <=> t = s
<1>1. r \in Rows(h) /\ BoxUser[h[r.mail].box] = user
  BY OwnRows
<1>2. \A t \in Status : r \in Matching(h, user, [security_status |-> t]) <=> HasStatus(h, r, t)
  <2> SUFFICES ASSUME NEW t \in Status PROVE Passes(h, r, [security_status |-> t]) <=> HasStatus(h, r, t)
    BY <1>1 DEF Matching
  <2>1. PICK f : f = [security_status |-> t]
    OBVIOUS
  <2>2. DOMAIN f = {"security_status"} /\ f.security_status = t
    BY <2>1
  <2>3. Passes(h, r, f) <=> HasStatus(h, r, f.security_status)
    BY ONLY <2>2 DEF Passes
  <2> QED  BY <2>1, <2>2, <2>3
<1>3. r.stat # NoStat => Spam(h, r) \in Nat
  BY <1>1, RowFacts, HistoryFacts DEF Spam, Arrival
<1>4. /\ HasStatus(h, r, "clean") <=> (r.stat = NoStat \/ Spam(h, r) < 300) /\ ~Quarantined(h, r)
      /\ HasStatus(h, r, "suspicious") <=> r.stat # NoStat /\ Spam(h, r) \in 300..699 /\ ~Quarantined(h, r)
      /\ HasStatus(h, r, "high_risk") <=> r.stat # NoStat /\ Spam(h, r) >= 700 /\ ~Quarantined(h, r)
      /\ HasStatus(h, r, "quarantined") <=> Quarantined(h, r)
  BY DEF HasStatus
<1>5. Quarantined(h, r) => r.stat # NoStat
  BY DEF Quarantined
<1>6. \E s \in Status : \A t \in Status : HasStatus(h, r, t) <=> t = s
  <2>1. CASE Quarantined(h, r)
    BY <1>4, <2>1 DEF Status
  <2>2. CASE ~Quarantined(h, r) /\ (r.stat = NoStat \/ Spam(h, r) < 300)
    <3>1. HasStatus(h, r, "clean") /\ ~HasStatus(h, r, "suspicious") /\ ~HasStatus(h, r, "high_risk") /\ ~HasStatus(h, r, "quarantined")
      BY <1>3, <1>4, <2>2
    <3> QED  BY <3>1 DEF Status
  <2>3. CASE ~Quarantined(h, r) /\ r.stat # NoStat /\ Spam(h, r) \in 300..699
    <3>1. ~HasStatus(h, r, "clean") /\ HasStatus(h, r, "suspicious") /\ ~HasStatus(h, r, "high_risk") /\ ~HasStatus(h, r, "quarantined")
      BY <1>3, <1>4, <2>3
    <3> QED  BY <3>1 DEF Status
  <2>4. CASE ~Quarantined(h, r) /\ r.stat # NoStat /\ Spam(h, r) >= 700
    <3>1. ~HasStatus(h, r, "clean") /\ ~HasStatus(h, r, "suspicious") /\ HasStatus(h, r, "high_risk") /\ ~HasStatus(h, r, "quarantined")
      BY <1>3, <1>4, <2>4
    <3> QED  BY <3>1 DEF Status
  <2> QED  BY <1>3, <2>1, <2>2, <2>3, <2>4
<1> QED  BY <1>2, <1>6

\* LIMIT and OFFSET of the k-th page.
LEMMA PageIsPageOf ==
    ASSUME NEW X, NEW s \in Seq(X), NEW size \in 1..2, NEW k \in Nat, k >= 1
    PROVE  Page(s, GetPaginationParams(size, (k - 1) * size)) = PageOf(s, size, k)
<1>1. PICK o \in Nat : o = (k - 1) * size /\ o + size = k * size
  <2>1. (k - 1) * size \in Nat /\ (k - 1) * size + size = k * size
    <3>1. CASE size = 1
      BY ONLY <3>1, k \in Nat, k >= 1
    <3>2. CASE size = 2
      BY ONLY <3>2, k \in Nat, k >= 1
    <3> QED  BY <3>1, <3>2
  <2> QED  BY <2>1
<1>2. PICK p : p = GetPaginationParams(size, o)
  OBVIOUS
<1>3. p = [limit |-> size, offset |-> o]
  <2>1. size \in 1..1000 /\ o >= 0
    OBVIOUS
  <2> QED  BY <1>2, <2>1 DEF GetPaginationParams
<1>4. p.limit = size /\ p.offset = o
  BY <1>3
<1>5. Min({size, 1000}) = size /\ ~(size <= 0)
  <2>1. size \in Int /\ 1000 \in Int /\ size <= 1000
    OBVIOUS
  <2> QED  BY <2>1, LesserOf
<1>6. Page(s, p) = SubSeq(s, o + 1, Min({o + size, Len(s)}))
  <2>1. PICK l : l = IF p.limit <= 0 THEN 50 ELSE Min({p.limit, 1000})
    OBVIOUS
  <2>2. l = size
    BY ONLY <1>4, <1>5, <2>1
  <2>3. Page(s, p) = SubSeq(s, p.offset + 1, Min({p.offset + l, Len(s)}))
    BY ONLY <2>1 DEF Page
  <2> QED  BY ONLY <1>4, <2>2, <2>3
<1> QED  BY <1>1, <1>2, <1>6 DEF PageOf

\* All pages of a user's inbox, and of the messages of an address.
InboxListing(h, user, size) ==
    FlattenSeq([k \in 1..((Cardinality(Matching(h, user, NoFilter)) + size - 1) \div size) |->
       (CHOOSE a \in ListReceivedEmailsForUser(h, user, size, (k - 1) * size, NoFilter, "received_at") : TRUE).rows])
AddressListing(h, b, size) == FlattenSeq([k \in 1..Len(h) |-> GetReceivedEmails(h, b, size, (k - 1) * size)])

\* If no two rows tie, the pages of a listing are those of one order of the rows.
LEMMA InboxPages ==
    ASSUME NEW h \in Stored, NEW user, NEW size \in 1..2, NEW all, all = Matching(h, user, NoFilter),
           \A r, q \in all : h[r.mail].at = h[q.mail].at => r = q
    PROVE  InboxListing(h, user, size) \in Sorted(h, all, "received_at")
<1>a. PICK n : n = (Cardinality(all) + size - 1) \div size
  OBVIOUS
<1>b. PICK pages : pages = [k \in 1..n |->
         (CHOOSE a \in ListReceivedEmailsForUser(h, user, size, (k - 1) * size, NoFilter, "received_at") : TRUE).rows]
  OBVIOUS
<1> DEFINE key == [r \in all |-> h[r.mail].at]
<1>1. IsFiniteSet(all) /\ Cardinality(all) \in Nat
  BY RowFacts, OwnRows, FS_Subset, FS_CardinalityType
<1>2. key \in [all -> Nat]
  <2>1. \A r \in all : h[r.mail].at \in Nat
    BY RowFacts, HistoryFacts, OwnRows DEF Arrival
  <2> QED  BY <2>1
<1>3. \A x, y \in all : key[x] = key[y] => x = y
  OBVIOUS
<1>4. \A s \in SetToSeqs(all) : s \in Sorted(h, all, "received_at") <=> Ranked(s, key)
  <2> SUFFICES ASSUME NEW s \in SetToSeqs(all) PROVE s \in Sorted(h, all, "received_at") <=> Ranked(s, key)
    OBVIOUS
  <2>1. \A j \in DOMAIN s : s[j] \in all
    BY <1>1, OrderingFacts
  <2>2. \A j \in DOMAIN s : Key(h, s[j], "received_at") = key[s[j]]
    BY <2>1 DEF Key
  <2> HIDE DEF key
  <2> QED  BY <2>2 DEF Sorted, Ranked
<1> HIDE DEF key
<1>5. PICK s \in SetToSeqs(all) : Ranked(s, key)
  BY <1>1, <1>2, RankingExists
<1>6. Sorted(h, all, "received_at") = {s}
  <2>1. s \in Sorted(h, all, "received_at")
    BY <1>4, <1>5
  <2>2. ASSUME NEW t \in Sorted(h, all, "received_at") PROVE t = s
    <3>1. t \in SetToSeqs(all)
      BY DEF Sorted
    <3>2. Ranked(t, key)
      BY <1>4, <3>1
    <3> QED  BY ONLY <1>1, <1>2, <1>3, <1>5, <3>1, <3>2, RankingUnique
  <2> QED  BY <2>1, <2>2
<1>7. s \in Seq(all) /\ Len(s) = Cardinality(all)
  BY ONLY <1>1, <1>5, OrderingFacts
<1>8. ASSUME NEW k \in Nat, k >= 1
      PROVE  (CHOOSE a \in ListReceivedEmailsForUser(h, user, size, (k - 1) * size, NoFilter, "received_at") : TRUE).rows
                = PageOf(s, size, k)
  <2>1. PICK p : p = GetPaginationParams(size, (k - 1) * size)
    OBVIOUS
  <2>2. Page(s, p) = PageOf(s, size, k)
    BY ONLY <1>7, <1>8, <2>1, size \in 1..2, PageIsPageOf
  <2>3. ListReceivedEmailsForUser(h, user, size, (k - 1) * size, NoFilter, "received_at")
           = {[rows |-> PageOf(s, size, k), total |-> Cardinality(all)]}
    <3>1. DOMAIN NoFilter = {}
      BY DEF NoFilter
    <3> HIDE DEF NoFilter
    <3>2. GetReceivedEmailsByUser(h, user, p, NoFilter, "received_at") = GetByUserIDWithFilter(h, user, p, NoFilter, "received_at")
      BY <3>1 DEF GetReceivedEmailsByUser
    <3>3. GetByUserIDWithFilter(h, user, p, NoFilter, "received_at") = {[rows |-> PageOf(s, size, k), total |-> Cardinality(all)]}
      BY <1>6, <2>2 DEF GetByUserIDWithFilter
    <3> QED  BY <2>1, <3>2, <3>3 DEF ListReceivedEmailsForUser
  <2>4. PICK x : x = [rows |-> PageOf(s, size, k), total |-> Cardinality(all)]
    OBVIOUS
  <2>5. (CHOOSE a \in {x} : TRUE) = x /\ x.rows = PageOf(s, size, k)
    BY ONLY <2>4
  <2> QED  BY ONLY <2>3, <2>4, <2>5
<1>9. n \in Nat /\ n * size >= Len(s)
  <2>1. PICK c \in Nat : c = Cardinality(all)
    BY <1>1
  <2>2. CASE size = 1
    BY ONLY <1>7, <2>1, <2>2, <1>a
  <2>3. CASE size = 2
    BY ONLY <1>7, <2>1, <2>3, <1>a
  <2> QED  BY <2>2, <2>3
<1>10. pages = [k \in 1..n |-> PageOf(s, size, k)]
  <2>1. \A k \in 1..n : k \in Nat /\ k >= 1
    BY ONLY <1>9
  <2> QED  BY <1>8, <1>b, <2>1
<1>11. FlattenSeq(pages) = s
  BY ONLY size \in 1..2, <1>7, <1>9, <1>10, PagesShowAll
<1>12. InboxListing(h, user, size) = FlattenSeq(pages)
  BY <1>a, <1>b DEF InboxListing
<1> QED  BY <1>6, <1>11, <1>12

\* Sequence numbers tell the messages of an address apart.
LEMMA SequenceNumbersDiffer ==
    ASSUME NEW h \in Stored, NEW i \in DOMAIN h, NEW j \in DOMAIN h, h[i].box = h[j].box
    PROVE  SequenceNumber(h, i) \in Nat /\ (SequenceNumber(h, i) = SequenceNumber(h, j) => i = j)
<1> DEFINE U(k) == {m \in 1..k : h[m].box = h[k].box}
<1>1. \A k \in DOMAIN h : k \in Nat /\ IsFiniteSet(U(k)) /\ Cardinality(U(k)) \in Nat /\ SequenceNumber(h, k) = Cardinality(U(k))
  <2> SUFFICES ASSUME NEW k \in DOMAIN h
               PROVE  k \in Nat /\ IsFiniteSet(U(k)) /\ Cardinality(U(k)) \in Nat /\ SequenceNumber(h, k) = Cardinality(U(k))
    OBVIOUS
  <2>1. k \in Nat /\ U(k) \subseteq DOMAIN h /\ IsFiniteSet(DOMAIN h)
    BY HistoryFacts
  <2>2. SequenceNumber(h, k) = Cardinality(U(k))
    BY DEF SequenceNumber
  <2> HIDE DEF U
  <2>3. IsFiniteSet(U(k)) /\ Cardinality(U(k)) \in Nat
    BY <2>1, FS_Subset, FS_CardinalityType
  <2> QED  BY <2>1, <2>2, <2>3
<1>2. ASSUME NEW a \in DOMAIN h, NEW b \in DOMAIN h, a < b, h[a].box = h[b].box
      PROVE  Cardinality(U(a)) # Cardinality(U(b))
  <2>1. U(a) \subseteq U(b) /\ b \in U(b) /\ b \notin U(a)
    <3>1. a \in Nat /\ b \in Nat /\ b \in 1..b /\ 1..a \subseteq 1..b /\ b \notin 1..a
      <4>1. a \in Nat /\ b \in Nat /\ b >= 1
        BY HistoryFacts
      <4> QED  BY ONLY <1>2, <4>1
    <3> QED  BY ONLY <1>2, <3>1
  <2> HIDE DEF U
  <2>2. Cardinality(U(b)) = Cardinality(U(a)) => U(b) = U(a)
    BY <1>1, <2>1, FS_Subset
  <2> QED  BY <2>1, <2>2
<1> HIDE DEF U
<1> QED  BY <1>1, <1>2

\* The pages of an address show its messages, each once.
LEMMA AddressPages ==
    ASSUME NEW h \in Stored, NEW b, NEW size \in 1..2,
           NEW shown, shown = AddressListing(h, b, size)
    PROVE  /\ {shown[k] : k \in DOMAIN shown} = {i \in Mails(h) : h[i].box = b}
           /\ Len(shown) = Cardinality({i \in Mails(h) : h[i].box = b})
<1>a. PICK E : E = {i \in Mails(h) : h[i].box = b}
  OBVIOUS
<1>b. PICK pages : pages = [k \in 1..Len(h) |-> GetReceivedEmails(h, b, size, (k - 1) * size)]
  OBVIOUS
<1> DEFINE key == [i \in E |-> SequenceNumber(h, i)]
           good(s) == \A j, k \in DOMAIN s : j < k => SequenceNumber(h, s[j]) > SequenceNumber(h, s[k])
           newest == CHOOSE s \in SetToSeqs(E) : good(s)
<1>1. IsFiniteSet(E) /\ Cardinality(E) \in Nat /\ Cardinality(E) <= Len(h) /\ Len(h) \in Nat
  <2>1. E \subseteq DOMAIN h /\ IsFiniteSet(DOMAIN h) /\ Cardinality(DOMAIN h) = Len(h) /\ Len(h) \in Nat
    BY <1>a, HistoryFacts
  <2>2. IsFiniteSet(E) /\ Cardinality(E) <= Cardinality(DOMAIN h)
    BY ONLY <2>1, FS_Subset
  <2>3. Cardinality(E) \in Nat
    BY ONLY <2>2, FS_CardinalityType
  <2> QED  BY ONLY <2>1, <2>2, <2>3
<1>2. \A i, j \in E : SequenceNumber(h, i) \in Nat /\ (SequenceNumber(h, i) = SequenceNumber(h, j) => i = j)
  BY <1>a, HistoryFacts, SequenceNumbersDiffer
<1>3. key \in [E -> Nat]
  BY <1>2
<1>4. PICK s \in SetToSeqs(E) : Ranked(s, key)
  <2> HIDE DEF key
  <2> QED  BY ONLY <1>1, <1>3, RankingExists
<1>5. \A i, j \in DOMAIN s : s[i] \in E /\ (s[i] = s[j] => i = j) /\ i \in Nat
  BY ONLY <1>1, <1>4, OrderingFacts
<1>6. good(s)
  <2> SUFFICES ASSUME NEW j \in DOMAIN s, NEW k \in DOMAIN s, j < k
               PROVE  SequenceNumber(h, s[j]) > SequenceNumber(h, s[k])
    OBVIOUS
  <2>1. s[j] \in E /\ s[k] \in E /\ s[j] # s[k]
    BY <1>5
  <2>2. key[s[j]] >= key[s[k]]
    BY <1>4 DEF Ranked
  <2>3. PICK x \in Nat, y \in Nat : x = SequenceNumber(h, s[j]) /\ y = SequenceNumber(h, s[k])
    BY <1>2, <2>1
  <2>4. x >= y /\ x # y
    BY <1>2, <2>1, <2>2, <2>3
  <2> QED  BY ONLY <2>3, <2>4
<1>7. newest \in SetToSeqs(E)
  <2> HIDE DEF good
  <2> QED  BY <1>6
<1>8. \A p : GetByEmailAddressID(h, b, p) = Page(newest, p)
  BY <1>a DEF GetByEmailAddressID
<1> HIDE DEF newest
<1>9. newest \in Seq(E) /\ Len(newest) = Cardinality(E) /\ {newest[k] : k \in DOMAIN newest} = E
  BY ONLY <1>1, <1>7, OrderingFacts
<1>10. pages = [k \in 1..Len(h) |-> PageOf(newest, size, k)]
  <2>1. ASSUME NEW k \in Nat, k >= 1 PROVE GetReceivedEmails(h, b, size, (k - 1) * size) = PageOf(newest, size, k)
    <3>1. Page(newest, GetPaginationParams(size, (k - 1) * size)) = PageOf(newest, size, k)
      BY ONLY <1>9, <2>1, size \in 1..2, PageIsPageOf
    <3> QED  BY <1>8, <3>1 DEF GetReceivedEmails
  <2> QED  BY <1>1, <1>b, <2>1
<1>11. Len(h) * size >= Len(newest)
  <2>1. size = 1 \/ size = 2
    OBVIOUS
  <2> QED  BY ONLY <1>1, <1>9, <2>1
<1>12. FlattenSeq(pages) = newest
  BY ONLY size \in 1..2, <1>1, <1>9, <1>10, <1>11, PagesShowAll
<1>13. shown = FlattenSeq(pages)
  BY <1>b DEF AddressListing
<1> QED  BY ONLY <1>a, <1>9, <1>12, <1>13

\* The inbox tells the truth about every history.
LEMMA InboxTellsTheTruth == InboxIsTrue
<1> SUFFICES ASSUME NEW h \in Stored
    PROVE
       /\ \A user \in {BoxUser[b] : b \in Box} :
             LET all == Matching(h, user, NoFilter)
                 ties == \E r, q \in all : r # q /\ h[r.mail].at = h[q.mail].at
             IN
             /\ {r.mail : r \in all} = {i \in Mails(h) : BoxUser[h[i].box] = user}
             /\ \A i \in Mails(h) : BoxUser[h[i].box] = user =>
                   /\ GetReceivedEmail(h, i, user) = {r \in all : r.mail = i}
                   /\ Alone(h, i) => \E j \in {NoStat, i} : {r \in all : r.mail = i} = {[mail |-> i, stat |-> j]}
                   /\ Alone(h, i) /\ i \in Stats(h) /\ h[i].late < Window => [mail |-> i, stat |-> i] \in all
             /\ \A r \in all : \E s \in Status : \A t \in Status :
                   r \in Matching(h, user, [security_status |-> t]) <=> t = s
             /\ \A size \in 1..2 : ~ties =>
                   LET page(k) == CHOOSE a \in ListReceivedEmailsForUser(h, user, size, (k - 1) * size, NoFilter, "received_at") : TRUE
                       needed == (Cardinality(all) + size - 1) \div size
                   IN FlattenSeq([k \in 1..needed |-> page(k).rows]) \in Sorted(h, all, "received_at")
       /\ \A b \in Box, size \in 1..2 :
             LET shown == FlattenSeq([k \in 1..Len(h) |-> GetReceivedEmails(h, b, size, (k - 1) * size)])
             IN /\ {shown[k] : k \in DOMAIN shown} = {i \in Mails(h) : h[i].box = b}
                /\ Len(shown) = Cardinality({i \in Mails(h) : h[i].box = b})
  BY DEF InboxIsTrue
<1>1. ASSUME NEW user
      PROVE  LET all == Matching(h, user, NoFilter)
                 ties == \E r, q \in all : r # q /\ h[r.mail].at = h[q.mail].at
             IN
             /\ {r.mail : r \in all} = {i \in Mails(h) : BoxUser[h[i].box] = user}
             /\ \A i \in Mails(h) : BoxUser[h[i].box] = user =>
                   /\ GetReceivedEmail(h, i, user) = {r \in all : r.mail = i}
                   /\ Alone(h, i) => \E j \in {NoStat, i} : {r \in all : r.mail = i} = {[mail |-> i, stat |-> j]}
                   /\ Alone(h, i) /\ i \in Stats(h) /\ h[i].late < Window => [mail |-> i, stat |-> i] \in all
             /\ \A r \in all : \E s \in Status : \A t \in Status :
                   r \in Matching(h, user, [security_status |-> t]) <=> t = s
             /\ \A size \in 1..2 : ~ties =>
                   LET page(k) == CHOOSE a \in ListReceivedEmailsForUser(h, user, size, (k - 1) * size, NoFilter, "received_at") : TRUE
                       needed == (Cardinality(all) + size - 1) \div size
                   IN FlattenSeq([k \in 1..needed |-> page(k).rows]) \in Sorted(h, all, "received_at")
  <2>1. PICK all : all = Matching(h, user, NoFilter)
    OBVIOUS
  <2>2. all = {r \in Rows(h) : BoxUser[h[r.mail].box] = user}
    BY <2>1, OwnRows
  <2>3. {r.mail : r \in all} = {i \in Mails(h) : BoxUser[h[i].box] = user}
    BY <2>2, RowFacts
  <2>4. ASSUME NEW i \in Mails(h), BoxUser[h[i].box] = user
        PROVE  /\ GetReceivedEmail(h, i, user) = {r \in all : r.mail = i}
               /\ Alone(h, i) => \E j \in {NoStat, i} : {r \in all : r.mail = i} = {[mail |-> i, stat |-> j]}
               /\ Alone(h, i) /\ i \in Stats(h) /\ h[i].late < Window => [mail |-> i, stat |-> i] \in all
    <3>1. {r \in all : r.mail = i} = GetByID(h, i)
      BY <2>2, <2>4 DEF GetByID
    <3>2. GetByID(h, i) = RowsOf(h, i)
      BY RowFacts
    <3>3. GetReceivedEmail(h, i, user) = GetByID(h, i)
      BY <2>4 DEF GetReceivedEmail
    <3>4. ASSUME Alone(h, i) PROVE \E j \in {NoStat, i} : RowsOf(h, i) = {[mail |-> i, stat |-> j]}
      <4>1. Joined(h, i) = {} \/ Joined(h, i) = {i}
        BY <3>4, AloneHasOwn
      <4> QED  BY <4>1 DEF RowsOf
    <3>5. ASSUME Alone(h, i), i \in Stats(h), h[i].late < Window PROVE [mail |-> i, stat |-> i] \in all
      <4>1. i \in Joined(h, i)
        BY <3>5, AloneHasOwn
      <4>2. [mail |-> i, stat |-> i] \in RowsOf(h, i)
        BY <4>1 DEF RowsOf
      <4> QED  BY <3>1, <3>2, <4>2
    <3> QED  BY <3>1, <3>2, <3>3, <3>4, <3>5
  <2>5. \A r \in all : \E s \in Status : \A t \in Status : r \in Matching(h, user, [security_status |-> t]) <=> t = s
    BY <2>1, OneStatus
  <2>6. ASSUME NEW size \in 1..2, \A r, q \in all : h[r.mail].at = h[q.mail].at => r = q
        PROVE  InboxListing(h, user, size) \in Sorted(h, all, "received_at")
    BY ONLY h \in Stored, <2>1, <2>6, InboxPages
  <2> QED  BY <2>1, <2>3, <2>4, <2>5, <2>6 DEF InboxListing
<1>2. ASSUME NEW b \in Box, NEW size \in 1..2, NEW shown, shown = AddressListing(h, b, size)
      PROVE  /\ {shown[k] : k \in DOMAIN shown} = {i \in Mails(h) : h[i].box = b}
             /\ Len(shown) = Cardinality({i \in Mails(h) : h[i].box = b})
  BY <1>2, AddressPages
<1> QED  BY <1>1, <1>2 DEF AddressListing

\* Whatever was stored, lost or deleted, the inbox shows an owner all of the own mail and
\* nobody else's, a message that is alone never with the statistics of another, every
\* row under exactly one security status, and its pages neither skip nor repeat a row:
\* InboxShowsMail for every history.
THEOREM InboxIsTruthful == Spec => []InboxShowsMail
<1>1. InboxShowsMail
  BY InboxTellsTheTruth DEF InboxShowsMail
<1> QED  BY <1>1, PTL

\* Overview, distributions, timeline, top senders and the pages of a domain are about the
\* same rows: StatisticsAgree for tables of every length and every verdict in them.
THEOREM ReportsAlwaysAgree == Spec => []StatisticsAgree
<1>1. StatisticsAgree
  BY AllReportsAgree DEF StatisticsAgree
<1> QED  BY <1>1, PTL
=============================================================================
