------------------------ MODULE HostedBooksProofs ------------------------
(***************************************************************************)
(* What the books of the reference flow say: the journal explains the      *)
(* state of every machine, an effect counted is an effect recorded under   *)
(* its key, and the conformance runner accepts whatever is reported.  And  *)
(* what the flow does for the two parties: it implements its promise.      *)
(***************************************************************************)
EXTENDS ConformanceRunner, HostedFlowProofs, FiniteSetTheorems,
        SequenceTheorems
---------------------------------------------------------------------------
(***************************************************************************)
(* The journal.  What StateAfter reads off the journal is defined for any  *)
(* sequence of changes, so that a trace can be added change by change.     *)
(***************************************************************************)
EntriesIn(j, machine, n) == {i \in 1..n : j[i].machine = machine}

After(j, machine, n) ==
  IF EntriesIn(j, machine, n) = {}
  THEN InitialState(machine)
  ELSE LET i == CHOOSE i \in EntriesIn(j, machine, n) :
                  \A k \in EntriesIn(j, machine, n) : k <= i
       IN  j[i].to

\* The machine was changed at all, and the state that left it in.
Moved(j, machine) == EntriesIn(j, machine, Len(j)) # {}
Reached(j, machine) == After(j, machine, Len(j))

\* Every machine that was changed was changed last somewhere.
LastsExist(j) ==
  \A machine \in Machines, n \in 0..Len(j) :
    EntriesIn(j, machine, n) # {} =>
      \E i \in EntriesIn(j, machine, n) :
        \A k \in EntriesIn(j, machine, n) : k <= i

Explained(j) ==
  /\ Legal(j)
  /\ \A i \in 1..Len(j) : j[i].from = After(j, j[i].machine, i - 1)
  /\ LastsExist(j)

\* The journal tells these states of the three machines.
Tells(j, inv, pay, lis) ==
  /\ j \in Seq(Changes)
  /\ Explained(j)
  /\ inv = Reached(j, "invocation")
  /\ pay = IF Moved(j, "paymentIntent") THEN Reached(j, "paymentIntent")
                                        ELSE "ABSENT"
  /\ pay = "ABSENT" => ~Moved(j, "paymentIntent")
  /\ Moved(j, "listing") => lis = Reached(j, "listing")

JournalTells == Tells(journal, invocation.state, paymentIntent.state, listing)

\* One position further, a machine is where the change there leaves it, if it
\* is a change of that machine.
LEMMA AfterNext ==
  ASSUME NEW j, NEW machine, NEW n \in Nat
  PROVE  /\ EntriesIn(j, machine, n + 1)
              = EntriesIn(j, machine, n)
                \cup IF j[n + 1].machine = machine THEN {n + 1} ELSE {}
         /\ After(j, machine, n + 1) = IF j[n + 1].machine = machine
                                       THEN j[n + 1].to
                                       ELSE After(j, machine, n)
  <1>1. EntriesIn(j, machine, n + 1)
          = EntriesIn(j, machine, n)
            \cup IF j[n + 1].machine = machine THEN {n + 1} ELSE {}
    BY DEF EntriesIn
  <1>2. CASE j[n + 1].machine = machine
    <2> DEFINE S == EntriesIn(j, machine, n + 1)
               Latest(i) == i \in S /\ \A k \in S : k <= i
    <2>1. Latest(n + 1) /\ \A i : Latest(i) => i = n + 1
      BY <1>2 DEF EntriesIn
    <2>2. (CHOOSE i \in S : \A k \in S : k <= i) = n + 1
      BY <2>1
    <2>3. S # {}
      BY <2>1
    <2>4. After(j, machine, n + 1)
            = IF S = {} THEN InitialState(machine)
              ELSE j[CHOOSE i \in S : \A k \in S : k <= i].to
      BY DEF After
    <2> HIDE DEF S
    <2>5. After(j, machine, n + 1) = j[n + 1].to
      BY <2>2, <2>3, <2>4
    <2>6. QED
      BY <1>1, <1>2, <2>5
  <1>3. CASE j[n + 1].machine # machine
    <2>1. EntriesIn(j, machine, n + 1) = EntriesIn(j, machine, n)
      BY <1>1, <1>3
    <2> DEFINE Latest(S) == IF S = {} THEN InitialState(machine)
                            ELSE j[CHOOSE i \in S : \A k \in S : k <= i].to
    <2>2. /\ After(j, machine, n + 1) = Latest(EntriesIn(j, machine, n + 1))
          /\ After(j, machine, n) = Latest(EntriesIn(j, machine, n))
      BY DEF After
    <2> HIDE DEF Latest
    <2>3. QED
      BY <1>3, <2>1, <2>2
  <1>4. QED
    BY <1>1, <1>2, <1>3

\* What was reached at a position does not depend on what comes later.
LEMMA AfterAppend ==
  ASSUME NEW j \in Seq(Changes), LastsExist(j), NEW c \in Changes,
         NEW machine \in Machines, NEW n \in 0..Len(j)
  PROVE  /\ EntriesIn(Append(j, c), machine, n) = EntriesIn(j, machine, n)
         /\ After(Append(j, c), machine, n) = After(j, machine, n)
  <1> DEFINE S == EntriesIn(j, machine, n)
  <1>1. /\ \A i \in 1..n : Append(j, c)[i] = j[i]
        /\ S \subseteq 1..n
    BY DEF EntriesIn
  <1>2. EntriesIn(Append(j, c), machine, n) = S
    BY <1>1 DEF EntriesIn
  <1>3. S # {} => (CHOOSE i \in S : \A k \in S : k <= i) \in 1..n
    <2>1. S # {} => \E i \in S : \A k \in S : k <= i
      BY DEF LastsExist
    <2>2. QED
      BY <1>1, <2>1
  <1>4. After(Append(j, c), machine, n) = After(j, machine, n)
    <2> DEFINE i == CHOOSE i \in S : \A k \in S : k <= i
    <2>1. After(j, machine, n)
            = IF S = {} THEN InitialState(machine) ELSE j[i].to
      BY DEF After
    <2>2. After(Append(j, c), machine, n)
            = IF S = {} THEN InitialState(machine) ELSE Append(j, c)[i].to
      BY <1>2 DEF After
    <2>3. S # {} => Append(j, c)[i] = j[i]
      BY <1>1, <1>3
    <2>4. QED
      <3> HIDE DEF i
      <3>1. CASE S = {}
        BY <2>1, <2>2, <3>1
      <3>2. CASE S # {}
        BY <2>1, <2>2, <2>3, <3>2
      <3>3. QED
        BY <3>1, <3>2
  <1>5. QED
    BY <1>2, <1>4

\* A change that starts where its machine is can be added to a journal that
\* is explained, and moves that machine and no other.
LEMMA Appended ==
  ASSUME NEW j \in Seq(Changes), Explained(j), NEW machine \in Machines,
         NEW to, Edge(machine, Reached(j, machine), to)
  PROVE  LET k == Append(j, Change(machine, Reached(j, machine), to)) IN
         /\ k \in Seq(Changes)
         /\ Explained(k)
         /\ \A m \in Machines :
              /\ Moved(k, m) <=> Moved(j, m) \/ m = machine
              /\ Reached(k, m) = IF m = machine THEN to ELSE Reached(j, m)
  <1> DEFINE c == Change(machine, Reached(j, machine), to)
             k == Append(j, c)
             n == Len(j)
  <1>1. c \in Changes
    BY EdgesAreChanges
  <1>2. /\ c.machine = machine /\ c.from = Reached(j, machine) /\ c.to = to
    BY DEF Change
  <1>3. LastsExist(j)
    BY DEF Explained
  <1> HIDE DEF c
  <1>4. /\ k \in Seq(Changes) /\ n \in Nat /\ Len(k) = n + 1
        /\ k[n + 1] = c /\ \A i \in 1..n : k[i] = j[i] /\ j[i] \in Changes
    BY <1>1
  <1>5. \A m \in Machines, i \in 0..n :
          /\ EntriesIn(k, m, i) = EntriesIn(j, m, i)
          /\ After(k, m, i) = After(j, m, i)
    BY <1>1, <1>3, AfterAppend
  <1> HIDE DEF k, n
  <1>6. \A m \in Machines :
          /\ EntriesIn(k, m, n + 1)
               = EntriesIn(j, m, n) \cup IF m = machine THEN {n + 1} ELSE {}
          /\ After(k, m, n + 1) = IF m = machine THEN to ELSE After(j, m, n)
    <2> SUFFICES ASSUME NEW m \in Machines
                 PROVE  /\ EntriesIn(k, m, n + 1)
                             = EntriesIn(j, m, n)
                               \cup IF m = machine THEN {n + 1} ELSE {}
                        /\ After(k, m, n + 1)
                             = IF m = machine THEN to ELSE After(j, m, n)
      OBVIOUS
    <2>1. /\ EntriesIn(k, m, n + 1)
               = EntriesIn(k, m, n)
                 \cup IF k[n + 1].machine = m THEN {n + 1} ELSE {}
          /\ After(k, m, n + 1) = IF k[n + 1].machine = m
                                  THEN k[n + 1].to ELSE After(k, m, n)
      BY <1>4, AfterNext
    <2>2. n \in 0..n
      BY <1>4
    <2>3. QED
      BY <1>2, <1>4, <1>5, <2>1, <2>2
  <1>7. \A m \in Machines :
          /\ Moved(k, m) <=> Moved(j, m) \/ m = machine
          /\ Reached(k, m) = IF m = machine THEN to ELSE Reached(j, m)
    BY <1>4, <1>6 DEF Moved, Reached, n
  <1>8. Legal(k)
    <2>1. \A i \in 1..n : Edge(j[i].machine, j[i].from, j[i].to)
      BY DEF Explained, Legal, Edge, n
    <2>2. Edge(c.machine, c.from, c.to)
      BY <1>2
    <2>3. \A i \in 1..(n + 1) : Edge(k[i].machine, k[i].from, k[i].to)
      BY <1>4, <2>1, <2>2
    <2>4. QED
      BY <1>4, <2>3 DEF Legal, Edge
  <1>9. \A i \in 1..Len(k) : k[i].from = After(k, k[i].machine, i - 1)
    <2>1. \A i \in 1..n : k[i].from = After(j, k[i].machine, i - 1)
      BY <1>4 DEF Explained, n
    <2>2. \A i \in 1..n : k[i].machine \in Machines /\ i - 1 \in 0..n
      BY <1>4 DEF Changes
    <2>3. \A i \in 1..n : k[i].from = After(k, k[i].machine, i - 1)
      BY <1>5, <2>1, <2>2
    <2>4. c.from = After(k, c.machine, n)
      BY <1>2, <1>4, <1>5 DEF Reached, n
    <2>5. \A i \in 1..(n + 1) : i \in 1..n \/ (i = n + 1 /\ i - 1 = n)
      BY <1>4
    <2>6. QED
      BY <1>4, <2>3, <2>4, <2>5
  <1>10. LastsExist(k)
    <2> SUFFICES ASSUME NEW m \in Machines, NEW i \in 0..(n + 1),
                        EntriesIn(k, m, i) # {}
                 PROVE  \E l \in EntriesIn(k, m, i) :
                          \A o \in EntriesIn(k, m, i) : o <= l
      BY <1>4 DEF LastsExist
    <2>1. CASE i \in 0..n
      BY <1>3, <1>5, <2>1 DEF LastsExist, n
    <2>2. CASE i = n + 1 /\ m = machine
      <3>1. /\ n + 1 \in EntriesIn(k, m, i)
            /\ \A o \in EntriesIn(k, m, i) : o <= n + 1
        BY <1>4, <1>6, <2>2 DEF EntriesIn
      <3>2. QED
        BY <3>1
    <2>3. CASE i = n + 1 /\ m # machine
      <3>1. EntriesIn(k, m, i) = EntriesIn(j, m, n) /\ n \in 0..n
        BY <1>4, <1>6, <2>3
      <3>2. QED
        BY <1>3, <3>1 DEF LastsExist, n
    <2>4. QED
      BY <1>4, <2>1, <2>2, <2>3
  <1>11. QED
    BY <1>4, <1>7, <1>8, <1>9, <1>10 DEF Explained, k, c

\* The three kinds of changes the macros make.
LEMMA InvTold ==
  ASSUME NEW j, NEW inv, NEW pay, NEW lis, Tells(j, inv, pay, lis),
         NEW to, <<inv, to>> \in HostedEdges
  PROVE  Tells(Append(j, Inv(inv, to)), to, pay, lis)
  <1> DEFINE k == Append(j, Inv(inv, to))
  <1>1. /\ j \in Seq(Changes) /\ Explained(j)
        /\ inv = Reached(j, "invocation")
        /\ Edge("invocation", inv, to) /\ "invocation" \in Machines
    BY EdgeTables DEF Tells, Machines
  <1>2. /\ k \in Seq(Changes) /\ Explained(k)
        /\ \A m \in Machines :
              /\ Moved(k, m) <=> Moved(j, m) \/ m = "invocation"
              /\ Reached(k, m) = IF m = "invocation" THEN to
                                                     ELSE Reached(j, m)
    BY <1>1, Appended DEF Inv
  <1> HIDE DEF k
  <1>3. Tells(k, to, pay, lis)
    BY <1>2 DEF Tells, Machines
  <1>4. QED
    BY <1>3 DEF k

\* A change of the payment intent, which the first one creates.
LEMMA PayTold ==
  ASSUME NEW j, NEW inv, NEW pay, NEW lis, Tells(j, inv, pay, lis),
         NEW from, from = IF pay = "ABSENT" THEN "CREATED" ELSE pay,
         NEW to, to # "ABSENT", <<from, to>> \in MandateEdges
  PROVE  Tells(Append(j, Pay(from, to)), inv, to, lis)
  <1> DEFINE k == Append(j, Pay(from, to))
  <1>1. from = Reached(j, "paymentIntent")
    <2>1. ~Moved(j, "paymentIntent") => Reached(j, "paymentIntent") = "CREATED"
      BY DEF Moved, Reached, After, InitialState
    <2>2. QED
      BY <2>1 DEF Tells
  <1>2. /\ j \in Seq(Changes) /\ Explained(j)
        /\ Edge("paymentIntent", from, to) /\ "paymentIntent" \in Machines
    BY EdgeTables DEF Tells, Machines
  <1>3. /\ k \in Seq(Changes) /\ Explained(k)
        /\ \A m \in Machines :
              /\ Moved(k, m) <=> Moved(j, m) \/ m = "paymentIntent"
              /\ Reached(k, m) = IF m = "paymentIntent" THEN to
                                                        ELSE Reached(j, m)
    BY <1>1, <1>2, Appended DEF Pay
  <1> HIDE DEF k
  <1>4. Tells(k, inv, to, lis)
    BY <1>3 DEF Tells, Machines
  <1>5. QED
    BY <1>4 DEF k

\* A change of the listing, which the first one finds active.
LEMMA ListingTold ==
  ASSUME NEW j, NEW inv, NEW pay, Tells(j, inv, pay, "ACTIVE"),
         NEW to, <<"ACTIVE", to>> \in ListingEdges
  PROVE  Tells(Append(j, Change("listing", "ACTIVE", to)), inv, pay, to)
  <1> DEFINE k == Append(j, Change("listing", "ACTIVE", to))
  <1>1. Reached(j, "listing") = "ACTIVE"
    <2>1. ~Moved(j, "listing") => Reached(j, "listing") = "ACTIVE"
      BY DEF Moved, Reached, After, InitialState
    <2>2. QED
      BY <2>1 DEF Tells
  <1>2. /\ j \in Seq(Changes) /\ Explained(j)
        /\ Edge("listing", "ACTIVE", to) /\ "listing" \in Machines
    BY EdgeTables DEF Tells, Machines
  <1>3. /\ k \in Seq(Changes) /\ Explained(k)
        /\ \A m \in Machines :
              /\ Moved(k, m) <=> Moved(j, m) \/ m = "listing"
              /\ Reached(k, m) = IF m = "listing" THEN to ELSE Reached(j, m)
    BY <1>1, <1>2, Appended
  <1> HIDE DEF k
  <1>4. Tells(k, inv, pay, to)
    BY <1>3 DEF Tells, Machines
  <1>5. QED
    BY <1>4 DEF k

\* A trace is added change by change.
LEMMA AppendsAreConcat ==
  ASSUME NEW j \in Seq(Changes), NEW a \in Changes, NEW b \in Changes
  PROVE  /\ j \o << a >> = Append(j, a)
         /\ j \o << a, b >> = Append(Append(j, a), b)
         /\ \A c \in Changes :
              j \o << a, b, c >> = Append(Append(Append(j, a), b), c)
         /\ \A c, d \in Changes :
              j \o << a, b, c, d >>
                = Append(Append(Append(Append(j, a), b), c), d)
         /\ \A c, d, e \in Changes :
              j \o << a, b, c, d, e >>
                = Append(Append(Append(Append(Append(j, a), b), c), d), e)
  <1>1. j \o << a >> = Append(j, a)
    OBVIOUS
  <1>2. j \o << a, b >> = Append(Append(j, a), b)
    OBVIOUS
  <1>3. \A c \in Changes :
          j \o << a, b, c >> = Append(Append(Append(j, a), b), c)
    OBVIOUS
  <1>4. \A c, d \in Changes :
          j \o << a, b, c, d >> = Append(Append(Append(Append(j, a), b), c), d)
    OBVIOUS
  <1>5. \A c, d, e \in Changes :
          j \o << a, b, c, d, e >>
            = Append(Append(Append(Append(Append(j, a), b), c), d), e)
    OBVIOUS
  <1>6. QED
    BY <1>1, <1>2, <1>3, <1>4, <1>5

\* The two parts of the trace of a SETTLE.
LEMMA PartsJoin ==
  ASSUME NEW a, NEW b, NEW c, NEW d
  PROVE  /\ << a, b >> \o << c, d >> = << a, b, c, d >>
         /\ \A e : << a, b >> \o << c, d, e >> = << a, b, c, d, e >>
  <1>1. << a, b >> \o << c, d >> = << a, b, c, d >>
    <2> DEFINE S == {a, b, c, d}
               s == << a, b >> \o << c, d >>
               t == << a, b, c, d >>
    <2>1. a \in S /\ b \in S /\ c \in S /\ d \in S
      OBVIOUS
    <2> HIDE DEF S
    <2>2. s \in Seq(S) /\ t \in Seq(S) /\ Len(s) = 4 /\ Len(t) = 4
      BY <2>1
    <2>3. s[1] = a /\ s[2] = b /\ s[3] = c /\ s[4] = d
      BY <2>1
    <2>4. t[1] = a /\ t[2] = b /\ t[3] = c /\ t[4] = d
      OBVIOUS
    <2>5. \A i \in 1..4 : i = 1 \/ i = 2 \/ i = 3 \/ i = 4
      OBVIOUS
    <2> HIDE DEF s, t
    <2>6. s = t
      BY <2>2, <2>3, <2>4, <2>5, SeqEqual
    <2>7. QED
      BY <2>6 DEF s, t
  <1>2. ASSUME NEW e
        PROVE  << a, b >> \o << c, d, e >> = << a, b, c, d, e >>
    <2> DEFINE S == {a, b, c, d, e}
               s == << a, b >> \o << c, d, e >>
               t == << a, b, c, d, e >>
    <2>1. a \in S /\ b \in S /\ c \in S /\ d \in S /\ e \in S
      OBVIOUS
    <2> HIDE DEF S
    <2>2. s \in Seq(S) /\ t \in Seq(S) /\ Len(s) = 5 /\ Len(t) = 5
      BY <2>1
    <2>3. s[1] = a /\ s[2] = b /\ s[3] = c /\ s[4] = d /\ s[5] = e
      BY <2>1
    <2>4. t[1] = a /\ t[2] = b /\ t[3] = c /\ t[4] = d /\ t[5] = e
      OBVIOUS
    <2>5. \A i \in 1..5 : i = 1 \/ i = 2 \/ i = 3 \/ i = 4 \/ i = 5
      OBVIOUS
    <2> HIDE DEF s, t
    <2>6. s = t
      BY <2>2, <2>3, <2>4, <2>5, SeqEqual
    <2>7. QED
      BY <2>6 DEF s, t
  <1>3. QED
    BY <1>1, <1>2

\* The edges between the intermediate states of the macros.
LEMMA MacroEdges ==
  /\ {<<"CREATED", "PAYMENT_REQUIRED">>,
      <<"PAYMENT_REQUIRED", "PAYMENT_AUTHORIZED">>,
      <<"OUTPUT_STAGED", "SETTLEMENT_PENDING">>,
      <<"SETTLEMENT_PENDING", "PAYMENT_UNKNOWN">>,
      <<"SETTLEMENT_PENDING", "DELIVERABLE">>,
      <<"PAYMENT_UNKNOWN", "DELIVERABLE">>} \subseteq HostedEdges
  /\ {<<"CREATED", "RESERVED">>, <<"RESERVED", "AUTHORIZING">>,
      <<"AUTHORIZING", "AUTHORIZED">>, <<"AUTHORIZED", "SUBMITTED">>,
      <<"SUBMITTED", "SETTLEMENT_UNKNOWN">>, <<"SUBMITTED", "CONFIRMED">>,
      <<"SETTLEMENT_UNKNOWN", "CONFIRMED">>,
      <<"CONFIRMED", "FINALIZED">>} \subseteq MandateEdges
  /\ <<"ACTIVE", "EMERGENCY_REVOKED">> \in ListingEdges
  BY DEF HostedEdges, SharedEdges, MandateEdges, CommonPaymentEdges,
         ListingEdges

\* A trace of one change of the invocation.
LEMMA OneChangeTold ==
  ASSUME JournalTells, NEW to, Legal(<< Inv(invocation.state, to) >>),
         journal' = journal \o << Inv(invocation.state, to) >>,
         invocation'.state = to, UNCHANGED <<paymentIntent, listing>>
  PROVE  JournalTells'
  <1>1. <<invocation.state, to>> \in HostedEdges
          /\ Inv(invocation.state, to) \in Changes
    BY LegalInvocationChange
  <1>2. Tells(Append(journal, Inv(invocation.state, to)), to,
              paymentIntent.state, listing)
    BY <1>1, InvTold DEF JournalTells
  <1>3. journal' = Append(journal, Inv(invocation.state, to))
    BY <1>1 DEF JournalTells, Tells
  <1>4. QED
    BY <1>2, <1>3 DEF JournalTells

\* VERIFY moves both machines, change by change in the order it journals.
LEMMA VerifyTold ==
  ASSUME NEW r \in Requests, LedgerInv, JournalTells, Verify(r)
  PROVE  JournalTells'
  <1>1. /\ Legal(VerifyTrace(r)) /\ journal' = journal \o VerifyTrace(r)
        /\ invocation'.state = "PAYMENT_AUTHORIZED"
        /\ paymentIntent'.state = "AUTHORIZED" /\ listing' = listing
    BY AdmittedProof DEF Verify, Commit, Record, MacroTrace, NoPaymentIntent,
                         LedgerInv, LedgerTyped, InvocationType
  <1>2. /\ r.macroMutation = "none" /\ invocation.state = "CREATED"
    BY <1>1, LegalVerify, RequestFields
  <1>3. paymentIntent.state = "ABSENT"
    BY <1>2 DEF LedgerInv, StatesAgree, Settled
  <1> DEFINE j1 == Append(journal, Inv("CREATED", "PAYMENT_REQUIRED"))
             j2 == Append(j1, Pay("CREATED", "RESERVED"))
             j3 == Append(j2, Pay("RESERVED", "AUTHORIZING"))
             j4 == Append(j3, Pay("AUTHORIZING", "AUTHORIZED"))
             j5 == Append(j4, Inv("PAYMENT_REQUIRED", "PAYMENT_AUTHORIZED"))
  <1>4. journal' = journal \o << Inv("CREATED", "PAYMENT_REQUIRED"),
                                 Pay("CREATED", "RESERVED"),
                                 Pay("RESERVED", "AUTHORIZING"),
                                 Pay("AUTHORIZING", "AUTHORIZED"),
                                 Inv("PAYMENT_REQUIRED", "PAYMENT_AUTHORIZED") >>
    BY <1>1, <1>2 DEF VerifyTrace
  <1>5. j5 = journal'
    BY <1>4, AppendsAreConcat DEF JournalTells, Tells
  <1>6. Tells(j1, "PAYMENT_REQUIRED", "ABSENT", listing)
    BY <1>2, <1>3, InvTold, MacroEdges DEF JournalTells
  <1> HIDE DEF j1
  <1>7. Tells(j2, "PAYMENT_REQUIRED", "RESERVED", listing)
    BY <1>6, PayTold, MacroEdges
  <1> HIDE DEF j2
  <1>8. Tells(j3, "PAYMENT_REQUIRED", "AUTHORIZING", listing)
    BY <1>7, PayTold, MacroEdges
  <1> HIDE DEF j3
  <1>9. Tells(j4, "PAYMENT_REQUIRED", "AUTHORIZED", listing)
    BY <1>8, PayTold, MacroEdges
  <1> HIDE DEF j4
  <1>10. Tells(j5, "PAYMENT_AUTHORIZED", "AUTHORIZED", listing)
    BY <1>9, InvTold, MacroEdges
  <1>11. QED
    BY <1>1, <1>5, <1>10 DEF JournalTells

\* A SETTLE finds staged output and an authorized intent.
LEMMA SettleFinds ==
  ASSUME NEW r \in Requests, LedgerInv, r.type = "SETTLE", Admitted(r)
  PROVE  invocation.state = "OUTPUT_STAGED"
           /\ paymentIntent.state = "AUTHORIZED"
  BY AdmittedStates DEF LedgerInv, StatesAgree, Settled

\* A settlement that is confirmed at once.
LEMMA SettleTold ==
  ASSUME NEW r \in Requests, LedgerInv, JournalTells, Settle(r)
  PROVE  JournalTells'
  <1>1. invocation.state = "OUTPUT_STAGED"
          /\ paymentIntent.state = "AUTHORIZED"
    BY SettleFinds DEF Settle
  <1>2. /\ journal' = journal \o SettleTrace(r) /\ ~r.settlementUnknown
        /\ invocation'.state = "DELIVERABLE"
        /\ paymentIntent'.state = "FINALIZED" /\ listing' = listing
    BY DEF Settle, Commit, Record, MacroTrace,
           LedgerInv, LedgerTyped, InvocationType, PaymentIntentType
  <1> DEFINE j1 == Append(journal, Inv("OUTPUT_STAGED", "SETTLEMENT_PENDING"))
             j2 == Append(j1, Pay("AUTHORIZED", "SUBMITTED"))
             j3 == Append(j2, Pay("SUBMITTED", "CONFIRMED"))
             j4 == Append(j3, Pay("CONFIRMED", "FINALIZED"))
             j5 == Append(j4, Inv("SETTLEMENT_PENDING", "DELIVERABLE"))
  <1>3. SettleTrace(r) = << Inv("OUTPUT_STAGED", "SETTLEMENT_PENDING"),
                            Pay("AUTHORIZED", "SUBMITTED"),
                            Pay("SUBMITTED", "CONFIRMED"),
                            Pay("CONFIRMED", "FINALIZED"),
                            Inv("SETTLEMENT_PENDING", "DELIVERABLE") >>
    <2>1. SettleTrace(r) = << Inv("OUTPUT_STAGED", "SETTLEMENT_PENDING"),
                              Pay("AUTHORIZED", "SUBMITTED") >>
                           \o << Pay("SUBMITTED", "CONFIRMED"),
                                 Pay("CONFIRMED", "FINALIZED"),
                                 Inv("SETTLEMENT_PENDING", "DELIVERABLE") >>
      BY <1>1, <1>2 DEF SettleTrace
    <2> DEFINE a == Inv("OUTPUT_STAGED", "SETTLEMENT_PENDING")
               b == Pay("AUTHORIZED", "SUBMITTED")
               c == Pay("SUBMITTED", "CONFIRMED")
               d == Pay("CONFIRMED", "FINALIZED")
               e == Inv("SETTLEMENT_PENDING", "DELIVERABLE")
    <2> HIDE DEF a, b, c, d, e
    <2>2. << a, b >> \o << c, d, e >> = << a, b, c, d, e >>
      BY PartsJoin
    <2>3. QED
      BY <2>1, <2>2 DEF a, b, c, d, e
  <1>4. j5 = journal'
    BY <1>2, <1>3, AppendsAreConcat DEF JournalTells, Tells
  <1>5. Tells(j1, "SETTLEMENT_PENDING", "AUTHORIZED", listing)
    BY <1>1, InvTold, MacroEdges DEF JournalTells
  <1> HIDE DEF j1
  <1>6. Tells(j2, "SETTLEMENT_PENDING", "SUBMITTED", listing)
    BY <1>5, PayTold, MacroEdges
  <1> HIDE DEF j2
  <1>7. Tells(j3, "SETTLEMENT_PENDING", "CONFIRMED", listing)
    BY <1>6, PayTold, MacroEdges
  <1> HIDE DEF j3
  <1>8. Tells(j4, "SETTLEMENT_PENDING", "FINALIZED", listing)
    BY <1>7, PayTold, MacroEdges
  <1> HIDE DEF j4
  <1>9. Tells(j5, "DELIVERABLE", "FINALIZED", listing)
    BY <1>8, InvTold, MacroEdges
  <1>10. QED
    BY <1>2, <1>4, <1>9 DEF JournalTells

\* A settlement whose outcome stays unknown.
LEMMA SettleUnknownTold ==
  ASSUME NEW r \in Requests, LedgerInv, JournalTells, SettleUnknown(r)
  PROVE  JournalTells'
  <1>1. invocation.state = "OUTPUT_STAGED"
          /\ paymentIntent.state = "AUTHORIZED"
    BY SettleFinds DEF SettleUnknown
  <1>2. /\ journal' = journal \o SettleTrace(r) /\ r.settlementUnknown
        /\ invocation'.state = "PAYMENT_UNKNOWN"
        /\ paymentIntent'.state = "SETTLEMENT_UNKNOWN" /\ listing' = listing
    BY DEF SettleUnknown, Commit, Record, MacroTrace,
           LedgerInv, LedgerTyped, InvocationType, PaymentIntentType
  <1> DEFINE j1 == Append(journal, Inv("OUTPUT_STAGED", "SETTLEMENT_PENDING"))
             j2 == Append(j1, Pay("AUTHORIZED", "SUBMITTED"))
             j3 == Append(j2, Pay("SUBMITTED", "SETTLEMENT_UNKNOWN"))
             j4 == Append(j3, Inv("SETTLEMENT_PENDING", "PAYMENT_UNKNOWN"))
  <1>3. SettleTrace(r) = << Inv("OUTPUT_STAGED", "SETTLEMENT_PENDING"),
                            Pay("AUTHORIZED", "SUBMITTED"),
                            Pay("SUBMITTED", "SETTLEMENT_UNKNOWN"),
                            Inv("SETTLEMENT_PENDING", "PAYMENT_UNKNOWN") >>
    <2>1. SettleTrace(r) = << Inv("OUTPUT_STAGED", "SETTLEMENT_PENDING"),
                              Pay("AUTHORIZED", "SUBMITTED") >>
                           \o << Pay("SUBMITTED", "SETTLEMENT_UNKNOWN"),
                                 Inv("SETTLEMENT_PENDING", "PAYMENT_UNKNOWN") >>
      BY <1>1, <1>2 DEF SettleTrace
    <2> DEFINE a == Inv("OUTPUT_STAGED", "SETTLEMENT_PENDING")
               b == Pay("AUTHORIZED", "SUBMITTED")
               c == Pay("SUBMITTED", "SETTLEMENT_UNKNOWN")
               d == Inv("SETTLEMENT_PENDING", "PAYMENT_UNKNOWN")
    <2> HIDE DEF a, b, c, d
    <2>2. << a, b >> \o << c, d >> = << a, b, c, d >>
      BY PartsJoin
    <2>3. QED
      BY <2>1, <2>2 DEF a, b, c, d
  <1>4. j4 = journal'
    BY <1>2, <1>3, AppendsAreConcat DEF JournalTells, Tells
  <1>5. Tells(j1, "SETTLEMENT_PENDING", "AUTHORIZED", listing)
    BY <1>1, InvTold, MacroEdges DEF JournalTells
  <1> HIDE DEF j1
  <1>6. Tells(j2, "SETTLEMENT_PENDING", "SUBMITTED", listing)
    BY <1>5, PayTold, MacroEdges
  <1> HIDE DEF j2
  <1>7. Tells(j3, "SETTLEMENT_PENDING", "SETTLEMENT_UNKNOWN", listing)
    BY <1>6, PayTold, MacroEdges
  <1> HIDE DEF j3
  <1>8. Tells(j4, "PAYMENT_UNKNOWN", "SETTLEMENT_UNKNOWN", listing)
    BY <1>7, InvTold, MacroEdges
  <1>9. QED
    BY <1>2, <1>4, <1>8 DEF JournalTells

\* A reconciliation confirms the settlement that was unknown.
LEMMA ResolveTold ==
  ASSUME NEW r \in Requests, LedgerInv, JournalTells, ResolveSettlement(r)
  PROVE  JournalTells'
  <1>1. invocation.state = "PAYMENT_UNKNOWN"
          /\ paymentIntent.state = "SETTLEMENT_UNKNOWN"
    BY AdmittedStates DEF ResolveSettlement, LedgerInv, StatesAgree, Settled
  <1>2. /\ journal' = journal \o ResolveTrace
        /\ invocation'.state = "DELIVERABLE"
        /\ paymentIntent'.state = "FINALIZED" /\ listing' = listing
    BY DEF ResolveSettlement, Commit, Record, MacroTrace,
           LedgerInv, LedgerTyped, InvocationType, PaymentIntentType
  <1> DEFINE j1 == Append(journal, Pay("SETTLEMENT_UNKNOWN", "CONFIRMED"))
             j2 == Append(j1, Pay("CONFIRMED", "FINALIZED"))
             j3 == Append(j2, Inv("PAYMENT_UNKNOWN", "DELIVERABLE"))
  <1>3. ResolveTrace = << Pay("SETTLEMENT_UNKNOWN", "CONFIRMED"),
                          Pay("CONFIRMED", "FINALIZED"),
                          Inv("PAYMENT_UNKNOWN", "DELIVERABLE") >>
    BY <1>1 DEF ResolveTrace
  <1>4. j3 = journal'
    BY <1>2, <1>3, AppendsAreConcat DEF JournalTells, Tells
  <1>5. Tells(j1, "PAYMENT_UNKNOWN", "CONFIRMED", listing)
    BY <1>1, PayTold, MacroEdges DEF JournalTells
  <1> HIDE DEF j1
  <1>6. Tells(j2, "PAYMENT_UNKNOWN", "FINALIZED", listing)
    BY <1>5, PayTold, MacroEdges
  <1> HIDE DEF j2
  <1>7. Tells(j3, "DELIVERABLE", "FINALIZED", listing)
    BY <1>6, InvTold, MacroEdges
  <1>8. QED
    BY <1>2, <1>4, <1>7 DEF JournalTells

\* A revocation moves the listing and, before settlement, the invocation.
LEMMA RevokeTold ==
  ASSUME NEW r \in Requests, LedgerInv, JournalTells,
         RevokeUnsettled(r) \/ RevokeSettled(r)
  PROVE  JournalTells'
  <1>1. /\ listing = "ACTIVE" /\ listing' = "EMERGENCY_REVOKED"
        /\ Legal(RevokeTrace) /\ journal' = journal \o RevokeTrace
        /\ paymentIntent' = paymentIntent
    BY AdmittedStates, AdmittedProof
       DEF RevokeUnsettled, RevokeSettled, Commit, Record, MacroTrace,
           LedgerInv, ListingAgrees
  <1> DEFINE c == Change("listing", "ACTIVE", "EMERGENCY_REVOKED")
             j1 == Append(journal, c)
  <1>2. Tells(j1, invocation.state, paymentIntent.state, "EMERGENCY_REVOKED")
    BY <1>1, ListingTold, MacroEdges DEF JournalTells
  <1>3. CASE RevokeSettled(r)
    <2>1. RevokeTrace = << c >> \o <<>> /\ invocation' = invocation
      BY <1>1, <1>3 DEF RevokeTrace, RevokeSettled
    <2>2. journal' = j1
      BY <1>1, <2>1, AppendsAreConcat DEF JournalTells, Tells
    <2>3. QED
      BY <1>1, <1>2, <2>1, <2>2 DEF JournalTells
  <1>4. CASE RevokeUnsettled(r)
    <2> DEFINE d == Inv(invocation.state, "FAILED_BEFORE_SETTLEMENT")
    <2>1. /\ RevokeTrace = << c >> \o << d >>
          /\ invocation'.state = "FAILED_BEFORE_SETTLEMENT"
          /\ <<invocation.state, "FAILED_BEFORE_SETTLEMENT">> \in HostedEdges
      BY <1>1, <1>4, LegalRevoke
         DEF RevokeTrace, RevokeUnsettled, FailTrace, LedgerInv, LedgerTyped,
             InvocationType
    <2>2. journal' = Append(j1, d)
      BY <1>1, <2>1, AppendsAreConcat DEF JournalTells, Tells
    <2> HIDE DEF j1
    <2>3. Tells(Append(j1, d), "FAILED_BEFORE_SETTLEMENT",
                paymentIntent.state, "EMERGENCY_REVOKED")
      BY <1>2, <2>1, InvTold
    <2>4. QED
      BY <1>1, <2>1, <2>2, <2>3 DEF JournalTells
  <1>5. QED
    BY <1>3, <1>4

\* Every answer journals the changes it makes to the machines.
LEMMA StepTold ==
  ASSUME LedgerInv, JournalTells, [Next]_vars
  PROVE  JournalTells'
  <1>1. ASSUME UNCHANGED <<ledger, journal>> PROVE JournalTells'
    BY <1>1 DEF ledger, JournalTells
  <1>2. ASSUME NEW r \in Requests,
               \/ Replay(r) \/ Conflict(r) \/ AbortRevokedListing(r)
               \/ RejectProof(r) \/ TimeOutBeforeCommit(r)
               \/ RejectIncompleteProof(r) \/ AbortMissingIntent(r)
               \/ RejectIllegal(r)
        PROVE  UNCHANGED <<ledger, journal>>
    BY <1>2 DEF Replay, Conflict, AbortRevokedListing, RejectProof,
                TimeOutBeforeCommit, RejectIncompleteProof,
                AbortMissingIntent, RejectIllegal, Reject
  <1>3. ASSUME NEW r \in Requests, RefuseRevokedListing(r)
        PROVE  JournalTells'
    <2>1. /\ Legal(FailTrace) /\ journal' = journal \o FailTrace
          /\ invocation'.state = "FAILED_BEFORE_SETTLEMENT"
          /\ UNCHANGED <<paymentIntent, listing>>
      BY <1>3 DEF RefuseRevokedListing, Record, LedgerInv, LedgerTyped,
                  InvocationType
    <2>2. QED
      BY <2>1, OneChangeTold DEF FailTrace
  <1>4. ASSUME NEW r \in Requests,
               \/ Execute(r) \/ ExecuteFails(r) \/ Stage(r)
               \/ Deliver(r) \/ Ack(r)
        PROVE  JournalTells'
    <2>1. /\ Admitted(r) /\ Legal(MacroTrace(r))
          /\ journal' = journal \o MacroTrace(r)
          /\ UNCHANGED <<paymentIntent, listing>>
      BY <1>4, AdmittedProof
         DEF Execute, ExecuteFails, Stage, Deliver, Ack, Commit, Record
    <2>2. MacroTrace(r) = << Inv(invocation.state, invocation'.state) >>
      BY <1>4 DEF Execute, ExecuteFails, Stage, Deliver, Ack, MacroTrace,
                  ExecuteTrace, StageTrace, DeliverTrace, AckTrace,
                  LedgerInv, LedgerTyped, InvocationType
    <2>3. QED
      BY <2>1, <2>2, OneChangeTold
  <1>5. CASE UNCHANGED vars
    BY <1>1, <1>5 DEF vars, ledger
  <1>6. QED
    BY <1>1, <1>2, <1>3, <1>4, <1>5, VerifyTold, SettleTold,
       SettleUnknownTold, ResolveTold, RevokeTold
       DEF Next, Answer

\* What the journal tells is what JournalExplainsState says of it.
LEMMA TellsIsExplains == JournalTells => JournalExplainsState
  BY DEF JournalTells, Tells, Explained, JournalExplainsState, Moved, Reached,
         After, EntriesIn, StateAfter, EntriesOf

(***************************************************************************)
(* The journal, over any history of requests, is a legal chain of changes  *)
(* that leads to the current state of each machine.                        *)
(***************************************************************************)
THEOREM JournalIsComplete == Spec => []JournalExplainsState
  <1>1. Init => JournalTells
    <2> SUFFICES ASSUME Init PROVE JournalTells
      OBVIOUS
    <2>1. /\ journal = <<>> /\ Len(journal) = 0
          /\ \A machine, n : n = 0 => EntriesIn(journal, machine, n) = {}
      BY DEF Init, EntriesIn
    <2>2. Explained(journal)
      BY <2>1 DEF Explained, Legal, LastsExist
    <2>3. /\ ~Moved(journal, "paymentIntent") /\ ~Moved(journal, "listing")
          /\ Reached(journal, "invocation") = "CREATED"
      BY <2>1 DEF Moved, Reached, After, InitialState
    <2>4. QED
      BY <2>1, <2>2, <2>3
         DEF Init, JournalTells, Tells, NewInvocation, NoPaymentIntent
  <1>2. LedgerInv /\ JournalTells /\ [Next]_vars => JournalTells'
    BY StepTold
  <1>3. QED
    BY <1>1, <1>2, TellsIsExplains, LedgerInvariance, PTL DEF Spec
---------------------------------------------------------------------------
(***************************************************************************)
(* The effects.                                                            *)
(***************************************************************************)
NoEffect == {"SETTLEMENT_UNKNOWN", "LISTING_REVOKED"}

\* Whether a record of a request of this type with this error stands for an
\* effect.
Has(type, errorCode, e) == type \in EffectTypes[e] /\ errorCode \notin NoEffect

\* Which effect each type of request has.
LEMMA EffectOfType ==
  ASSUME NEW e \in EffectNames
  PROVE  /\ "VERIFY" \in EffectTypes[e] <=> e = "authorizations"
         /\ "EXECUTE" \in EffectTypes[e] <=> e = "executions"
         /\ "STAGE" \in EffectTypes[e] <=> e = "stagings"
         /\ "SETTLE" \in EffectTypes[e] <=> e = "settlements"
         /\ "RESOLVE_SETTLEMENT" \in EffectTypes[e] <=> e = "settlements"
         /\ "DELIVER" \in EffectTypes[e] <=> e = "deliveries"
         /\ "ACK" \in EffectTypes[e] <=> e = "acknowledgements"
         /\ "REVOKE_LISTING" \notin EffectTypes[e]
         /\ "none" \notin EffectTypes[e]
  BY DEF EffectTypes, EffectNames

\* The invariant that is inductive: the sets counted are finite.
Tallied ==
  \A e \in EffectNames :
    IsFiniteSet(RecordsWith(e)) /\ effects[e] = Cardinality(RecordsWith(e))

\* A record adds its key to the sets of the effects it stands for.
LEMMA RecordGrows ==
  ASSUME BooksTyped, NEW r \in Requests, ~Recorded(r), NEW e \in EffectNames,
         NEW trace, NEW errorCode, NEW reasonCode,
         Record(r, trace, errorCode, reasonCode)
  PROVE  /\ r.idempotencyKey \notin RecordsWith(e)
         /\ RecordsWith(e)' = IF Has(r.type, errorCode, e)
                              THEN RecordsWith(e) \cup {r.idempotencyKey}
                              ELSE RecordsWith(e)
  <1> DEFINE key == r.idempotencyKey
  <1>1. key \in Keys /\ committed[key].type = "none"
    BY RequestFields DEF Recorded
  <1>2. key \notin RecordsWith(e)
    BY <1>1, EffectOfType DEF RecordsWith
  <1>3. /\ committed'[key].type = r.type
        /\ committed'[key].errorCode = errorCode
        /\ \A k \in Keys \ {key} : committed'[k] = committed[k]
    BY <1>1 DEF Record, BooksTyped
  <1>4. RecordsWith(e)' = { k \in Keys : /\ committed'[k].type \in EffectTypes[e]
                                         /\ committed'[k].errorCode
                                              \notin NoEffect }
    BY DEF RecordsWith, NoEffect, EffectTypes
  <1>5. \A k \in Keys \ {key} : k \in RecordsWith(e)' <=> k \in RecordsWith(e)
    BY <1>3, <1>4 DEF RecordsWith, NoEffect
  <1>6. key \in RecordsWith(e)' <=> Has(r.type, errorCode, e)
    BY <1>1, <1>3, <1>4 DEF Has
  <1>7. RecordsWith(e) \subseteq Keys /\ RecordsWith(e)' \subseteq Keys
    BY <1>4 DEF RecordsWith
  <1>8. QED
    BY <1>1, <1>2, <1>5, <1>6, <1>7

\* A step that counts what it records keeps the tally.
LEMMA RecordTallies ==
  ASSUME BooksTyped, Tallied, NEW r \in Requests, ~Recorded(r),
         NEW trace, NEW errorCode, NEW reasonCode,
         Record(r, trace, errorCode, reasonCode),
         effects \in [EffectNames -> Nat],
         \A e \in EffectNames :
           effects'[e] = IF Has(r.type, errorCode, e) THEN effects[e] + 1
                                                      ELSE effects[e]
  PROVE  Tallied'
  <1> SUFFICES ASSUME NEW e \in EffectNames
               PROVE  /\ IsFiniteSet(RecordsWith(e)')
                      /\ effects'[e] = Cardinality(RecordsWith(e)')
    BY DEF Tallied
  <1>1. /\ r.idempotencyKey \notin RecordsWith(e)
        /\ RecordsWith(e)' = IF Has(r.type, errorCode, e)
                             THEN RecordsWith(e) \cup {r.idempotencyKey}
                             ELSE RecordsWith(e)
    BY RecordGrows
  <1>2. /\ IsFiniteSet(RecordsWith(e))
        /\ effects[e] = Cardinality(RecordsWith(e))
    BY DEF Tallied
  <1>3. /\ IsFiniteSet(RecordsWith(e) \cup {r.idempotencyKey})
        /\ Cardinality(RecordsWith(e) \cup {r.idempotencyKey})
             = Cardinality(RecordsWith(e)) + 1
    BY <1>1, <1>2, FS_AddElement
  <1>4. QED
    BY <1>1, <1>2, <1>3

\* A committed macro counts what it records.
LEMMA CommitTallies ==
  ASSUME BooksTyped, Tallied, NEW r \in Requests, Admitted(r),
         NEW outcome, NEW errorCode, NEW reasonCode,
         Commit(r, outcome, errorCode, reasonCode),
         effects \in [EffectNames -> Nat],
         \A e \in EffectNames :
           effects'[e] = IF Has(r.type, errorCode, e) THEN effects[e] + 1
                                                      ELSE effects[e]
  PROVE  Tallied'
  BY AdmittedProof, RecordTallies DEF Commit

\* A committed macro with one effect counts that effect.
LEMMA CountTallies ==
  ASSUME BooksTyped, Tallied, NEW r \in Requests, Admitted(r),
         NEW outcome, NEW errorCode, NEW reasonCode,
         errorCode \notin NoEffect,
         Commit(r, outcome, errorCode, reasonCode),
         effects \in [EffectNames -> Nat],
         NEW effect \in EffectNames, Count(effect),
         \A e \in EffectNames : r.type \in EffectTypes[e] <=> e = effect
  PROVE  Tallied'
  <1>1. \A e \in EffectNames :
          effects'[e] = IF Has(r.type, errorCode, e) THEN effects[e] + 1
                                                     ELSE effects[e]
    BY Counted DEF Has
  <1>2. QED
    BY <1>1, CommitTallies

LEMMA StepTallies ==
  ASSUME LedgerInv, BooksTyped, Tallied, [Next]_vars
  PROVE  Tallied'
  <1>1. effects \in [EffectNames -> Nat]
    BY DEF LedgerInv, LedgerTyped
  <1>2. CASE UNCHANGED <<ledger, committed>>
    BY <1>2 DEF ledger, Tallied, RecordsWith
  <1>3. ASSUME NEW r \in Requests,
               \/ Replay(r) \/ Conflict(r) \/ AbortRevokedListing(r)
               \/ RejectProof(r) \/ TimeOutBeforeCommit(r)
               \/ RejectIncompleteProof(r) \/ AbortMissingIntent(r)
               \/ RejectIllegal(r)
        PROVE  UNCHANGED <<ledger, committed>>
    BY <1>3 DEF Replay, Conflict, AbortRevokedListing, RejectProof,
                TimeOutBeforeCommit, RejectIncompleteProof,
                AbortMissingIntent, RejectIllegal, Reject
  <1>4. ASSUME NEW r \in Requests, RefuseRevokedListing(r) PROVE Tallied'
    <2>1. /\ ~Recorded(r) /\ UNCHANGED effects
          /\ Record(r, FailTrace, "LISTING_REVOKED", "REVOKED_LISTING")
      BY <1>4 DEF RefuseRevokedListing, Fresh
    <2>2. QED
      BY <1>1, <2>1, RecordTallies DEF Has, NoEffect
  <1>5. ASSUME NEW r \in Requests, RevokeUnsettled(r) \/ SettleUnknown(r)
        PROVE  Tallied'
    BY <1>1, <1>5, CommitTallies
       DEF RevokeUnsettled, SettleUnknown, Has, NoEffect
  <1>6. ASSUME NEW r \in Requests, RevokeSettled(r) PROVE Tallied'
    BY <1>1, <1>6, CommitTallies, EffectOfType DEF RevokeSettled, Has
  <1>7. ASSUME NEW r \in Requests, NEW effect \in EffectNames, Count(effect),
               Admitted(r), Commit(r, "COMMITTED", "null", "null"),
               \A e \in EffectNames : r.type \in EffectTypes[e] <=> e = effect
        PROVE  Tallied'
    <2>1. "null" \notin NoEffect
      BY DEF NoEffect
    <2>2. QED
      BY <1>1, <1>7, <2>1, CountTallies
  <1>8. ASSUME NEW r \in Requests, ExecuteFails(r) PROVE Tallied'
    <2>1. "OUTPUT_NOT_CHARGEABLE" \notin NoEffect
            /\ "executions" \in EffectNames
      BY DEF NoEffect, EffectNames
    <2>2. /\ Count("executions") /\ Admitted(r) /\ r.type = "EXECUTE"
          /\ Commit(r, "REJECTED", "OUTPUT_NOT_CHARGEABLE", "SELLER_FAILED")
      BY <1>8 DEF ExecuteFails
    <2>3. QED
      BY <1>1, <2>1, <2>2, CountTallies, EffectOfType
  <1>9. ASSUME NEW r \in Requests,
               \/ Verify(r) \/ Execute(r) \/ Stage(r) \/ Settle(r)
               \/ Deliver(r) \/ Ack(r) \/ ResolveSettlement(r)
        PROVE  Tallied'
    <2>1. Admitted(r) /\ Commit(r, "COMMITTED", "null", "null")
      BY <1>9 DEF Verify, Execute, Stage, Settle, Deliver, Ack,
                  ResolveSettlement
    <2>2. \/ r.type = "VERIFY" /\ Count("authorizations")
          \/ r.type = "EXECUTE" /\ Count("executions")
          \/ r.type = "STAGE" /\ Count("stagings")
          \/ r.type \in {"SETTLE", "RESOLVE_SETTLEMENT"}
               /\ Count("settlements")
          \/ r.type = "DELIVER" /\ Count("deliveries")
          \/ r.type = "ACK" /\ Count("acknowledgements")
      BY <1>9 DEF Verify, Execute, Stage, Settle, Deliver, Ack,
                  ResolveSettlement
    <2>3. {"authorizations", "executions", "stagings", "settlements",
           "deliveries", "acknowledgements"} \subseteq EffectNames
      BY DEF EffectNames
    <2>4. \E effect \in EffectNames :
            /\ Count(effect)
            /\ \A e \in EffectNames : r.type \in EffectTypes[e] <=> e = effect
      BY <2>2, <2>3, EffectOfType
    <2>5. QED
      BY <1>7, <2>1, <2>4
  <1>10. CASE UNCHANGED vars
    BY <1>2, <1>10 DEF vars, ledger
  <1>11. ASSUME NEW r \in Requests, Answer(r)
         PROVE  Tallied'
    BY <1>2, <1>3, <1>4, <1>5, <1>6, <1>8, <1>9, <1>11 DEF Answer
  <1>12. QED
    BY <1>10, <1>11 DEF Next

(***************************************************************************)
(* No effect is repeated, forgotten or unrecorded.                         *)
(***************************************************************************)
THEOREM ExactlyOnce == Spec => []EffectsAreRecorded
  <1>1. Init => Tallied
    <2> SUFFICES ASSUME Init, NEW e \in EffectNames
                 PROVE  /\ IsFiniteSet(RecordsWith(e))
                        /\ effects[e] = Cardinality(RecordsWith(e))
      BY DEF Tallied
    <2>1. RecordsWith(e) = {}
      BY EffectOfType DEF Init, RecordsWith, NoRecord
    <2>2. QED
      BY <2>1, FS_EmptySet DEF Init, EmptyEffects
  <1>2. LedgerInv /\ BooksTyped /\ Tallied /\ [Next]_vars => Tallied'
    BY StepTallies
  <1>3. Tallied => EffectsAreRecorded
    BY DEF Tallied, EffectsAreRecorded
  <1>4. QED
    BY <1>1, <1>2, <1>3, LedgerInvariance, BooksInvariance, PTL DEF Spec
---------------------------------------------------------------------------
(***************************************************************************)
(* The runner.                                                             *)
(***************************************************************************)
\* Every answer but a replay and an exception reports what it journals.
LEMMA StepCounts ==
  ASSUME BooksTyped, [Next]_vars, CountMatches
  PROVE  CountMatches'
  <1>1. ASSUME NEW r \in Requests, NEW trace \in Seq(Changes), NEW outcome,
               NEW errorCode, NEW reasonCode,
               outcome # "IDEMPOTENT_REPLAY",
               Observe(r, outcome, errorCode, reasonCode, trace),
               journal' = journal \o trace
        PROVE  CountMatches'
    BY <1>1 DEF BooksTyped, CountMatches, Observe
  <1>2. ASSUME NEW r \in Requests, Admitted(r), NEW errorCode, NEW reasonCode,
               NEW outcome \in {"COMMITTED", "REJECTED",
                                "RECONCILIATION_REQUIRED"},
               Commit(r, outcome, errorCode, reasonCode)
        PROVE  CountMatches'
    <2> DEFINE answer == IF r.fault = "TIMEOUT_AFTER_COMMIT" THEN r.fault
                                                             ELSE outcome
    <2>1. MacroTrace(r) \in Seq(Changes) /\ answer # "IDEMPOTENT_REPLAY"
      BY <1>2, AdmittedStates
    <2>2. /\ Observe(r, answer, errorCode, reasonCode, MacroTrace(r))
          /\ journal' = journal \o MacroTrace(r)
      BY <1>2 DEF Commit, Record
    <2>3. QED
      BY <1>1, <2>1, <2>2
  <1>3. ASSUME NEW r \in Requests, NEW errorCode,
               NEW outcome \in {"REJECTED", "TIMEOUT_BEFORE_COMMIT"},
               Reject(r, outcome, errorCode)
        PROVE  CountMatches'
    <2>1. /\ Observe(r, outcome, errorCode, "null", <<>>)
          /\ UNCHANGED journal
      BY <1>3 DEF Reject
    <2>2. <<>> \in Seq(Changes) /\ journal' = journal \o <<>>
      BY <2>1 DEF BooksTyped
    <2>3. QED
      BY <1>1, <1>3, <2>1, <2>2
  <1>4. ASSUME NEW r \in Requests, Replay(r) PROVE CountMatches'
    BY <1>4 DEF Replay, Observe, CountMatches, BooksTyped
  <1>5. ASSUME NEW r \in Requests, RefuseRevokedListing(r)
        PROVE  CountMatches'
    <2>1. FailTrace \in Seq(Changes)
      BY <1>5, LegalInvocationChange DEF RefuseRevokedListing, FailTrace
    <2>2. QED
      BY <1>1, <1>5, <2>1 DEF RefuseRevokedListing, Record
  <1>6. ASSUME NEW r \in Requests,
               AbortRevokedListing(r) \/ AbortMissingIntent(r)
        PROVE  CountMatches'
    BY <1>6 DEF AbortRevokedListing, AbortMissingIntent, CountMatches
  <1>7. ASSUME NEW r \in Requests,
               \/ Conflict(r) \/ RejectProof(r) \/ TimeOutBeforeCommit(r)
               \/ RejectIncompleteProof(r) \/ RejectIllegal(r)
        PROVE  CountMatches'
    BY <1>3, <1>7 DEF Conflict, RejectProof, TimeOutBeforeCommit,
                      RejectIncompleteProof, RejectIllegal
  <1>8. ASSUME NEW r \in Requests,
               \/ Verify(r) \/ Execute(r) \/ ExecuteFails(r) \/ Stage(r)
               \/ Settle(r) \/ SettleUnknown(r) \/ Deliver(r) \/ Ack(r)
               \/ ResolveSettlement(r) \/ RevokeUnsettled(r)
               \/ RevokeSettled(r)
        PROVE  CountMatches'
    BY <1>2, <1>8
       DEF Verify, Execute, ExecuteFails, Stage, Settle, SettleUnknown,
           Deliver, Ack, ResolveSettlement, RevokeUnsettled, RevokeSettled
  <1>9. CASE UNCHANGED vars
    BY <1>9 DEF vars, CountMatches
  <1>10. QED
    BY <1>4, <1>5, <1>6, <1>7, <1>8, <1>9 DEF Next, Answer

(***************************************************************************)
(* After any scenario the runner accepts the final state and the count of  *)
(* transitions that the reference flow reports.                            *)
(***************************************************************************)
THEOREM ReferenceIsAccepted == Spec => []RunnerAccepts
  <1>1. LedgerInv => ValidateNormalizedState
    BY DEF LedgerInv, EvidenceAgrees, SettlementFinality, IntentIsBound,
           ValidateNormalizedState
  <1>2. Init => CountMatches
    BY DEF Init, CountMatches
  <1>3. Spec => []CountMatches
    BY <1>2, StepCounts, BooksInvariance, PTL DEF Spec
  <1>4. ValidateNormalizedState /\ CountMatches => RunnerAccepts
    BY DEF RunnerAccepts
  <1>5. QED
    BY <1>1, <1>3, <1>4, LedgerInvariance, PTL

---------------------------------------------------------------------------
(***************************************************************************)
(* The refinement: every step of HostedFlow is, under the mapping, a step  *)
(* of HostedPromise or a stutter.                                          *)
(***************************************************************************)
PromisedVars == <<PromisedStage, PromisedFunds, listing # "ACTIVE">>

\* What the mapping says in each of the joint states of the projections.
LEMMA Mapped ==
  /\ invocation.state = "CREATED" => PromisedStage = "requested"
  /\ invocation.state = "PAYMENT_AUTHORIZED" => PromisedStage = "authorized"
  /\ invocation.state = "EXECUTING" => PromisedStage = "executed"
  /\ invocation.state = "OUTPUT_STAGED" => PromisedStage = "staged"
  /\ invocation.state = "PAYMENT_UNKNOWN" => PromisedStage = "unresolved"
  /\ invocation.state = "DELIVERABLE" => PromisedStage = "settled"
  /\ invocation.state = "DELIVERED" => PromisedStage = "released"
  /\ invocation.state = "ACKED" => PromisedStage = "acknowledged"
  /\ invocation.state = "FAILED_BEFORE_SETTLEMENT" => PromisedStage = "failed"
  /\ paymentIntent.state = "ABSENT" => PromisedFunds = "none"
  /\ paymentIntent.state = "AUTHORIZED" => PromisedFunds = "held"
  /\ paymentIntent.state = "SETTLEMENT_UNKNOWN" => PromisedFunds = "inDoubt"
  /\ paymentIntent.state = "FINALIZED" => PromisedFunds = "transferred"
  BY DEF PromisedStage, PromisedFunds

LEMMA MappedNext ==
  /\ invocation'.state = "PAYMENT_AUTHORIZED" => PromisedStage' = "authorized"
  /\ invocation'.state = "EXECUTING" => PromisedStage' = "executed"
  /\ invocation'.state = "OUTPUT_STAGED" => PromisedStage' = "staged"
  /\ invocation'.state = "PAYMENT_UNKNOWN" => PromisedStage' = "unresolved"
  /\ invocation'.state = "DELIVERABLE" => PromisedStage' = "settled"
  /\ invocation'.state = "DELIVERED" => PromisedStage' = "released"
  /\ invocation'.state = "ACKED" => PromisedStage' = "acknowledged"
  /\ invocation'.state = "FAILED_BEFORE_SETTLEMENT"
       => PromisedStage' = "failed"
  /\ paymentIntent'.state = "AUTHORIZED" => PromisedFunds' = "held"
  /\ paymentIntent'.state = "SETTLEMENT_UNKNOWN"
       => PromisedFunds' = "inDoubt"
  /\ paymentIntent'.state = "FINALIZED" => PromisedFunds' = "transferred"
  BY DEF PromisedStage, PromisedFunds

\* A step that leaves a part of the ledger alone leaves its image alone.
LEMMA UnmovedImages ==
  /\ UNCHANGED invocation => UNCHANGED PromisedStage
  /\ UNCHANGED paymentIntent => UNCHANGED PromisedFunds
  BY DEF PromisedStage, PromisedFunds

LEMMA InitRefines == Init => Promise!Init
  BY DEF Init, NewInvocation, NoPaymentIntent, PromisedStage, PromisedFunds,
         Promise!Init

\* A call between its creation and its settlement has an active listing.
LEMMA UnsettledIsActive ==
  ASSUME LedgerInv,
         invocation.state \in { "PAYMENT_AUTHORIZED", "EXECUTING",
                                "OUTPUT_STAGED", "PAYMENT_UNKNOWN" }
  PROVE  listing = "ACTIVE"
  BY DEF LedgerInv, ListingAgrees, Settled

LEMMA MoveRefines ==
  ASSUME LedgerInv, NEW r \in Requests, Moves(r)
  PROVE  Promise!Next \/ UNCHANGED PromisedVars
  <1> USE DEF Promise!Next
  <1>1. /\ invocation \in InvocationType
        /\ paymentIntent \in PaymentIntentType
    BY DEF LedgerInv, LedgerTyped
  <1>2. CASE Verify(r)
    <2>1. /\ listing = "ACTIVE" /\ invocation.state = "CREATED"
          /\ paymentIntent.state = "ABSENT"
      BY <1>2, MovesFrom
    <2>2. /\ invocation'.state = "PAYMENT_AUTHORIZED"
          /\ paymentIntent'.state = "AUTHORIZED" /\ UNCHANGED listing
      BY <1>1, <1>2 DEF Verify, InvocationType, NoPaymentIntent
    <2>3. Promise!Authorize
      BY <2>1, <2>2, Mapped, MappedNext DEF Promise!Authorize, Promise!Move
    <2>4. QED
      BY <2>3
  <1>3. CASE Execute(r)
    <2>1. invocation.state = "PAYMENT_AUTHORIZED" /\ listing = "ACTIVE"
      BY <1>3, MovesFrom, UnsettledIsActive
    <2>2. /\ invocation'.state = "EXECUTING"
          /\ UNCHANGED <<paymentIntent, listing>>
      BY <1>1, <1>3 DEF Execute, InvocationType
    <2>3. Promise!Execute
      BY <2>1, <2>2, Mapped, MappedNext, UnmovedImages
         DEF Promise!Execute, Promise!Move
    <2>4. QED
      BY <2>3
  <1>4. CASE Stage(r)
    <2>1. invocation.state = "EXECUTING" /\ listing = "ACTIVE"
      BY <1>4, MovesFrom, UnsettledIsActive
    <2>2. /\ invocation'.state = "OUTPUT_STAGED"
          /\ UNCHANGED <<paymentIntent, listing>>
      BY <1>1, <1>4 DEF Stage, InvocationType
    <2>3. Promise!StageOutput
      BY <2>1, <2>2, Mapped, MappedNext, UnmovedImages
         DEF Promise!StageOutput, Promise!Move
    <2>4. QED
      BY <2>3
  <1>5. CASE Settle(r) \/ SettleUnknown(r)
    <2>1. /\ invocation.state = "OUTPUT_STAGED" /\ listing = "ACTIVE"
          /\ paymentIntent.state = "AUTHORIZED"
      BY <1>5, MovesFrom, UnsettledIsActive
         DEF LedgerInv, StatesAgree, Settled
    <2>2. /\ UNCHANGED listing
          /\ \/ /\ invocation'.state = "DELIVERABLE"
                /\ paymentIntent'.state = "FINALIZED"
             \/ /\ invocation'.state = "PAYMENT_UNKNOWN"
                /\ paymentIntent'.state = "SETTLEMENT_UNKNOWN"
      BY <1>1, <1>5 DEF Settle, SettleUnknown, InvocationType,
                        PaymentIntentType
    <2>3. Promise!Settle \/ Promise!LoseOutcome
      BY <2>1, <2>2, Mapped, MappedNext
         DEF Promise!Settle, Promise!LoseOutcome, Promise!Move
    <2>4. QED
      BY <2>3
  <1>6. CASE ResolveSettlement(r)
    <2>1. /\ invocation.state = "PAYMENT_UNKNOWN" /\ listing = "ACTIVE"
          /\ paymentIntent.state = "SETTLEMENT_UNKNOWN"
      BY <1>6, MovesFrom, UnsettledIsActive
         DEF LedgerInv, StatesAgree, Settled
    <2>2. /\ UNCHANGED listing
          /\ invocation'.state = "DELIVERABLE"
          /\ paymentIntent'.state = "FINALIZED"
      BY <1>1, <1>6 DEF ResolveSettlement, InvocationType, PaymentIntentType
    <2>3. Promise!Reconcile
      BY <2>1, <2>2, Mapped, MappedNext DEF Promise!Reconcile, Promise!Move
    <2>4. QED
      BY <2>3
  <1>7. CASE Deliver(r)
    <2>1. invocation.state = "DELIVERABLE"
      BY <1>7, MovesFrom
    <2>2. /\ invocation'.state = "DELIVERED"
          /\ UNCHANGED <<paymentIntent, listing>>
      BY <1>1, <1>7 DEF Deliver, InvocationType
    <2>3. Promise!Release
      BY <2>1, <2>2, Mapped, MappedNext, UnmovedImages DEF Promise!Release
    <2>4. QED
      BY <2>3
  <1>8. CASE Ack(r)
    <2>1. invocation.state = "DELIVERED"
      BY <1>8, MovesFrom
    <2>2. /\ invocation'.state = "ACKED"
          /\ UNCHANGED <<paymentIntent, listing>>
      BY <1>1, <1>8 DEF Ack, InvocationType
    <2>3. Promise!Acknowledge
      BY <2>1, <2>2, Mapped, MappedNext, UnmovedImages DEF Promise!Acknowledge
    <2>4. QED
      BY <2>3
  <1>9. CASE ExecuteFails(r) \/ RefuseRevokedListing(r) \/ RevokeUnsettled(r)
    <2>1. /\ invocation.state \in Failable
          /\ RevokeUnsettled(r) => listing = "ACTIVE"
      BY <1>9, MovesFrom
    <2>2. PromisedStage \notin Promise!Settled \cup {"failed"}
      BY <2>1, Mapped DEF LedgerInv, StatesAgree, Settled, Failable,
                          Promise!Settled
    <2>3. /\ invocation'.state = "FAILED_BEFORE_SETTLEMENT"
          /\ UNCHANGED paymentIntent
          /\ RevokeUnsettled(r) => listing' = "EMERGENCY_REVOKED"
          /\ ~RevokeUnsettled(r) => UNCHANGED listing
      BY <1>1, <1>9 DEF ExecuteFails, RefuseRevokedListing, RevokeUnsettled,
                        InvocationType
    <2>4. PromisedStage' = "failed" /\ UNCHANGED PromisedFunds
      BY <2>3, MappedNext, UnmovedImages
    <2>5. CASE RevokeUnsettled(r)
      <3>1. Promise!Revoke
        BY <2>1, <2>2, <2>3, <2>4, <2>5 DEF Promise!Revoke
      <3>2. QED
        BY <3>1
    <2>6. CASE ~RevokeUnsettled(r)
      <3>1. Promise!Fail
        BY <2>2, <2>3, <2>4, <2>6 DEF Promise!Fail
      <3>2. QED
        BY <3>1
    <2>7. QED
      BY <2>5, <2>6
  <1>10. CASE RevokeSettled(r)
    <2>1. Settled /\ listing = "ACTIVE"
      BY <1>10, MovesFrom
    <2>2. PromisedStage \in Promise!Settled
      BY <2>1, Mapped DEF Settled, Promise!Settled
    <2>3. /\ listing' = "EMERGENCY_REVOKED"
          /\ UNCHANGED <<invocation, paymentIntent>>
      BY <1>10 DEF RevokeSettled
    <2>4. Promise!Revoke
      BY <2>1, <2>2, <2>3, UnmovedImages DEF Promise!Revoke, Promise!Settled
    <2>5. QED
      BY <2>4
  <1>11. QED
    BY <1>2, <1>3, <1>4, <1>5, <1>6, <1>7, <1>8, <1>9, <1>10 DEF Moves

(***************************************************************************)
(* Refinement: no retry, timeout, conflict, altered proof or revocation    *)
(* takes the flow out of what HostedPromise allows.                        *)
(***************************************************************************)
THEOREM FlowKeepsPromise == Spec => KeepsPromise
  <1>1. LedgerInv /\ [Next]_vars => [Promise!Next]_(Promise!pvars)
    <2> SUFFICES ASSUME LedgerInv, [Next]_vars
                 PROVE  Promise!Next \/ UNCHANGED PromisedVars
      BY DEF Promise!pvars, PromisedVars
    <2>1. CASE UNCHANGED ledger
      BY <2>1, UnmovedImages DEF ledger, PromisedVars
    <2>2. QED
      BY <2>1, OnlyMovesMove, MoveRefines
  <1>2. QED
    BY <1>1, InitRefines, LedgerInvariance, PTL
       DEF Spec, KeepsPromise, Promise!Spec
=============================================================================
