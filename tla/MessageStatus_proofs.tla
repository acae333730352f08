------------------------- MODULE MessageStatus_proofs -------------------------
(***************************************************************************)
(* Proofs about MessageStatus for any provider chain, any caps and any     *)
(* number of workers, killed anywhere: what is told of a message is true   *)
(* of one that was sent.  With one request at a time also: the status is   *)
(* that of the message the row points to, receipts never lower it, and no  *)
(* channel is tried twice.  Without a crash every start is announced, and  *)
(* with escalation on a message nobody confirmed keeps its next check.     *)
(***************************************************************************)
EXTENDS MessageStatus, SequenceTheorems, FiniteSetTheorems, NaturalsInduction,
        WellFoundedInduction, TLAPS

-----------------------------------------------------------------------------
(* What Only returns.  The library's induction theorems take an operator as *)
(* parameter; SetInduction takes a set instead, got from the well-founded   *)
(* order of the natural numbers.                                            *)

\* The natural numbers are well founded; stated without operator parameters.
LEMMA LessWF == IsWellFoundedOn({ss \in Nat \X Nat : ss[1] < ss[2]}, Nat)
  BY NatLessThanWellFounded DEF OpToRel

\* Induction over a set: what the prover can instantiate, unlike NatInduction.
LEMMA SetInduction ==
  ASSUME NEW S, 0 \in S, \A n \in Nat : n \in S => n + 1 \in S
  PROVE  Nat \subseteq S
<1> SUFFICES ASSUME Nat \ S # {} PROVE FALSE
  OBVIOUS
<1>0. DEFINE R == {ss \in Nat \X Nat : ss[1] < ss[2]}
<1>a. Nat \ S \subseteq Nat
  OBVIOUS
<1>b. IsWellFoundedOn(R, Nat)
  BY LessWF
<1> HIDE DEF R
<1>1. \E x \in Nat \ S : \A y \in Nat \ S : ~(<<y, x>> \in R)
  BY <1>a, <1>b, WFMin
<1>2. PICK x \in Nat \ S : \A y \in Nat \ S : ~(<<y, x>> \in R)
  BY <1>1
<1>3. \A y \in Nat \ S : ~(y < x)
  BY <1>2 DEF R
<1>4. x # 0 /\ x - 1 \in Nat
  OBVIOUS
<1>5. x - 1 \in S
  BY <1>3, <1>4
<1>6. (x - 1) + 1 \in S
  BY <1>4, <1>5
<1> QED
  BY <1>6

\* f is the recursive function of Only up to n.
Collects(f, s, T, n) ==
  f = [i \in 0 .. n |->
         IF i = 0 THEN <<>>
         ELSE IF s[i] \in T THEN Append(f[i - 1], s[i]) ELSE f[i - 1]]

\* The recursive function in Only exists.
LEMMA OnlyExists ==
  ASSUME NEW s, NEW T
  PROVE  \A n \in Nat : \E f : Collects(f, s, T, n)
<1> DEFINE Fun(f, n) == Collects(f, s, T, n)
           N == {n \in Nat : \E f : Fun(f, n)}
<1> USE DEF Collects
<1>1. 0 \in N
  <2> DEFINE f == [i \in 0 .. 0 |-> <<>>]
  <2>1. Fun(f, 0)
    OBVIOUS
  <2> QED
    BY <2>1
<1>2. ASSUME NEW n \in Nat, n \in N PROVE n + 1 \in N
  <2>1. PICK f : Fun(f, n)
    BY <1>2
  <2> DEFINE g == [i \in 0 .. n + 1 |->
                     IF i <= n THEN f[i]
                     ELSE IF s[i] \in T THEN Append(f[n], s[i]) ELSE f[n]]
  <2>2. \A i \in 0 .. n : g[i] = f[i]
    OBVIOUS
  <2>3. \A i \in 0 .. n + 1 : g[i] = IF i = 0 THEN <<>>
            ELSE IF s[i] \in T THEN Append(g[i - 1], s[i]) ELSE g[i - 1]
    <3> SUFFICES ASSUME NEW i \in 0 .. n + 1
                 PROVE  g[i] = IF i = 0 THEN <<>>
                               ELSE IF s[i] \in T THEN Append(g[i - 1], s[i]) ELSE g[i - 1]
      OBVIOUS
    <3>1. CASE i = 0
      BY <2>1, <3>1
    <3>2. CASE i \in 1 .. n
      <4>1. g[i] = f[i] /\ g[i - 1] = f[i - 1] /\ i \in 0 .. n
        BY <3>2
      <4> HIDE DEF g
      <4> QED
        BY <2>1, <3>2, <4>1
    <3>3. CASE i = n + 1
      <4>1. i - 1 = n /\ g[i - 1] = f[n] /\ i # 0
        BY <3>3
      <4> QED
        BY <3>3, <4>1
    <3> QED
      BY <3>1, <3>2, <3>3
  <2>4. Fun(g, n + 1)
    <3>1. g = [i \in 0 .. n + 1 |-> g[i]]
      OBVIOUS
    <3> HIDE DEF g
    <3> QED
      BY <2>3, <3>1
  <2>5. n + 1 \in Nat /\ \E h : Fun(h, n + 1)
    <3> HIDE DEF g, Collects
    <3> QED
      BY <2>4
  <2> QED
    BY <2>5
<1> HIDE DEF N
<1> HIDE DEF Collects
<1>3. Nat \subseteq N
  BY <1>1, <1>2, SetInduction
<1> QED
  BY <1>3 DEF N

\* What Only returns: those of s that are members of T, each once if s has each
\* once.
LEMMA OnlyProperties ==
  ASSUME NEW S, NEW s \in Seq(S), NEW T
  PROVE  /\ Only(s, T) \in Seq(S \cap T)
         /\ \A m \in 1 .. Len(s) : s[m] \in T =>
              \E j \in 1 .. Len(Only(s, T)) : Only(s, T)[j] = s[m]
         /\ IsInjective(s) => IsInjective(Only(s, T))
<1>1. PICK f : Collects(f, s, T, Len(s))
  BY OnlyExists, LenProperties
<1> DEFINE g == CHOOSE g : g = [i \in 0 .. Len(s) |->
            IF i = 0 THEN <<>>
            ELSE IF s[i] \in T THEN Append(g[i - 1], s[i]) ELSE g[i - 1]]
<1>2. g = [i \in 0 .. Len(s) |->
            IF i = 0 THEN <<>>
            ELSE IF s[i] \in T THEN Append(g[i - 1], s[i]) ELSE g[i - 1]]
  BY <1>1 DEF Collects
<1>3. Only(s, T) = g[Len(s)]
  BY DEF Only
<1> HIDE DEF g
<1> DEFINE Found(i) == /\ g[i] \in Seq(S \cap T)
                       /\ \A j \in 1 .. Len(g[i]) : \E m \in 1 .. i : g[i][j] = s[m]
                       /\ \A m \in 1 .. i : s[m] \in T =>
                            \E j \in 1 .. Len(g[i]) : g[i][j] = s[m]
                       /\ IsInjective(s) => IsInjective(g[i])
           N == {i \in Nat : i <= Len(s) => Found(i)}
<1>4. 0 \in N
  <2>1. g[0] = <<>>
    BY <1>2, LenProperties
  <2>2. <<>> \in Seq(S \cap T) /\ Len(<<>>) = 0 /\ IsInjective(<<>>)
    BY EmptySeq DEF IsInjective
  <2>3. Found(0)
    BY <2>1, <2>2
  <2> HIDE DEF Found
  <2> QED
    BY <2>3
<1>5. ASSUME NEW n \in Nat, n \in N PROVE n + 1 \in N
  <2> SUFFICES ASSUME n + 1 <= Len(s) PROVE Found(n + 1)
    OBVIOUS
  <2>0. Len(s) \in Nat /\ s[n + 1] \in S /\ DOMAIN s = 1 .. Len(s)
    BY LenProperties, ElementOfSeq
  <2>1. g[n + 1] = IF s[n + 1] \in T THEN Append(g[n], s[n + 1]) ELSE g[n]
    <3>1. n + 1 \in 0 .. Len(s) /\ n + 1 # 0 /\ (n + 1) - 1 = n
      BY <2>0
    <3> QED
      BY <1>2, <3>1
  <2>2. Found(n)
    BY <1>5, <2>0
  <2>3. CASE s[n + 1] \notin T
    <3>1. g[n + 1] = g[n] /\ \A m \in 1 .. n + 1 : m \in 1 .. n \/ m = n + 1
      BY <2>1, <2>3
    <3> HIDE DEF N
    <3> QED
      BY <2>2, <2>3, <3>1
  <2>4. CASE s[n + 1] \in T
    <3> DEFINE e == s[n + 1]
               a == g[n]
               b == g[n + 1]
    <3>1. b = Append(a, e) /\ a \in Seq(S \cap T) /\ e \in S \cap T
      BY <2>0, <2>1, <2>2, <2>4
    <3>2. /\ b \in Seq(S \cap T) /\ Len(b) = Len(a) + 1 /\ Len(a) \in Nat
          /\ \A i \in 1 .. Len(a) : b[i] = a[i]
          /\ b[Len(a) + 1] = e
          /\ DOMAIN b = 1 .. Len(b) /\ DOMAIN a = 1 .. Len(a)
      BY <3>1, AppendProperties, LenProperties
    <3>3. \A j \in 1 .. Len(a) : \E m \in 1 .. n : a[j] = s[m]
      BY <2>2
    <3> HIDE DEF a, b
    <3>4. \A j \in 1 .. Len(b) : \E m \in 1 .. n + 1 : b[j] = s[m]
      BY <3>2, <3>3
    <3>5. \A m \in 1 .. n + 1 : s[m] \in T => \E j \in 1 .. Len(b) : b[j] = s[m]
      <4>1. \A m \in 1 .. n : s[m] \in T => \E j \in 1 .. Len(a) : a[j] = s[m]
        BY <2>2 DEF a
      <4>2. 1 .. Len(a) \subseteq 1 .. Len(b) /\ Len(b) \in 1 .. Len(b)
        BY <3>2
      <4>3. b[Len(b)] = s[n + 1]
        BY <3>2
      <4> HIDE DEF e
      <4>4. \A m \in 1 .. n + 1 : m \in 1 .. n \/ m = n + 1
        OBVIOUS
      <4>5. \A m \in 1 .. n : s[m] \in T => \E j \in 1 .. Len(b) : b[j] = s[m]
        BY <3>2, <4>1, <4>2
      <4> QED
        BY <4>2, <4>3, <4>4, <4>5
    <3>6. ASSUME IsInjective(s) PROVE IsInjective(b)
      <4>1. \A j \in 1 .. Len(a) : a[j] # e
        <5> SUFFICES ASSUME NEW j \in 1 .. Len(a), a[j] = e PROVE FALSE
          OBVIOUS
        <5>1. PICK m \in 1 .. n : a[j] = s[m]
          BY <3>3
        <5>2. m \in DOMAIN s /\ n + 1 \in DOMAIN s /\ s[m] = s[n + 1] /\ m # n + 1
          BY <2>0, <5>1
        <5> QED
          BY <3>6, <5>2 DEF IsInjective
      <4>2. IsInjective(a)
        BY <2>2, <3>6 DEF a
      <4> HIDE DEF e
      <4> QED
        BY <3>2, <4>1, <4>2 DEF IsInjective
    <3> QED
      BY <3>2, <3>4, <3>5, <3>6 DEF b
  <2> QED
    BY <2>3, <2>4
<1> HIDE DEF N
<1>6. Nat \subseteq N
  BY <1>4, <1>5, SetInduction
<1>7. Found(Len(s))
  BY <1>6, LenProperties DEF N
<1> QED
  BY <1>3, <1>7

-----------------------------------------------------------------------------
(* The chain                                                               *)

\* The chain names each of its channels once.
LEMMA ChainOnce ==
  /\ Chain \in Seq(Channel) /\ Len(Chain) \in Nat /\ DOMAIN Chain = 1 .. Len(Chain)
  /\ IsFiniteSet(Channel)
  /\ IsInjective(Chain)
<1>1. Chain \in Seq(Channel) /\ Len(Chain) \in Nat /\ DOMAIN Chain = 1 .. Len(Chain)
      /\ Chain \in [1 .. Len(Chain) -> Channel]
  BY MessageConstants, LenProperties
<1>2. Chain \in Surjection(1 .. Len(Chain), Channel)
  BY <1>1 DEF Surjection, Channel
<1>3. IsFiniteSet(1 .. Len(Chain)) /\ Cardinality(1 .. Len(Chain)) = Len(Chain)
  BY <1>1, FS_Interval
<1>4. Chain \in Injection(1 .. Len(Chain), Channel)
  BY <1>2, <1>3, MessageConstants, FS_SurjSameCardinalityImpliesInj
<1>5. IsFiniteSet(Channel)
  BY <1>2, <1>3, FS_Surjection
<1> QED
  BY <1>1, <1>4, <1>5 DEF Injection

\* A sequence of channels without a repetition is no longer than the chain.
LEMMA OnceIsShort ==
  ASSUME NEW s \in Seq(Channel), IsInjective(s)
  PROVE  Len(s) <= Len(Chain)
<1>1. s \in [1 .. Len(s) -> Channel] /\ Len(s) \in Nat
  BY LenProperties
<1>2. s \in Injection(1 .. Len(s), Channel)
  BY <1>1 DEF Injection
<1>3. Cardinality(1 .. Len(s)) <= Cardinality(Channel) /\ Cardinality(1 .. Len(s)) = Len(s)
  <2>1. IsFiniteSet(Channel) /\ 1 \in Int /\ Len(s) \in Int
    BY <1>1, ChainOnce
  <2>2. Cardinality(1 .. Len(s)) <= Cardinality(Channel)
    BY <1>2, <2>1, FS_Injection
  <2>3. Cardinality(1 .. Len(s)) = IF 1 > Len(s) THEN 0 ELSE Len(s) - 1 + 1
    BY <2>1, FS_Interval
  <2> QED
    BY <1>1, <2>2, <2>3
<1> QED
  BY <1>3, MessageConstants

\* The channels of a message that are not tried yet.
LEMMA UntriedOnce ==
  /\ Untried \in Seq(Channel)
  /\ Untried \in Seq(Channel \ {attempts[i] : i \in DOMAIN attempts})
  /\ IsInjective(Untried)
<1> DEFINE T == Channel \ {attempts[i] : i \in DOMAIN attempts}
<1>1. Untried \in Seq(Channel \cap T) /\ IsInjective(Untried)
  BY ChainOnce, OnlyProperties DEF Untried
<1>2. Channel \cap T = T /\ T \subseteq Channel
  OBVIOUS
<1> QED
  BY <1>1, <1>2, SeqMonotonic

\* A beginning of a sequence of channels.
LEMMA Beginning ==
  ASSUME NEW s \in Seq(Channel), NEW k \in DOMAIN s
  PROVE  /\ SubSeq(s, 1, k) \in Seq(Channel)
         /\ Len(SubSeq(s, 1, k)) = k /\ k \in 1 .. Len(s)
         /\ \A i \in 1 .. k : SubSeq(s, 1, k)[i] = s[i]
         /\ IsInjective(s) => IsInjective(SubSeq(s, 1, k))
<1>1. k \in 1 .. Len(s) /\ DOMAIN s = 1 .. Len(s) /\ Len(s) \in Nat /\ k \in Int /\ 1 \in Int
  BY LenProperties
<1>2. \A i \in 1 .. k : s[i] \in Channel
  BY <1>1, ElementOfSeq
<1>3. /\ SubSeq(s, 1, k) \in Seq(Channel)
      /\ Len(SubSeq(s, 1, k)) = k
      /\ \A i \in 1 .. k : SubSeq(s, 1, k)[i] = s[i]
  BY <1>1, <1>2, SubSeqProperties
<1>4. DOMAIN SubSeq(s, 1, k) = 1 .. k
  BY <1>3, LenProperties
<1> QED
  BY <1>1, <1>3, <1>4 DEF IsInjective

-----------------------------------------------------------------------------
(* Type correctness                                                        *)

\* What a receipt that is applied can say.
Receipts == {"delivered", "read", "failed"}

\* Which steps the handlers have.
HandlerStep(f, step) ==
  \/ f = "none" /\ step = "idle"
  \/ f = "start" /\ step \in {"send", "record", "wipe", "fill", "schedule", "event"}
  \/ f = "resend" /\ step \in {"queue", "send", "record", "wipe", "fill"}
  \/ f = "escalate" /\ step \in {"plan", "send", "fill", "record", "schedule"}
  \/ f \in Receipts /\ step = "apply"

FlowSteps == \A w \in Worker : HandlerStep(flow[w], pc[w])

Flow == {"none", "start", "resend", "escalate"} \cup Status

LocalOK ==
  /\ pc \in [Worker -> Steps] /\ flow \in [Worker -> Flow]
  /\ seen \in [Worker -> Status \cup {"none"}]
  /\ tried \in [Worker -> Seq(Channel)] /\ got \in [Worker -> 0 .. SentBound]

\* The names of the statuses.
LEMMA StatusNames ==
  Status = {"queued", "sent", "delivered", "read", "failed"}
BY DEF Status, Order

\* Entering a step keeps the state of the workers well typed.
LEMMA EnterOK ==
  ASSUME LocalOK, NEW w \in Worker, NEW f \in Flow, NEW step \in Steps,
         NEW status \in Status \cup {"none"}, Enter(w, f, step, status)
  PROVE  LocalOK'
<1>1. <<>> \in Seq(Channel) /\ 0 \in 0 .. SentBound
  BY EmptySeq, MessageConstants
<1> QED
  BY <1>1 DEF Enter, LocalOK

LEMMA FinishOK ==
  ASSUME LocalOK, NEW w \in Worker, Finish(w)
  PROVE  LocalOK'
  BY EnterOK DEF Finish, Flow, Steps

\* So does a change of step that keeps the handler, or a change to another.
LEMMA FlowOK ==
  ASSUME LocalOK, FlowSteps, NEW w \in Worker, NEW f, NEW step, HandlerStep(f, step),
         flow' = [flow EXCEPT ![w] = f] \/ (flow[w] = f /\ UNCHANGED flow),
         pc' = [pc EXCEPT ![w] = step]
  PROVE  FlowSteps'
<1>1. \A v \in Worker : flow'[v] = IF v = w THEN f ELSE flow[v]
  BY DEF LocalOK
<1>2. \A v \in Worker : pc'[v] = IF v = w THEN step ELSE pc[v]
  BY DEF LocalOK
<1>3. \A v \in Worker : HandlerStep(flow[v], pc[v])
  BY DEF FlowSteps
<1>4. \A v \in Worker : HandlerStep(flow'[v], pc'[v])
  BY <1>1, <1>2, <1>3
<1> QED
  BY <1>4 DEF FlowSteps, HandlerStep

LEMMA FinishFlow ==
  ASSUME LocalOK, FlowSteps, NEW w \in Worker, Finish(w)
  PROVE  FlowSteps'
<1>1. HandlerStep("none", "idle")
  BY DEF HandlerStep
<1> QED
  BY <1>1, FlowOK DEF Finish, Enter

LEMMA MoveOK ==
  ASSUME LocalOK, NEW w \in Worker, NEW step \in Steps, Move(w, step)
  PROVE  LocalOK'
  BY DEF LocalOK, Move

\* Trying the channels of a sequence.
LEMMA SendChainOK ==
  ASSUME TypeOK, NEW w \in Worker, NEW paths \in Seq(Channel), SendChain(w, paths)
  PROVE  /\ tried' \in [Worker -> Seq(Channel)] /\ got' \in [Worker -> 0 .. SentBound]
         /\ sent' \in Seq(Fate) /\ Len(sent') <= SentBound
         /\ sent' = sent \/ sent' = Append(sent, "pending")
<1>1. CASE tried' = [tried EXCEPT ![w] = paths] /\ got' = [got EXCEPT ![w] = 0] /\ UNCHANGED sent
  BY <1>1, MessageConstants DEF TypeOK
<1>2. ASSUME NEW k \in DOMAIN paths, Len(sent) < SentBound, sent' = Append(sent, "pending"),
             tried' = [tried EXCEPT ![w] = SubSeq(paths, 1, k)],
             got' = [got EXCEPT ![w] = Len(sent')]
      PROVE  /\ tried' \in [Worker -> Seq(Channel)] /\ got' \in [Worker -> 0 .. SentBound]
             /\ sent' \in Seq(Fate) /\ Len(sent') <= SentBound
  <2>1. sent \in Seq(Fate) /\ Len(sent) \in Nat /\ "pending" \in Fate
    BY LenProperties DEF TypeOK, Fate
  <2>2. sent' \in Seq(Fate) /\ Len(sent') = Len(sent) + 1
    BY <1>2, <2>1, AppendProperties
  <2>3. Len(sent') \in 0 .. SentBound
    BY <1>2, <2>1, <2>2, MessageConstants
  <2>4. SubSeq(paths, 1, k) \in Seq(Channel)
    BY Beginning
  <2> QED
    BY <1>2, <2>2, <2>3, <2>4 DEF TypeOK
<1> QED
  BY <1>1, <1>2 DEF SendChain

LEMMA TypeInit == Init => TypeOK /\ FlowSteps
<1> SUFFICES ASSUME Init PROVE TypeOK /\ FlowSteps
  OBVIOUS
<1>1. <<>> \in Seq(Channel) /\ <<>> \in Seq(Fate) /\ Len(<<>>) = 0
  BY EmptySeq
<1>2. notif \in Notif
  BY MessageConstants DEF Init, NoNotif, Notif
<1>3. TypeOK
  <2>1. LocalOK
    BY <1>1, MessageConstants DEF Init, LocalOK, Flow, Steps
  <2>2. attempts \in Seq(Channel) /\ sent \in Seq(Fate)
    BY <1>1 DEF Init
  <2>3. Len(sent) = 0 /\ 0 <= SentBound
    BY <1>1, MessageConstants DEF Init
  <2>4. resends \in 0 .. ResendCap
    BY MessageConstants DEF Init
  <2>5. told \subseteq Status /\ due \in BOOLEAN /\ missed \in BOOLEAN /\ announced \in BOOLEAN
    BY DEF Init
  <2> QED
    BY <1>2, <2>1, <2>2, <2>3, <2>4, <2>5 DEF TypeOK, LocalOK, Flow
<1>4. FlowSteps
  BY DEF Init, FlowSteps, HandlerStep
<1> QED
  BY <1>3, <1>4

\* The phone network changes what became of one message.
LEMMA ProgressOK ==
  ASSUME TypeOK, Progress
  PROVE  /\ sent' \in Seq(Fate) /\ Len(sent') = Len(sent) /\ Len(sent) \in Nat
         /\ \E i \in 1 .. Len(sent) :
              /\ \A j \in 1 .. Len(sent) \ {i} : sent'[j] = sent[j]
              /\ \/ sent[i] = "pending" /\ sent'[i] \in {"delivered", "failed"}
                 \/ sent[i] = "delivered" /\ sent'[i] = "seen"
<1>1. sent \in Seq(Fate) /\ DOMAIN sent = 1 .. Len(sent) /\ Len(sent) \in Nat
  BY LenProperties DEF TypeOK
<1>2. PICK i \in 1 .. Len(sent), f \in Fate :
        /\ sent' = [sent EXCEPT ![i] = f]
        /\ \/ sent[i] = "pending" /\ f \in {"delivered", "failed"}
           \/ sent[i] = "delivered" /\ f = "seen"
  BY <1>1 DEF Progress, Fate
<1>3. /\ sent' \in Seq(Fate) /\ Len(sent') = Len(sent)
      /\ \A j \in 1 .. Len(sent) : sent'[j] = IF j = i THEN f ELSE sent[j]
  BY <1>1, <1>2, ExceptSeq
<1> QED
  BY <1>1, <1>2, <1>3

LEMMA TypeStep == TypeOK /\ FlowSteps /\ [Next]_vars => TypeOK' /\ FlowSteps'
<1> SUFFICES ASSUME TypeOK, FlowSteps, [Next]_vars PROVE TypeOK' /\ FlowSteps'
  OBVIOUS
<1>0. LocalOK
  BY DEF TypeOK, LocalOK, Flow
<1>types. (LocalOK' /\ notif' \in Notif /\ attempts' \in Seq(Channel) /\ resends' \in 0 .. ResendCap
          /\ sent' \in Seq(Fate) /\ Len(sent') <= SentBound
          /\ due' \in BOOLEAN /\ missed' \in BOOLEAN /\ announced' \in BOOLEAN
          /\ told' \subseteq Status) => TypeOK'
  BY DEF TypeOK, LocalOK, Flow
<1> USE <1>0 DEF row, outside, local, At
<1>1. ASSUME NEW w \in Worker, Start(w) PROVE TypeOK' /\ FlowSteps'
  <2>1. LocalOK'
    BY <1>1, EnterOK DEF Start, Flow, Steps
  <2>2. notif' \in Notif
    BY <1>1, StatusNames, MessageConstants DEF Start, NoNotif, Notif
  <2>3. FlowSteps'
    <3>1. HandlerStep("start", "send")
      BY DEF HandlerStep
    <3> QED
      BY <1>1, <3>1, FlowOK DEF Start, Enter
  <2> QED
    BY <1>1, <1>types, <2>1, <2>2, <2>3 DEF Start, TypeOK
<1>2. ASSUME NEW w \in Worker, Resend(w) PROVE TypeOK' /\ FlowSteps'
  <2>1. LocalOK'
    BY <1>2, EnterOK DEF Resend, Flow, Steps
  <2>2. resends' \in 0 .. ResendCap
    BY <1>2, MessageConstants DEF Resend, TypeOK
  <2>3. FlowSteps'
    <3>1. HandlerStep("resend", "queue")
      BY DEF HandlerStep
    <3> QED
      BY <1>2, <3>1, FlowOK DEF Resend, Enter
  <2> QED
    BY <1>2, <1>types, <2>1, <2>2, <2>3 DEF Resend, TypeOK
<1>3. ASSUME NEW w \in Worker, Escalate(w) PROVE TypeOK' /\ FlowSteps'
  <2>1. LocalOK'
    <3>1. CASE UNCHANGED local
      BY <3>1 DEF LocalOK
    <3>2. CASE Enter(w, "escalate", "plan", "none")
      BY <3>2, EnterOK DEF Flow, Steps
    <3> QED
      BY <1>3, <3>1, <3>2 DEF Escalate
  <2>2. FlowSteps'
    <3>1. CASE UNCHANGED local
      BY <3>1 DEF FlowSteps, HandlerStep
    <3>2. CASE Enter(w, "escalate", "plan", "none")
      <4>1. HandlerStep("escalate", "plan")
        BY DEF HandlerStep
      <4> QED
        BY <3>2, <4>1, FlowOK DEF Enter
    <3> QED
      BY <1>3, <3>1, <3>2 DEF Escalate
  <2> QED
    BY <1>3, <1>types, <2>1, <2>2 DEF Escalate, TypeOK
<1>4. ASSUME NEW w \in Worker, Receipt(w) PROVE TypeOK' /\ FlowSteps'
  <2>1. PICK s \in Receipts : Enter(w, s, "apply", notif.status)
    BY <1>4 DEF Receipt, Resolve, Receipts
  <2>2. notif.status \in Status \cup {"none"} /\ s \in Status
    BY StatusNames DEF TypeOK, Notif, Receipts
  <2>3. LocalOK'
    BY <2>1, <2>2, EnterOK DEF Flow, Steps
  <2>4. FlowSteps'
    <3>1. HandlerStep(s, "apply")
      BY DEF HandlerStep
    <3> QED
      BY <2>1, <3>1, FlowOK DEF Enter
  <2> QED
    BY <1>4, <1>types, <2>3, <2>4 DEF Receipt, TypeOK
<1>5. ASSUME NEW w \in Worker, ResendQueue(w) PROVE TypeOK' /\ FlowSteps'
  <2>1. LocalOK'
    BY <1>5, MoveOK DEF ResendQueue, Steps
  <2>2. notif' \in Notif
    BY <1>5, StatusNames DEF ResendQueue, TypeOK, Notif
  <2>3. FlowSteps'
    <3>1. HandlerStep(flow[w], "send")
      BY <1>5 DEF ResendQueue, FlowSteps, HandlerStep
    <3> QED
      BY <1>5, <3>1, FlowOK DEF ResendQueue, Move
  <2> QED
    BY <1>5, <1>types, <2>1, <2>2, <2>3 DEF ResendQueue, TypeOK
<1>6. ASSUME NEW w \in Worker, Send(w) PROVE TypeOK' /\ FlowSteps'
  <2>1. tried[w] \in Seq(Channel) /\ Chain \in Seq(Channel)
    BY ChainOnce DEF TypeOK
  <2>2. PICK paths \in Seq(Channel) : SendChain(w, paths)
    BY <1>6, <2>1 DEF Send
  <2>3. /\ tried' \in [Worker -> Seq(Channel)] /\ got' \in [Worker -> 0 .. SentBound]
        /\ sent' \in Seq(Fate) /\ Len(sent') <= SentBound
    BY <2>2, SendChainOK
  <2>4. LocalOK'
    BY <1>6, <2>3 DEF Send, LocalOK, Steps
  <2>5. FlowSteps'
    <3>1. HandlerStep(flow[w], IF flow[w] = "escalate" THEN "fill" ELSE "record")
      BY <1>6 DEF Send, FlowSteps, HandlerStep
    <3> QED
      BY <1>6, <3>1, FlowOK DEF Send
  <2> QED
    BY <1>6, <1>types, <2>3, <2>4, <2>5 DEF Send, TypeOK
<1>7. ASSUME NEW w \in Worker, Record(w) PROVE TypeOK' /\ FlowSteps'
  <2>1. LocalOK'
    BY <1>7, MoveOK DEF Record, Steps
  <2>2. notif' \in Notif
    BY <1>7, StatusNames DEF Record, TypeOK, Notif
  <2>3. FlowSteps'
    <3>1. HandlerStep(flow[w], IF flow[w] = "escalate" THEN "schedule" ELSE "wipe")
      BY <1>7 DEF Record, FlowSteps, HandlerStep
    <3> QED
      BY <1>7, <3>1, FlowOK DEF Record, Move
  <2> QED
    BY <1>7, <1>types, <2>1, <2>2, <2>3 DEF Record, TypeOK
<1>8. ASSUME NEW w \in Worker, Wipe(w) PROVE TypeOK' /\ FlowSteps'
  <2>1. LocalOK'
    BY <1>8, MoveOK DEF Wipe, Steps
  <2>2. attempts' \in Seq(Channel)
    BY <1>8, EmptySeq DEF Wipe
  <2>3. FlowSteps'
    <3>1. HandlerStep(flow[w], "fill")
      BY <1>8 DEF Wipe, FlowSteps, HandlerStep
    <3> QED
      BY <1>8, <3>1, FlowOK DEF Wipe, Move
  <2> QED
    BY <1>8, <1>types, <2>1, <2>2, <2>3 DEF Wipe, TypeOK
<1>9. ASSUME NEW w \in Worker, Fill(w) PROVE TypeOK' /\ FlowSteps'
  <2>0. \/ Finish(w)
        \/ flow[w] = "start" /\ Move(w, "schedule")
        \/ flow[w] = "escalate" /\ Move(w, "record")
    BY <1>9 DEF Fill
  <2>1. LocalOK'
    BY <2>0, MoveOK, FinishOK DEF Steps
  <2>2. attempts' \in Seq(Channel)
    BY <1>9, ConcatProperties DEF Fill, TypeOK
  <2>3. FlowSteps'
    <3>1. flow[w] = "start" => HandlerStep(flow[w], "schedule")
      BY DEF HandlerStep
    <3>2. flow[w] = "escalate" => HandlerStep(flow[w], "record")
      BY DEF HandlerStep
    <3> QED
      BY <2>0, <3>1, <3>2, FinishFlow, FlowOK DEF Move
  <2> QED
    BY <1>9, <1>types, <2>1, <2>2, <2>3 DEF Fill, TypeOK
<1>10. ASSUME NEW w \in Worker, Schedule(w) PROVE TypeOK' /\ FlowSteps'
  <2>0. Finish(w) \/ (flow[w] = "start" /\ Move(w, "event"))
    <3>1. Finish(w) \/ After(w)
      BY <1>10 DEF Schedule
    <3> QED
      BY <3>1 DEF After
  <2>1. LocalOK'
    BY <2>0, MoveOK, FinishOK DEF Steps
  <2>2. due' \in BOOLEAN /\ missed' \in BOOLEAN
    BY <1>10 DEF Schedule, TypeOK
  <2>3. FlowSteps'
    <3>1. flow[w] = "start" => HandlerStep(flow[w], "event")
      BY DEF HandlerStep
    <3> QED
      BY <2>0, <3>1, FinishFlow, FlowOK DEF Move
  <2> QED
    BY <1>10, <1>types, <2>1, <2>2, <2>3 DEF Schedule, TypeOK
<1>11. ASSUME NEW w \in Worker, Event(w) PROVE TypeOK' /\ FlowSteps'
  <2>1. LocalOK'
    BY <1>11, FinishOK DEF Event
  <2>2. FlowSteps'
    BY <1>11, FinishFlow DEF Event
  <2> QED
    BY <1>11, <1>types, <2>1, <2>2 DEF Event, TypeOK
<1>12. ASSUME NEW w \in Worker, EscalatePlan(w) PROVE TypeOK' /\ FlowSteps'
  <2>1. LocalOK'
    <3>1. CASE Finish(w)
      BY <3>1, FinishOK
    <3>2. CASE tried' = [tried EXCEPT ![w] = Untried] /\ pc' = [pc EXCEPT ![w] = "send"]
               /\ UNCHANGED <<flow, seen, got>>
      BY <3>2, UntriedOnce DEF LocalOK, Steps
    <3> QED
      BY <1>12, <3>1, <3>2 DEF EscalatePlan
  <2>2. due' \in BOOLEAN
    BY <1>12 DEF EscalatePlan, TypeOK
  <2>3. FlowSteps'
    <3>1. flow[w] = "escalate" /\ HandlerStep(flow[w], "send")
      BY <1>12 DEF EscalatePlan, FlowSteps, HandlerStep, Receipts
    <3>2. CASE Finish(w)
      BY <3>2, FinishFlow
    <3>3. CASE pc' = [pc EXCEPT ![w] = "send"] /\ UNCHANGED flow
      BY <3>1, <3>3, FlowOK
    <3> QED
      BY <1>12, <3>2, <3>3 DEF EscalatePlan
  <2> QED
    BY <1>12, <1>types, <2>1, <2>2, <2>3 DEF EscalatePlan, TypeOK
<1>13. ASSUME NEW w \in Worker, Apply(w) PROVE TypeOK' /\ FlowSteps'
  <2>1. LocalOK'
    BY <1>13, FinishOK DEF Apply
  <2>2. flow[w] \in Status
    BY <1>13, StatusNames DEF Apply, FlowSteps, HandlerStep, Receipts
  <2>3. notif' \in Notif /\ told' \subseteq Status
    BY <1>13, <2>2 DEF Apply, TypeOK, Notif
  <2>4. FlowSteps'
    BY <1>13, FinishFlow DEF Apply
  <2> QED
    BY <1>13, <1>types, <2>1, <2>3, <2>4 DEF Apply, TypeOK
<1>14. ASSUME NEW w \in Worker, Crash(w) PROVE TypeOK' /\ FlowSteps'
  <2>1. LocalOK'
    BY <1>14, FinishOK DEF Crash
  <2>2. due' \in BOOLEAN /\ missed' \in BOOLEAN
    BY <1>14 DEF Crash, TypeOK
  <2>3. FlowSteps'
    BY <1>14, FinishFlow DEF Crash
  <2> QED
    BY <1>14, <1>types, <2>1, <2>2, <2>3 DEF Crash, TypeOK
<1>15. CASE Progress
  <2>1. sent' \in Seq(Fate) /\ Len(sent') <= SentBound
    BY <1>15, ProgressOK DEF TypeOK
  <2>2. FlowSteps' /\ LocalOK'
    BY <1>15 DEF Progress, FlowSteps, HandlerStep, LocalOK
  <2> QED
    BY <1>15, <1>types, <2>1, <2>2 DEF Progress, TypeOK
<1>16. CASE UNCHANGED vars
  BY <1>16 DEF vars, TypeOK, FlowSteps, HandlerStep
<1> QED
  BY <1>1, <1>2, <1>3, <1>4, <1>5, <1>6, <1>7, <1>8, <1>9, <1>10, <1>11, <1>12, <1>13,
     <1>14, <1>15, <1>16 DEF Next, Work

\* Type correctness, for any chain and any number of workers.
THEOREM MessageTypes == Spec => []TypeOK
  BY TypeInit, TypeStep, PTL DEF Spec

LEMMA MessageTyped == Spec => [](TypeOK /\ FlowSteps)
  BY TypeInit, TypeStep, PTL DEF Spec
-----------------------------------------------------------------------------
(* What is told of a message is true                                       *)

\* What is true of the messages that were sent.
Facts  == {p \in Receipts \X DOMAIN sent : Happened(p[1], p[2])}
Earned == {s \in Receipts : \E i \in DOMAIN sent : <<s, i>> \in Facts}

\* The steps of one worker.
Acts(w) ==
  Start(w) \/ Resend(w) \/ Escalate(w) \/ Receipt(w) \/ Work(w) \/ Crash(w)

\* A worker's step leaves the others alone; only a receipt leads to "apply".
LEMMA OneActs ==
  ASSUME LocalOK, NEW w \in Worker, Acts(w)
  PROVE  /\ \A v \in Worker \ {w} : /\ pc'[v] = pc[v] /\ flow'[v] = flow[v]
                                    /\ seen'[v] = seen[v] /\ tried'[v] = tried[v]
                                    /\ got'[v] = got[v]
         /\ pc'[w] = "apply" => Receipt(w)
<1> USE DEF LocalOK, row, outside, local, At
<1>0. ASSUME Finish(w)
      PROVE  /\ \A v \in Worker \ {w} : /\ pc'[v] = pc[v] /\ flow'[v] = flow[v]
                                        /\ seen'[v] = seen[v] /\ tried'[v] = tried[v]
                                        /\ got'[v] = got[v]
             /\ pc'[w] = "idle"
  BY <1>0 DEF Finish, Enter
<1>1. CASE Start(w)
  BY <1>1 DEF Start, Enter
<1>2. CASE Resend(w)
  BY <1>2 DEF Resend, Enter
<1>3. CASE Escalate(w)
  BY <1>3 DEF Escalate, Enter
<1>4. CASE Receipt(w)
  <2>1. PICK s : Enter(w, s, "apply", notif.status)
    BY <1>4 DEF Receipt
  <2> QED
    BY <1>4, <2>1 DEF Enter
<1>5. CASE ResendQueue(w)
  BY <1>5 DEF ResendQueue, Move
<1>6. CASE Send(w)
  BY <1>6 DEF Send, SendChain
<1>7. CASE Record(w)
  BY <1>7 DEF Record, Move
<1>8. CASE Wipe(w)
  BY <1>8 DEF Wipe, Move
<1>9. CASE Fill(w)
  BY <1>9, <1>0 DEF Fill, Move
<1>10. CASE Schedule(w)
  BY <1>10, <1>0 DEF Schedule, After, Move
<1>11. CASE Event(w)
  BY <1>11, <1>0 DEF Event
<1>12. CASE EscalatePlan(w)
  BY <1>12, <1>0 DEF EscalatePlan
<1>13. CASE Apply(w)
  BY <1>13, <1>0 DEF Apply
<1>14. CASE Crash(w)
  BY <1>14, <1>0 DEF Crash
<1> QED
  BY <1>1, <1>2, <1>3, <1>4, <1>5, <1>6, <1>7, <1>8, <1>9, <1>10, <1>11, <1>12, <1>13,
     <1>14 DEF Acts, Work

\* Only Apply tells, and only Apply makes the status one that a receipt brings.
LEMMA OnlyApplyTells ==
  ASSUME LocalOK, notif \in Notif, NEW w \in Worker, Acts(w), ~Apply(w)
  PROVE  /\ told' = told
         /\ notif'.status \in {"delivered", "read"} => notif' = notif
<1> USE DEF row, outside
<1>1. CASE Start(w)
  BY <1>1 DEF Start, NoNotif
<1>2. CASE Record(w)
  BY <1>2 DEF Record
<1>3. CASE ResendQueue(w)
  BY <1>3 DEF ResendQueue, Notif
<1>4. CASE ~Start(w) /\ ~Record(w) /\ ~ResendQueue(w)
  BY <1>4 DEF Acts, Work, Resend, Escalate, Receipt, Send, Wipe, Fill, Schedule, Event,
     EscalatePlan, Crash
<1> QED
  BY <1>1, <1>2, <1>3, <1>4

\* How what is known of the messages sent may change.
LEMMA SentSteps ==
  ASSUME TypeOK, [Next]_vars
  PROVE  sent' = sent \/ sent' = Append(sent, "pending") \/ Progress
<1>1. ASSUME NEW w \in Worker, Acts(w)
      PROVE  sent' = sent \/ sent' = Append(sent, "pending")
  BY <1>1 DEF Acts, Work, Start, Resend, Escalate, Receipt, ResendQueue, Send, SendChain,
     Record, Wipe, Fill, Schedule, Event, EscalatePlan, Apply, Crash, row, outside
<1> QED
  BY <1>1 DEF Next, Acts, vars, outside

\* Facts stay facts: a message that was delivered is not undelivered again.
LEMMA FactsGrow ==
  ASSUME TypeOK, [Next]_vars
  PROVE  Facts \subseteq Facts' /\ Earned \subseteq Earned'
<1>0. /\ sent \in Seq(Fate) /\ DOMAIN sent = 1 .. Len(sent) /\ Len(sent) \in Nat
  BY LenProperties DEF TypeOK
<1>1. ASSUME NEW s \in Receipts, NEW i \in DOMAIN sent, Happened(s, i)
      PROVE  i \in DOMAIN sent' /\ Happened(s, i)'
  <2>1. CASE sent' = sent
    BY <1>1, <2>1 DEF Happened, Receipts
  <2>2. CASE sent' = Append(sent, "pending")
    <3>1. /\ Len(sent') = Len(sent) + 1 /\ sent'[i] = sent[i]
          /\ DOMAIN sent' = 1 .. Len(sent')
      BY <1>0, <2>2, AppendProperties, LenProperties DEF Fate
    <3>2. i \in DOMAIN sent'
      BY <1>0, <3>1
    <3>3. Happened(s, i)'
      BY <1>1, <3>1 DEF Happened, Receipts
    <3> QED
      BY <3>2, <3>3
  <2>3. CASE Progress
    <3>1. sent' \in Seq(Fate) /\ Len(sent') = Len(sent)
      BY <2>3, ProgressOK
    <3>2. DOMAIN sent' = 1 .. Len(sent)
      BY <3>1, LenProperties
    <3>3. \/ sent'[i] = sent[i]
          \/ sent[i] = "pending"
          \/ sent[i] = "delivered" /\ sent'[i] = "seen"
      BY <1>0, <2>3, ProgressOK
    <3> QED
      BY <1>0, <1>1, <3>2, <3>3 DEF Happened, Receipts
  <2> QED
    BY <2>1, <2>2, <2>3, SentSteps
<1>2. \A p \in Facts : p \in Facts'
  BY <1>1 DEF Facts
<1>3. \A s \in Earned : s \in Earned'
  BY <1>1, <1>2 DEF Earned, Facts
<1> QED
  BY <1>2, <1>3

\* A receipt that is applied reports what happened to the message of the row.
LEMMA ReceiptTrue ==
  ASSUME TypeOK, NEW w \in Worker, Receipt(w)
  PROVE  /\ notif.status = seen'[w] /\ <<flow'[w], notif.mid>> \in Facts
         /\ notif.mid \in DOMAIN sent /\ flow'[w] \in Receipts
         /\ notif' = notif /\ sent' = sent /\ told' = told
<1>0. PICK i \in DOMAIN sent : \E r \in Reports(sent[i]) :
        /\ notif.mid = i /\ Resolve(r) # "none"
        /\ Enter(w, Resolve(r), "apply", notif.status)
  BY DEF Receipt
<1>1. PICK r \in Reports(sent[i]) :
        /\ notif.mid = i /\ Resolve(r) # "none"
        /\ Enter(w, Resolve(r), "apply", notif.status)
  BY <1>0
<1>2. flow'[w] = Resolve(r) /\ seen'[w] = notif.status
  BY <1>1 DEF Enter, TypeOK
<1>3. sent[i] \in Fate
  BY <1>1, ElementOfSeq, LenProperties DEF TypeOK
<1>4. Resolve(r) \in Receipts /\ Happened(Resolve(r), i)
  BY <1>1, <1>3 DEF Reports, Resolve, Happened, Receipts, Fate
<1>5. <<Resolve(r), i>> \in Facts
  BY <1>4 DEF Facts
<1> QED
  BY <1>1, <1>2, <1>4, <1>5 DEF Receipt, row, outside

\* The inductive invariant.
AllEarned ==
  /\ told \subseteq Earned
  /\ notif.status \in {"delivered", "read"} => notif.status \in Earned
  /\ \A w \in Worker : pc[w] = "apply" => flow[w] \in Earned

LEMMA EarnedStep ==
  TypeOK /\ FlowSteps /\ AllEarned /\ [Next]_vars => AllEarned'
<1> SUFFICES ASSUME TypeOK, FlowSteps, AllEarned, [Next]_vars PROVE AllEarned'
  OBVIOUS
<1>0. Earned \subseteq Earned' /\ LocalOK /\ notif \in Notif
  BY FactsGrow DEF TypeOK, LocalOK, Flow
<1>1. ASSUME NEW w \in Worker, Acts(w) PROVE AllEarned'
  <2>1. \A v \in Worker : pc'[v] = "apply" => flow'[v] \in Earned'
    <3> SUFFICES ASSUME NEW v \in Worker, pc'[v] = "apply" PROVE flow'[v] \in Earned'
      OBVIOUS
    <3>1. CASE v = w
      <4>1. Receipt(w)
        BY <1>0, <1>1, <3>1, OneActs
      <4>2. flow'[w] \in Earned
        BY <4>1, ReceiptTrue DEF Earned
      <4> QED
        BY <1>0, <3>1, <4>2
    <3>2. CASE v # w
      BY <1>0, <1>1, <3>2, OneActs DEF AllEarned
    <3> QED
      BY <3>1, <3>2
  <2>2. /\ told' \subseteq Earned'
        /\ notif'.status \in {"delivered", "read"} => notif'.status \in Earned'
    <3>1. CASE Apply(w)
      <4>1. flow[w] \in Earned
        BY <3>1 DEF Apply, At, AllEarned
      <4>2. told' = told \/ told' = told \cup {flow[w]}
        BY <3>1 DEF Apply
      <4>3. notif' = notif \/ notif'.status = flow[w]
        BY <1>0, <3>1 DEF Apply, Notif
      <4> QED
        BY <1>0, <4>1, <4>2, <4>3 DEF AllEarned
    <3>2. CASE ~Apply(w)
      BY <1>0, <1>1, <3>2, OnlyApplyTells DEF AllEarned
    <3> QED
      BY <3>1, <3>2
  <2> QED
    BY <2>1, <2>2 DEF AllEarned
<1>2. CASE Progress
  BY <1>0, <1>2 DEF Progress, AllEarned, row, local
<1>3. CASE UNCHANGED vars
  BY <1>0, <1>3 DEF vars, row, outside, local, AllEarned
<1> QED
  BY <1>1, <1>2, <1>3 DEF Next, Acts

LEMMA EarnedInit == Init => AllEarned
  BY DEF Init, AllEarned, NoNotif

\* However receipts, resends and escalations race, and wherever a worker is
\* killed, the shop and the merchant are told of a message only what is true
\* of one that was sent (_apply, infobip_reports, services.py).
THEOREM MessageEarned == Spec => []StatusIsEarned
<1>1. AllEarned /\ TypeOK => StatusIsEarned
  BY DEF AllEarned, StatusIsEarned, Earned, Facts
<1>2. Spec => []AllEarned
  BY MessageTyped, EarnedInit, EarnedStep, PTL DEF Spec
<1> QED
  BY <1>1, <1>2, MessageTypes, PTL
-----------------------------------------------------------------------------
(* One request at a time                                                   *)

OneWorker == \A v, w \in Worker : v = w

\* The status is that of the row's message, and a receipt about to be applied
\* is about that message and read the status that still stands.
Belongs ==
  /\ notif.status \in {"delivered", "read"} => <<notif.status, notif.mid>> \in Facts
  /\ \A w \in Worker :
       pc[w] = "apply" => <<flow[w], notif.mid>> \in Facts /\ seen[w] = notif.status

LEMMA BelongsStep ==
  OneWorker /\ TypeOK /\ FlowSteps /\ Belongs /\ [Next]_vars => Belongs'
<1> SUFFICES ASSUME OneWorker, TypeOK, FlowSteps, Belongs, [Next]_vars PROVE Belongs'
  OBVIOUS
<1>0. Facts \subseteq Facts' /\ LocalOK /\ notif \in Notif
  BY FactsGrow DEF TypeOK, LocalOK, Flow
<1>1. ASSUME NEW w \in Worker, Acts(w) PROVE Belongs'
  <2>1. ASSUME NEW v \in Worker, pc'[v] = "apply"
        PROVE  <<flow'[v], notif'.mid>> \in Facts' /\ seen'[v] = notif'.status
    <3>1. v = w
      BY DEF OneWorker
    <3>2. Receipt(w)
      BY <1>0, <1>1, <2>1, <3>1, OneActs
    <3> QED
      BY <1>0, <3>1, <3>2, ReceiptTrue
  <2>2. notif'.status \in {"delivered", "read"} => <<notif'.status, notif'.mid>> \in Facts'
    <3>1. CASE Apply(w)
      <4>1. <<flow[w], notif.mid>> \in Facts
        BY <3>1 DEF Apply, At, Belongs
      <4>2. notif' = notif \/ (notif'.status = flow[w] /\ notif'.mid = notif.mid)
        BY <1>0, <3>1 DEF Apply, Notif
      <4> QED
        BY <1>0, <4>1, <4>2 DEF Belongs
    <3>2. CASE ~Apply(w)
      BY <1>0, <1>1, <3>2, OnlyApplyTells DEF Belongs
    <3> QED
      BY <3>1, <3>2
  <2> QED
    BY <2>1, <2>2 DEF Belongs
<1>2. CASE Progress
  BY <1>0, <1>2 DEF Progress, Belongs, row, local
<1>3. CASE UNCHANGED vars
  BY <1>0, <1>3 DEF vars, row, outside, local, Belongs
<1> QED
  BY <1>1, <1>2, <1>3 DEF Next, Acts

LEMMA BelongsInit == Init => Belongs
  BY DEF Init, Belongs, NoNotif

\* One request at a time, the status is that of the message the row points to:
\* a late receipt of the message before a resend changes nothing.
THEOREM MessageBelongs ==
  ASSUME OneWorker
  PROVE  Spec => []StatusBelongsToMessage
<1>1. OneWorker
  OBVIOUS
<1>2. TypeOK /\ Belongs => StatusBelongsToMessage
  <2> SUFFICES ASSUME TypeOK, Belongs, notif.status \in {"delivered", "read"}
               PROVE  notif.mid # 0 /\ Happened(notif.status, notif.mid)
    BY DEF StatusBelongsToMessage
  <2>1. notif.mid \in DOMAIN sent /\ Happened(notif.status, notif.mid)
    BY DEF Belongs, Facts
  <2>2. DOMAIN sent = 1 .. Len(sent) /\ Len(sent) \in Nat
    BY LenProperties DEF TypeOK
  <2> QED
    BY <2>1, <2>2
<1>3. TypeOK /\ FlowSteps /\ Belongs /\ [Next]_vars => Belongs'
  BY <1>1, BelongsStep
<1> QED
  BY <1>2, <1>3, MessageTyped, BelongsInit, PTL DEF Spec

\* One request at a time, receipts never lower the status ("no downgrade",
\* webhooks.py), in whatever order and however often they come.
THEOREM MessageNoDowngrade ==
  ASSUME OneWorker
  PROVE  Spec => NoReceiptDowngrade
<1> DEFINE Step == \A w \in Worker :
             At(w, "apply") /\ pc'[w] = "idle" /\ notif' # notif
               => Advances(notif.status, notif'.status)
<1>1. OneWorker
  OBVIOUS
<1>2. TypeOK /\ FlowSteps /\ Belongs /\ [Next]_vars => [Step]_vars
  <2> SUFFICES ASSUME TypeOK, FlowSteps, Belongs, [Next]_vars, NEW w \in Worker,
                      At(w, "apply"), pc'[w] = "idle", notif' # notif
               PROVE  Advances(notif.status, notif'.status)
    OBVIOUS
  <2>1. PICK v \in Worker : Acts(v)
    BY DEF Next, Acts, Progress, row, vars
  <2>2. v = w
    BY <1>1 DEF OneWorker
  <2>3. Apply(w)
    BY <2>1, <2>2 DEF Acts, Work, Start, Resend, Escalate, Receipt, ResendQueue, Send,
       Record, Wipe, Fill, Schedule, Event, EscalatePlan, Crash, At, row
  <2>4. seen[w] = notif.status
    BY DEF At, Belongs
  <2>5. Advances(seen[w], flow[w]) /\ notif'.status = flow[w]
    BY <2>3 DEF Apply, TypeOK, Notif
  <2> QED
    BY <2>4, <2>5
<1>3. TypeOK /\ FlowSteps /\ Belongs /\ [Next]_vars => Belongs'
  BY <1>1, BelongsStep
<1> QED
  BY <1>2, <1>3, MessageTyped, BelongsInit, PTL DEF Spec, NoReceiptDowngrade

\* Two sequences of channels without a repetition, and none in common.
LEMMA ConcatOnce ==
  ASSUME NEW a \in Seq(Channel), NEW b \in Seq(Channel), IsInjective(a), IsInjective(b),
         b \in Seq(Channel \ {a[i] : i \in DOMAIN a})
  PROVE  IsInjective(a \o b)
<1>1. /\ a \o b \in Seq(Channel) /\ Len(a) \in Nat /\ Len(b) \in Nat
      /\ Len(a \o b) = Len(a) + Len(b)
      /\ \A i \in 1 .. Len(a) + Len(b) :
           (a \o b)[i] = IF i <= Len(a) THEN a[i] ELSE b[i - Len(a)]
      /\ DOMAIN a = 1 .. Len(a) /\ DOMAIN b = 1 .. Len(b)
  BY ConcatProperties, LenProperties
<1>2. DOMAIN (a \o b) = 1 .. Len(a) + Len(b)
  BY <1>1, LenProperties
<1>3. \A i \in 1 .. Len(a), j \in 1 .. Len(b) : a[i] # b[j]
  BY <1>1, ElementOfSeq
<1>4. \A i, j \in 1 .. Len(a) : a[i] = a[j] => i = j
  BY <1>1 DEF IsInjective
<1>5. \A i, j \in 1 .. Len(b) : b[i] = b[j] => i = j
  BY <1>1 DEF IsInjective
<1> DEFINE c == a \o b
<1>6. ASSUME NEW i \in 1 .. Len(a) + Len(b), NEW j \in 1 .. Len(a) + Len(b), c[i] = c[j]
      PROVE  i = j
  <2>1. CASE i <= Len(a) /\ j <= Len(a)
    BY <1>1, <1>4, <1>6, <2>1
  <2>2. CASE i > Len(a) /\ j > Len(a)
    <3>1. i - Len(a) \in 1 .. Len(b) /\ j - Len(a) \in 1 .. Len(b)
      BY <1>1, <2>2
    <3>2. b[i - Len(a)] = b[j - Len(a)]
      BY <1>1, <1>6, <2>2
    <3>3. i - Len(a) = j - Len(a)
      BY <1>5, <3>1, <3>2
    <3> QED
      BY <1>1, <3>3
  <2>3. CASE i <= Len(a) /\ j > Len(a)
    <3>1. i \in 1 .. Len(a) /\ j - Len(a) \in 1 .. Len(b)
      BY <1>1, <2>3
    <3> QED
      BY <1>1, <1>3, <1>6, <2>3, <3>1
  <2>4. CASE i > Len(a) /\ j <= Len(a)
    <3>1. j \in 1 .. Len(a) /\ i - Len(a) \in 1 .. Len(b)
      BY <1>1, <2>4
    <3> QED
      BY <1>1, <1>3, <1>6, <2>4, <3>1
  <2> QED
    BY <1>1, <2>1, <2>2, <2>3, <2>4
<1> HIDE DEF c
<1>7. DOMAIN c = 1 .. Len(a) + Len(b)
  BY <1>2 DEF c
<1>8. IsInjective(c)
  BY <1>6, <1>7 DEF IsInjective
<1> QED
  BY <1>8 DEF c

\* Of which only a part of the second is taken.
LEMMA ConcatPart ==
  ASSUME NEW a \in Seq(Channel), NEW b \in Seq(Channel), IsInjective(a \o b),
         NEW k \in DOMAIN b
  PROVE  IsInjective(a \o SubSeq(b, 1, k))
<1> DEFINE p == SubSeq(b, 1, k)
           c == a \o b
           d == a \o p
<1>1. p \in Seq(Channel) /\ Len(p) = k /\ k \in 1 .. Len(b) /\ \A i \in 1 .. k : p[i] = b[i]
  BY Beginning
<1> HIDE DEF p
<1>2. /\ c \in Seq(Channel) /\ Len(a) \in Nat /\ Len(b) \in Nat
      /\ Len(c) = Len(a) + Len(b)
      /\ \A i \in 1 .. Len(a) + Len(b) : c[i] = IF i <= Len(a) THEN a[i] ELSE b[i - Len(a)]
  BY ConcatProperties, LenProperties
<1>3. /\ d \in Seq(Channel) /\ Len(d) = Len(a) + k
      /\ \A i \in 1 .. Len(a) + k : d[i] = IF i <= Len(a) THEN a[i] ELSE p[i - Len(a)]
  BY <1>1, ConcatProperties, LenProperties
<1>4. DOMAIN c = 1 .. Len(a) + Len(b) /\ DOMAIN d = 1 .. Len(a) + k
  BY <1>2, <1>3, LenProperties
<1>5. IsInjective(c)
  OBVIOUS
<1> HIDE DEF c, d
<1>6. \A i \in 1 .. Len(a) + k : i \in DOMAIN c /\ d[i] = c[i]
  <2> SUFFICES ASSUME NEW i \in 1 .. Len(a) + k PROVE i \in DOMAIN c /\ d[i] = c[i]
    OBVIOUS
  <2>1. i \in 1 .. Len(a) + Len(b)
    BY <1>1, <1>2
  <2>2. CASE i <= Len(a)
    BY <1>2, <1>3, <1>4, <2>1, <2>2
  <2>3. CASE i > Len(a)
    <3>1. i - Len(a) \in 1 .. k
      BY <1>1, <1>2, <2>3
    <3> QED
      BY <1>1, <1>2, <1>3, <1>4, <2>1, <2>3, <3>1
  <2> QED
    BY <1>2, <2>2, <2>3
<1>7. IsInjective(d)
  BY <1>4, <1>5, <1>6 DEF IsInjective
<1> QED
  BY <1>7 DEF d, p
\* No channel is tried twice for a message, neither by the whole chain nor by
\* an escalation that goes on where the rows end.
Once ==
  /\ IsInjective(attempts)
  /\ \A w \in Worker :
       /\ pc[w] = "send" /\ flow[w] = "escalate" => IsInjective(attempts \o tried[w])
       /\ pc[w] \in {"record", "wipe"} /\ flow[w] # "escalate" => IsInjective(tried[w])
       /\ pc[w] = "fill" => IsInjective(attempts \o tried[w])

LEMMA OnceInit == Init => Once
<1>1. IsInjective(<<>>)
  BY EmptySeq DEF IsInjective
<1> QED
  BY <1>1 DEF Init, Once

LEMMA OnceStep ==
  OneWorker /\ TypeOK /\ FlowSteps /\ Once /\ [Next]_vars => Once'
<1> SUFFICES ASSUME OneWorker, TypeOK, FlowSteps, Once, [Next]_vars PROVE Once'
  OBVIOUS
<1>0. LocalOK /\ attempts \in Seq(Channel) /\ IsInjective(attempts)
  BY DEF TypeOK, LocalOK, Flow, Once
<1>1. ASSUME NEW w \in Worker, Acts(w) PROVE Once'
  <2>0. Worker = {w}
    BY DEF OneWorker
  <2>q. ASSUME IsInjective(attempts'),
               (pc'[w] = "send" /\ flow'[w] = "escalate") => IsInjective(attempts' \o tried'[w]),
               (pc'[w] \in {"record", "wipe"} /\ flow'[w] # "escalate") => IsInjective(tried'[w]),
               pc'[w] = "fill" => IsInjective(attempts' \o tried'[w])
        PROVE  Once'
    BY <2>0, <2>q DEF Once, IsInjective
  <2> USE <1>0 DEF LocalOK, At, outside, row, local
  <2>1. ASSUME attempts' = attempts, pc'[w] \notin {"send", "record", "wipe", "fill"}
        PROVE  Once'
    BY <2>1, <2>q
  <2>2. ASSUME Finish(w), attempts' = attempts PROVE Once'
    BY <2>1, <2>2 DEF Finish, Enter
  <2>3. CASE Start(w) \/ Resend(w) \/ Escalate(w) \/ Receipt(w)
    <3>1. CASE Start(w)
      <4>1. attempts' = attempts /\ pc'[w] = "send" /\ flow'[w] = "start"
        BY <3>1 DEF Start, Enter
      <4> QED
        BY <4>1, <2>q
    <3>2. CASE Resend(w)
      BY <3>2, <2>1 DEF Resend, Enter
    <3>3. CASE Escalate(w)
      BY <3>3, <2>1 DEF Escalate, Enter
    <3>4. CASE Receipt(w)
      <4>1. PICK s : Enter(w, s, "apply", notif.status)
        BY <3>4 DEF Receipt
      <4> QED
        BY <3>4, <4>1, <2>1 DEF Receipt, Enter
    <3> QED
      BY <2>3, <3>1, <3>2, <3>3, <3>4
  <2>4. CASE ResendQueue(w)
    <3>1. attempts' = attempts /\ pc'[w] = "send" /\ flow'[w] = flow[w] /\ flow[w] # "escalate"
      BY <2>4 DEF ResendQueue, Move, FlowSteps, HandlerStep
    <3> QED
      BY <3>1, <2>q
  <2>5. CASE Send(w)
    <3> DEFINE paths == IF flow[w] = "escalate" THEN tried[w] ELSE Chain
    <3>0. attempts' = attempts /\ flow' = flow /\ SendChain(w, paths) /\ paths \in Seq(Channel)
      BY <2>5, ChainOnce DEF Send
    <3>1. /\ flow[w] = "escalate" => IsInjective(attempts \o paths)
          /\ flow[w] # "escalate" => IsInjective(paths)
      BY <2>5, ChainOnce DEF Send, Once
    <3>2. pc'[w] = IF flow[w] = "escalate" THEN "fill" ELSE "record"
      BY <2>5 DEF Send
    <3> HIDE DEF paths
    <3>3. tried'[w] = paths \/ \E k \in DOMAIN paths : tried'[w] = SubSeq(paths, 1, k)
      BY <3>0 DEF SendChain
    <3>4. /\ flow[w] = "escalate" => IsInjective(attempts \o tried'[w])
          /\ flow[w] # "escalate" => IsInjective(tried'[w])
      BY <3>0, <3>1, <3>3, ConcatPart, Beginning
    <3> QED
      BY <3>0, <3>2, <3>4, <2>q
  <2>6. CASE Record(w)
    <3>1. /\ attempts' = attempts /\ flow' = flow /\ tried' = tried
          /\ pc'[w] = IF flow[w] = "escalate" THEN "schedule" ELSE "wipe"
      BY <2>6 DEF Record, Move
    <3>2. flow[w] # "escalate" => IsInjective(tried[w])
      BY <2>6 DEF Record, Once
    <3> QED
      BY <3>1, <3>2, <2>q
  <2>7. CASE Wipe(w)
    <3>1. attempts' = <<>> /\ flow' = flow /\ tried' = tried /\ pc'[w] = "fill"
      BY <2>7 DEF Wipe, Move
    <3>2. flow[w] # "escalate"
      BY <2>7 DEF Wipe, FlowSteps, HandlerStep
    <3>3. IsInjective(tried[w]) /\ tried[w] \in Seq(Channel)
      BY <2>7, <3>2 DEF Wipe, Once
    <3>4. <<>> \o tried[w] = tried[w] /\ IsInjective(<<>>)
      BY <3>3, EmptySeq, ConcatEmptySeq DEF IsInjective
    <3> QED
      BY <3>1, <3>3, <3>4, <2>q
  <2>8. CASE Fill(w)
    <3>1. attempts' = attempts \o tried[w] /\ IsInjective(attempts \o tried[w])
      BY <2>8 DEF Fill, Once
    <3>2. \/ Finish(w)
          \/ flow[w] = "start" /\ Move(w, "schedule")
          \/ flow[w] = "escalate" /\ Move(w, "record")
      BY <2>8 DEF Fill
    <3>3. \/ pc'[w] \in {"idle", "schedule"}
          \/ pc'[w] = "record" /\ flow'[w] = "escalate"
      BY <3>2 DEF Finish, Enter, Move
    <3> QED
      BY <3>1, <3>3, <2>q
  <2>9. CASE Schedule(w)
    <3>1. Finish(w) \/ After(w)
      BY <2>9 DEF Schedule
    <3>2. Finish(w) \/ pc'[w] = "event"
      BY <3>1 DEF After, Move
    <3> QED
      BY <2>9, <2>1, <2>2, <3>2 DEF Schedule
  <2>10. CASE Event(w)
    BY <2>10, <2>2 DEF Event
  <2>11. CASE EscalatePlan(w)
    <3>1. attempts' = attempts
      BY <2>11 DEF EscalatePlan
    <3>2. CASE tried' = [tried EXCEPT ![w] = Untried] /\ pc' = [pc EXCEPT ![w] = "send"]
      <4>1. tried'[w] = Untried /\ pc'[w] = "send"
        BY <3>2
      <4>2. IsInjective(attempts \o Untried)
        BY UntriedOnce, ConcatOnce
      <4> QED
        BY <3>1, <4>1, <4>2, <2>q
    <3> QED
      BY <2>11, <2>2, <3>1, <3>2 DEF EscalatePlan
  <2>12. CASE Apply(w)
    BY <2>12, <2>2 DEF Apply
  <2>13. CASE Crash(w)
    BY <2>13, <2>2 DEF Crash
  <2> QED
    BY <1>1, <2>3, <2>4, <2>5, <2>6, <2>7, <2>8, <2>9, <2>10, <2>11, <2>12, <2>13
       DEF Acts, Work
<1>2. CASE Progress
  BY <1>2 DEF Progress, Once, row, local, IsInjective
<1>3. CASE UNCHANGED vars
  BY <1>3 DEF vars, row, outside, local, Once, IsInjective
<1> QED
  BY <1>1, <1>2, <1>3 DEF Next, Acts

\* One request at a time, the attempts at one message are bounded by the length
\* of the chain, which is why escalations need no limit of their own (quotas.py).
THEOREM MessageAttempts ==
  ASSUME OneWorker
  PROVE  Spec => []AttemptsWithinChain
<1>1. OneWorker
  OBVIOUS
<1>2. TypeOK /\ Once => AttemptsWithinChain
  BY OnceIsShort DEF TypeOK, Once, AttemptsWithinChain
<1>3. TypeOK /\ FlowSteps /\ Once /\ [Next]_vars => Once'
  BY <1>1, OnceStep
<1> QED
  BY <1>2, <1>3, MessageTyped, OnceInit, PTL DEF Spec

-----------------------------------------------------------------------------
(* No crash, and a chain whose channels can be named                       *)

\* The first step of all is a start.
LEMMA FirstIsStart ==
  ASSUME TypeOK, notif.status = "none", ~due, notif.mid = 0,
         NEW w \in Worker, pc[w] = "idle", Acts(w)
  PROVE  Start(w)
<1>1. \A i \in DOMAIN sent : i # 0
  BY LenProperties DEF TypeOK
<1>2. ~Receipt(w)
  BY <1>1 DEF Receipt
<1> QED
  BY <1>2 DEF Acts, Work, Resend, Escalate, ResendQueue, Send, Record, Wipe, Fill, Schedule,
     Event, EscalatePlan, Apply, Crash, At

\* A Notification that is there stays.
LEMMA StatusStays ==
  ASSUME FlowSteps, notif \in Notif, notif.status # "none", NEW w \in Worker, Acts(w)
  PROVE  notif'.status # "none"
<1>1. CASE Record(w)
  BY <1>1 DEF Record
<1>2. CASE ResendQueue(w)
  BY <1>2 DEF ResendQueue, Notif
<1>3. CASE Apply(w)
  <2>1. flow[w] # "none"
    BY <1>3 DEF Apply, At, FlowSteps, HandlerStep, Receipts
  <2> QED
    BY <1>3, <2>1 DEF Apply, Notif
<1>4. CASE ~Record(w) /\ ~ResendQueue(w) /\ ~Apply(w)
  BY <1>4 DEF Acts, Work, Start, Resend, Escalate, Receipt, Send, Wipe, Fill, Schedule, Event,
     EscalatePlan, Crash, row
<1> QED
  BY <1>1, <1>2, <1>3, <1>4

\* Before the start there is nothing to do; after it, until it is announced,
\* a worker carries the start on.
Announcing ==
  /\ notif.status = "none" => ~due /\ notif.mid = 0 /\ \A w \in Worker : pc[w] = "idle"
  /\ notif.status # "none" /\ ~announced => \E w \in Worker : flow[w] = "start"

LEMMA AnnouncingStep ==
  ASSUME ~Crashes, ~(Escalation /\ Raises)
  PROVE  TypeOK /\ FlowSteps /\ Announcing /\ [Next]_vars => Announcing'
<1> SUFFICES ASSUME TypeOK, FlowSteps, Announcing, [Next]_vars PROVE Announcing'
  OBVIOUS
<1>0. LocalOK /\ notif \in Notif /\ ~Crashes
  BY DEF TypeOK, LocalOK, Flow
<1>1. ASSUME NEW w \in Worker, Acts(w) PROVE Announcing'
  <2>1. CASE notif.status = "none"
    <3>1. Start(w)
      BY <1>1, <2>1, FirstIsStart DEF Announcing
    <3>2. notif'.status = "queued" /\ flow'[w] = "start"
      BY <1>0, <3>1 DEF Start, Enter, LocalOK, NoNotif
    <3> QED
      BY <3>2 DEF Announcing
  <2>2. CASE notif.status # "none"
    <3>1. notif'.status # "none"
      BY <1>0, <1>1, <2>2, StatusStays
    <3>2. ASSUME ~announced' PROVE \E v \in Worker : flow'[v] = "start"
      <4>1. ~announced
        BY <1>1, <3>2 DEF Acts, Work, Start, Resend, Escalate, Receipt, ResendQueue, Send, Record,
           Wipe, Fill, Schedule, Event, EscalatePlan, Apply, Crash, outside
      <4>2. PICK v \in Worker : flow[v] = "start"
        BY <2>2, <4>1 DEF Announcing
      <4>3. CASE v # w
        BY <1>0, <1>1, <4>2, <4>3, OneActs
      <4>4. CASE v = w
        <5>0. pc[w] \in {"send", "record", "wipe", "fill", "schedule", "event"}
          BY <4>2, <4>4 DEF FlowSteps, HandlerStep, Receipts
        <5>1. ~Event(w) /\ ~Crash(w)
          BY <1>0, <3>2 DEF Event, Crash
        <5>2. \/ Send(w) \/ Record(w) \/ Wipe(w) \/ Fill(w) \/ Schedule(w)
          BY <1>1, <5>0, <5>1 DEF Acts, Work, Start, Resend, Escalate, Receipt, ResendQueue,
             EscalatePlan, Apply, At
        <5>3. CASE Send(w) \/ Record(w) \/ Wipe(w) \/ Fill(w)
          BY <4>2, <4>4, <5>3 DEF Send, Record, Wipe, Fill, Move
        <5>4. CASE Schedule(w)
          BY <1>0, <4>2, <4>4, <5>4 DEF Schedule, After, Move
        <5> QED
          BY <5>2, <5>3, <5>4
      <4> QED
        BY <4>3, <4>4
    <3> QED
      BY <3>1, <3>2 DEF Announcing
  <2> QED
    BY <2>1, <2>2
<1>2. CASE Progress
  BY <1>2 DEF Progress, Announcing, row, local
<1>3. CASE UNCHANGED vars
  BY <1>3 DEF vars, row, outside, local, Announcing
<1> QED
  BY <1>1, <1>2, <1>3 DEF Next, Acts

LEMMA AnnouncingInit == Init => Announcing
  BY DEF Init, Announcing, NoNotif

\* With any chain, the default one included, the start of a delivery is announced
\* to the merchant before all is quiet again, whatever the providers and the
\* scheduler do, and with requests in any order: unless the instance dies, or
\* escalation is switched on over a provider that names no channel.
THEOREM MessageAnnounced ==
  ASSUME ~Crashes, ~(Escalation /\ Raises)
  PROVE  Spec => []StartIsAnnounced
<1>1. TypeOK /\ FlowSteps /\ Announcing => StartIsAnnounced
  <2> SUFFICES ASSUME FlowSteps, Announcing, \A w \in Worker : At(w, "idle"),
                      notif.status # "none", ~announced
               PROVE  FALSE
    BY DEF StartIsAnnounced
  <2>1. PICK w \in Worker : flow[w] = "start"
    BY DEF Announcing
  <2> QED
    BY <2>1 DEF FlowSteps, HandlerStep, At
<1>2. TypeOK /\ FlowSteps /\ Announcing /\ [Next]_vars => Announcing'
  BY AnnouncingStep
<1> QED
  BY <1>1, <1>2, MessageTyped, AnnouncingInit, PTL DEF Spec
-----------------------------------------------------------------------------
(* Escalation goes on                                                      *)

Tried == {attempts[i] : i \in DOMAIN attempts}
\* The channels a worker is trying, or has tried and not yet recorded.
Trying == [w \in Worker |-> {tried[w][i] : i \in DOMAIN tried[w]}]

\* Nobody was told of a confirmation, and nobody has pressed "resend".
Open == resends = 0 /\ told \cap {"delivered", "read"} = {}

\* The start before its plan of a check, which is alone with the message.
Opening == {"send", "record", "wipe", "fill"}

Waiting ==
  notif.status = "none" => ~due /\ notif.mid = 0 /\ \A w \in Worker : pc[w] = "idle"

\* Somebody sees to it that the channels are tried.
Attended ==
  \/ due \/ missed \/ Channel \subseteq Tried
  \/ \E w \in Worker : flow[w] = "escalate" \/ (flow[w] = "start" /\ pc[w] # "event")

\* The inductive invariant.
Planning ==
  /\ \A w \in Worker : flow[w] # "resend"
  /\ \A v, w \in Worker : flow[v] = "start" /\ flow[w] = "start" => v = w
  /\ notif.status \notin {"delivered", "read"}
  /\ \A w \in Worker : flow[w] = "start" /\ pc[w] \in Opening
       => ~due /\ \A v \in Worker : flow[v] # "escalate"
  /\ \A w \in Worker : flow[w] = "escalate" /\ (pc[w] = "send" \/ (pc[w] = "fill" /\ got[w] = 0))
       => Channel \subseteq Tried \cup Trying[w]
  /\ notif.status # "none" => Attended

\* An escalation tries every channel that was not tried before.
LEMMA UntriedRest ==
  /\ Channel \subseteq Tried \cup {Untried[i] : i \in DOMAIN Untried}
  /\ Untried = <<>> => Channel \subseteq Tried
<1> DEFINE T == Channel \ {attempts[i] : i \in DOMAIN attempts}
<1>1. \A m \in 1 .. Len(Chain) : Chain[m] \in T =>
        \E j \in 1 .. Len(Untried) : Untried[j] = Chain[m]
  <2>1. Untried = Only(Chain, T)
    BY DEF Untried
  <2>2. Chain \in Seq(Channel)
    BY ChainOnce
  <2> HIDE DEF T
  <2>3. /\ Only(Chain, T) \in Seq(Channel \cap T)
        /\ \A m \in 1 .. Len(Chain) : Chain[m] \in T =>
             \E j \in 1 .. Len(Only(Chain, T)) : Only(Chain, T)[j] = Chain[m]
        /\ IsInjective(Chain) => IsInjective(Only(Chain, T))
    BY <2>2, OnlyProperties, Zenon
  <2> QED
    BY <2>1, <2>3
<1>2. DOMAIN Chain = 1 .. Len(Chain)
  BY ChainOnce
<1>3. DOMAIN Untried = 1 .. Len(Untried)
  BY UntriedOnce, LenProperties
<1>4. ASSUME NEW c \in Channel, c \notin Tried
      PROVE  \E j \in DOMAIN Untried : Untried[j] = c
  <2>1. c \in T
    BY <1>4 DEF Tried
  <2>2. PICK m \in 1 .. Len(Chain) : Chain[m] = c
    BY <1>2 DEF Channel
  <2> HIDE DEF T
  <2> QED
    BY <1>1, <1>3, <2>1, <2>2
<1>5. Untried = <<>> => DOMAIN Untried = {}
  OBVIOUS
<1> QED
  BY <1>4, <1>5

\* What the steps of a worker do to the attempts.
LEMMA AttemptSteps ==
  ASSUME TypeOK, FlowSteps, NEW w \in Worker, Acts(w)
  PROVE  /\ Wipe(w) \/ Tried \subseteq Tried'
         /\ Fill(w) => Tried' = Tried \cup Trying[w]
         /\ \A v \in Worker \ {w} : Trying'[v] = Trying[v]
<1>1. LocalOK /\ tried[w] \in Seq(Channel) /\ attempts \in Seq(Channel)
  BY DEF TypeOK, LocalOK, Flow
<1>2. Fill(w) => Tried' = Tried \cup Trying[w]
  <2> SUFFICES ASSUME Fill(w) PROVE Tried' = Tried \cup Trying[w]
    OBVIOUS
  <2> DEFINE a == attempts
             b == tried[w]
             c == attempts'
  <2>1. c = a \o b
    BY DEF Fill
  <2>2. /\ DOMAIN a = 1 .. Len(a) /\ DOMAIN b = 1 .. Len(b) /\ DOMAIN c = 1 .. Len(a) + Len(b)
        /\ Len(a) \in Nat /\ Len(b) \in Nat
        /\ \A i \in 1 .. Len(a) + Len(b) :
             c[i] = IF i <= Len(a) THEN a[i] ELSE b[i - Len(a)]
    BY <1>1, <2>1, ConcatProperties, LenProperties
  <2>3. Tried = {a[i] : i \in DOMAIN a} /\ Tried' = {c[i] : i \in DOMAIN c}
        /\ Trying[w] = {b[i] : i \in DOMAIN b}
    BY DEF Tried, Trying
  <2> HIDE DEF a, b, c
  <2>4. \A i \in DOMAIN a : i \in DOMAIN c /\ c[i] = a[i]
    BY <2>2
  <2>5. \A i \in DOMAIN b : Len(a) + i \in DOMAIN c /\ c[Len(a) + i] = b[i]
    BY <2>2
  <2>6. \A i \in DOMAIN c : \/ i \in DOMAIN a /\ c[i] = a[i]
                            \/ i - Len(a) \in DOMAIN b /\ c[i] = b[i - Len(a)]
    BY <2>2
  <2> QED
    BY <2>3, <2>4, <2>5, <2>6
<1>3. attempts' = attempts \/ Wipe(w) \/ Fill(w)
  BY DEF Acts, Work, Start, Resend, Escalate, Receipt, ResendQueue, Send, Record, Schedule,
     Event, EscalatePlan, Apply, Crash, row
<1>4. attempts' = attempts => Tried' = Tried
  BY DEF Tried
<1>5. \A v \in Worker \ {w} : tried'[v] = tried[v]
  BY <1>1, OneActs
<1>6. \A v \in Worker \ {w} : Trying'[v] = Trying[v]
  BY <1>5 DEF Trying
<1> QED
  BY <1>2, <1>3, <1>4, <1>6

\* What is open was open before.
LEMMA OpenBefore ==
  ASSUME TypeOK, NEW w \in Worker, Acts(w), Open'
  PROVE  Open /\ ~Resend(w)
<1>1. told \subseteq told'
  BY DEF Acts, Work, Start, Resend, Escalate, Receipt, ResendQueue, Send, Record, Wipe, Fill,
     Schedule, Event, EscalatePlan, Apply, Crash, outside
<1>2. resends \in Nat
  BY MessageConstants DEF TypeOK
<1>3. ~Resend(w)
  BY <1>2 DEF Resend, Open
<1>4. resends' = resends
  BY <1>3 DEF Acts, Work, Start, Escalate, Receipt, ResendQueue, Send, Record, Wipe, Fill,
     Schedule, Event, EscalatePlan, Apply, Crash, row
<1> QED
  BY <1>1, <1>3, <1>4 DEF Open

\* A worker that only changes its own handler, and hands over what it attended to.
LEMMA HandOver ==
  ASSUME TypeOK, FlowSteps, Planning, NEW w \in Worker, Acts(w), ~Start(w), ~Wipe(w),
         flow'[w] # "resend", flow'[w] = "start" => flow[w] = "start",
         notif'.status \notin {"delivered", "read"}, notif.status # "none",
         due => due' \/ flow'[w] = "escalate", missed => missed',
         \* no check is planned, and no escalation begun, during a start's opening
         due' => due \/ flow[w] = "escalate" \/ (flow[w] = "start" /\ pc[w] \notin Opening),
         flow'[w] = "escalate" => flow[w] = "escalate" \/ due,
         flow'[w] = "start" /\ pc'[w] \in Opening => pc[w] \in Opening /\ due' = due,
         flow'[w] = "escalate" /\ (pc'[w] = "send" \/ (pc'[w] = "fill" /\ got'[w] = 0))
           => Channel \subseteq Tried' \cup Trying'[w],
         flow[w] = "escalate" \/ (flow[w] = "start" /\ pc[w] # "event")
           => \/ flow'[w] = "escalate" \/ (flow'[w] = "start" /\ pc'[w] # "event")
              \/ due' \/ missed' \/ Channel \subseteq Tried'
  PROVE  Planning'
<1>0. /\ \A v \in Worker \ {w} : /\ pc'[v] = pc[v] /\ flow'[v] = flow[v] /\ got'[v] = got[v]
                                 /\ Trying'[v] = Trying[v]
      /\ Tried \subseteq Tried'
  BY OneActs, AttemptSteps DEF TypeOK, LocalOK, Flow
<1>1. \A v \in Worker : flow'[v] # "resend"
  BY <1>0 DEF Planning
<1>2. \A u, v \in Worker : flow'[u] = "start" /\ flow'[v] = "start" => u = v
  BY <1>0 DEF Planning
<1>3. \A u \in Worker : flow'[u] = "start" /\ pc'[u] \in Opening
        => ~due' /\ \A v \in Worker : flow'[v] # "escalate"
  <2> SUFFICES ASSUME NEW u \in Worker, flow'[u] = "start", pc'[u] \in Opening
               PROVE  ~due' /\ \A v \in Worker : flow'[v] # "escalate"
    OBVIOUS
  <2>1. flow[u] = "start" /\ pc[u] \in Opening
    BY <1>0
  <2>2. ~due /\ \A v \in Worker : flow[v] # "escalate"
    BY <2>1 DEF Planning
  <2>3. flow[w] = "start" => u = w
    BY <2>1 DEF Planning
  <2>4. \A v \in Worker : flow'[v] # "escalate"
    BY <1>0, <2>2
  <2> QED
    BY <2>1, <2>2, <2>3, <2>4
<1>4. \A v \in Worker :
        flow'[v] = "escalate" /\ (pc'[v] = "send" \/ (pc'[v] = "fill" /\ got'[v] = 0))
          => Channel \subseteq Tried' \cup Trying'[v]
  <2> SUFFICES ASSUME NEW v \in Worker, flow'[v] = "escalate",
                      pc'[v] = "send" \/ (pc'[v] = "fill" /\ got'[v] = 0)
               PROVE  Channel \subseteq Tried' \cup Trying'[v]
    OBVIOUS
  <2>1. CASE v # w
    <3>1. Channel \subseteq Tried \cup Trying[v]
      BY <1>0, <2>1 DEF Planning
    <3> QED
      BY <1>0, <2>1, <3>1
  <2> QED
    BY <2>1
<1>5. Attended'
  <2>1. Attended
    BY DEF Planning
  <2>2. CASE due \/ missed \/ Channel \subseteq Tried
    BY <1>0, <2>2 DEF Attended
  <2>3. ASSUME NEW v \in Worker, flow[v] = "escalate" \/ (flow[v] = "start" /\ pc[v] # "event")
        PROVE  Attended'
    <3>1. CASE v = w
      BY <2>3, <3>1 DEF Attended
    <3>2. CASE v # w
      BY <1>0, <2>3, <3>2 DEF Attended
    <3> QED
      BY <3>1, <3>2
  <2> QED
    BY <2>1, <2>2, <2>3 DEF Attended
<1>6. (\A v \in Worker : flow[v] # "resend")'
      /\ (\A u, v \in Worker : flow[u] = "start" /\ flow[v] = "start" => u = v)'
  BY <1>1, <1>2
<1>7. (\A u \in Worker : flow[u] = "start" /\ pc[u] \in Opening
         => ~due /\ \A v \in Worker : flow[v] # "escalate")'
  BY <1>3 DEF Opening
<1>8. (\A v \in Worker : flow[v] = "escalate" /\ (pc[v] = "send" \/ (pc[v] = "fill" /\ got[v] = 0))
         => Channel \subseteq Tried \cup Trying[v])'
  BY <1>4 DEF Channel
<1> QED
  BY <1>5, <1>6, <1>7, <1>8 DEF Planning
LEMMA PlanningStep ==
  ASSUME Escalation, Channel \subseteq Declared
  PROVE  TypeOK /\ FlowSteps /\ Waiting /\ (Open => Planning) /\ [Next]_vars
           => Waiting' /\ (Open' => Planning')
<1> SUFFICES ASSUME TypeOK, FlowSteps, Waiting, Open => Planning, [Next]_vars
             PROVE  Waiting' /\ (Open' => Planning')
  OBVIOUS
<1>0. LocalOK /\ notif \in Notif /\ ~Raises /\ sent \in Seq(Fate)
  BY DEF TypeOK, LocalOK, Flow, Raises
<1>1. ASSUME NEW w \in Worker, Acts(w) PROVE Waiting' /\ (Open' => Planning')
  <2>1. CASE notif.status = "none"
    <3>1. Start(w)
      BY <1>1, <2>1, FirstIsStart DEF Waiting
    <3>2. /\ notif'.status = "queued" /\ flow'[w] = "start" /\ pc'[w] = "send" /\ ~due'
          /\ \A v \in Worker \ {w} : flow'[v] = "none" /\ pc'[v] = "idle"
      <4>1. notif'.status = "queued" /\ flow'[w] = "start" /\ pc'[w] = "send" /\ ~due'
        BY <1>0, <2>1, <3>1 DEF Start, Enter, LocalOK, NoNotif, Waiting, outside
      <4>2. \A v \in Worker : flow[v] = "none" /\ pc[v] = "idle"
        BY <2>1 DEF Waiting, FlowSteps, HandlerStep
      <4> QED
        BY <1>0, <1>1, <4>1, <4>2, OneActs
    <3>3. Waiting'
      BY <3>2 DEF Waiting
    <3>4. Planning'
      BY <3>2 DEF Planning, Attended, Opening
    <3> QED
      BY <3>3, <3>4
  <2>2. CASE notif.status # "none"
    <3>1. Waiting'
      BY <1>0, <1>1, <2>2, StatusStays DEF Waiting
    <3> SUFFICES ASSUME Open' PROVE Planning'
      BY <3>1
    <3>2. Open /\ ~Resend(w) /\ Planning
      BY <1>1, OpenBefore
    <3>3. HandlerStep(flow[w], pc[w])
      BY DEF FlowSteps
    <3>4. Tried \subseteq Tried' \/ Wipe(w)
      BY <1>1, AttemptSteps
    <3>5. /\ flow[w] # "resend" /\ notif.status \notin {"delivered", "read"}
      BY <3>2 DEF Planning
    <3>6. /\ flow[w] = "escalate" /\ (pc[w] = "send" \/ (pc[w] = "fill" /\ got[w] = 0))
             => Channel \subseteq Tried \cup Trying[w]
          /\ flow[w] = "start" /\ pc[w] \in Opening
             => ~due /\ \A v \in Worker : flow[v] # "escalate"
      BY <3>2 DEF Planning
    <3> DEFINE Still ==
          /\ flow'[w] # "resend" /\ (flow'[w] = "start" => flow[w] = "start")
          /\ notif'.status \notin {"delivered", "read"}
          /\ (due => due' \/ flow'[w] = "escalate") /\ (missed => missed')
          /\ due' => due \/ flow[w] = "escalate" \/ (flow[w] = "start" /\ pc[w] \notin Opening)
          /\ flow'[w] = "escalate" => flow[w] = "escalate" \/ due
          /\ flow'[w] = "start" /\ pc'[w] \in Opening => pc[w] \in Opening /\ due' = due
          /\ flow'[w] = "escalate" /\ (pc'[w] = "send" \/ (pc'[w] = "fill" /\ got'[w] = 0))
               => Channel \subseteq Tried' \cup Trying'[w]
          /\ flow[w] = "escalate" \/ (flow[w] = "start" /\ pc[w] # "event")
               => \/ flow'[w] = "escalate" \/ (flow'[w] = "start" /\ pc'[w] # "event")
                  \/ due' \/ missed' \/ Channel \subseteq Tried'
    <3>7. ASSUME Still, ~Start(w), ~Wipe(w) PROVE Planning'
      BY <1>1, <2>2, <3>2, <3>7, HandOver
    <3>8. ASSUME Finish(w) PROVE pc'[w] = "idle" /\ flow'[w] = "none"
      BY <1>0, <3>8 DEF Finish, Enter, LocalOK
    <3>9. ~Start(w)
      BY <2>2 DEF Start
    <3> USE DEF At, row, outside, HandlerStep, Receipts, Opening
    <3>10. CASE Escalate(w)
      BY <1>0, <3>3, <3>5, <3>7, <3>9, <3>10 DEF Escalate, Enter, LocalOK, Wipe
    <3>11. CASE Receipt(w)
      <4>1. flow'[w] \in Receipts /\ notif' = notif /\ pc'[w] = "apply" /\ ~Wipe(w)
        BY <1>0, <3>11, ReceiptTrue DEF Receipt, Enter, LocalOK, Wipe
      <4> QED
        BY <3>3, <3>5, <3>7, <3>9, <3>11, <4>1 DEF Receipt
    <3>12. ~ResendQueue(w)
      BY <3>3, <3>5 DEF ResendQueue
    <3>13. CASE Send(w)
      <4>1. /\ flow' = flow /\ due' = due /\ missed' = missed /\ notif' = notif
            /\ pc[w] = "send" /\ pc'[w] \in {"fill", "record"} /\ flow[w] \in {"start", "escalate"}
            /\ ~Wipe(w)
        BY <1>0, <3>3, <3>5, <3>13 DEF Send, LocalOK, Wipe
      <4>2. flow[w] = "escalate" /\ got'[w] = 0 => Trying'[w] = Trying[w]
        <5> SUFFICES ASSUME flow[w] = "escalate", got'[w] = 0 PROVE tried'[w] = tried[w]
          BY DEF Trying
        <5>1. Len(sent) \in Nat /\ (sent' = Append(sent, "pending") => Len(sent') = Len(sent) + 1)
          BY <1>0, AppendProperties, LenProperties DEF Fate
        <5>2. SendChain(w, tried[w])
          BY <3>13 DEF Send
        <5> QED
          BY <1>0, <5>1, <5>2 DEF SendChain, LocalOK
      <4> QED
        BY <3>4, <3>5, <3>6, <3>7, <3>9, <4>1, <4>2
    <3>14. CASE Record(w)
      <4>1. /\ flow' = flow /\ due' = due /\ missed' = missed /\ pc[w] = "record"
            /\ notif'.status \in {"sent", "failed"} /\ flow[w] \in {"start", "escalate"} /\ ~Wipe(w)
            /\ flow[w] = "escalate" => pc'[w] = "schedule"
            /\ flow[w] = "start" => pc'[w] = "wipe"
        BY <1>0, <3>3, <3>5, <3>14 DEF Record, Move, LocalOK, Wipe
      <4> QED
        BY <3>7, <3>9, <4>1
    <3>15. CASE Wipe(w)
      <4>1. /\ flow' = flow /\ due' = due /\ missed' = missed /\ notif' = notif
            /\ pc[w] = "wipe" /\ flow[w] = "start" /\ pc'[w] = "fill"
        BY <1>0, <3>3, <3>5, <3>15 DEF Wipe, Move, LocalOK
      <4>2. \A v \in Worker \ {w} : pc'[v] = pc[v]
        BY <1>0, <1>1, OneActs
      <4>3. \A v \in Worker : flow[v] # "escalate" /\ (flow[v] = "start" => v = w)
        BY <3>2, <4>1 DEF Planning
      <4>4. /\ \A v \in Worker : flow'[v] # "resend" /\ flow'[v] # "escalate"
            /\ \A u, v \in Worker : flow'[u] = "start" /\ flow'[v] = "start" => u = v
            /\ ~due'
        BY <3>2, <3>6, <4>1, <4>3 DEF Planning
      <4> QED
        BY <3>5, <4>1, <4>4 DEF Planning, Attended
    <3>16. CASE Fill(w)
      <4>1. /\ due' = due /\ missed' = missed /\ notif' = notif /\ pc[w] = "fill"
            /\ flow[w] \in {"start", "escalate"} /\ ~Wipe(w)
            /\ flow[w] = "start" => pc'[w] = "schedule" /\ flow' = flow
            /\ flow[w] = "escalate" /\ got[w] # 0 => pc'[w] = "record" /\ flow' = flow
            /\ flow[w] = "escalate" /\ got[w] = 0 => pc'[w] = "idle" /\ flow'[w] = "none"
        BY <1>0, <3>3, <3>5, <3>8, <3>16 DEF Fill, Move, LocalOK, Wipe
      <4>2. flow[w] = "escalate" /\ got[w] = 0 => Channel \subseteq Tried'
        BY <1>1, <3>6, <3>16, <4>1, AttemptSteps
      <4> QED
        BY <3>5, <3>7, <3>9, <4>1, <4>2
    <3>17. CASE Schedule(w)
      <4>1. /\ notif' = notif /\ pc[w] = "schedule" /\ ~Wipe(w)
            /\ flow[w] \in {"start", "escalate"}
            /\ (due => due') /\ (missed => missed')
            /\ due' \/ missed' \/ Untried = <<>>
        BY <1>0, <3>3, <3>5, <3>17 DEF Schedule, Wipe
      <4>2. After(w)
        BY <1>0, <3>17 DEF Schedule
      <4>3. \/ flow'[w] = "start" /\ flow[w] = "start" /\ pc'[w] = "event"
            \/ flow'[w] = "none"
        BY <1>0, <3>8, <4>2 DEF After, Move, LocalOK
      <4>4. due' \/ missed' \/ Channel \subseteq Tried'
        BY <3>4, <4>1, UntriedRest
      <4> QED
        BY <3>5, <3>7, <3>9, <4>1, <4>3, <4>4
    <3>18. CASE Event(w)
      <4>1. /\ due' = due /\ missed' = missed /\ notif' = notif /\ pc[w] = "event"
            /\ flow'[w] = "none" /\ flow[w] = "start" /\ ~Wipe(w)
        BY <3>3, <3>8, <3>18 DEF Event, Wipe
      <4> QED
        BY <3>5, <3>7, <3>9, <4>1
    <3>19. CASE EscalatePlan(w)
      <4>1. missed' = missed /\ notif' = notif /\ pc[w] = "plan" /\ flow[w] = "escalate"
            /\ ~Wipe(w) /\ due' = due
        BY <1>0, <3>3, <3>19 DEF EscalatePlan, Wipe
      <4>2. \/ Untried = <<>> /\ pc'[w] = "idle" /\ flow'[w] = "none"
            \/ pc'[w] = "send" /\ flow'[w] = "escalate" /\ tried'[w] = Untried
        BY <1>0, <3>8, <3>19, <4>1 DEF EscalatePlan, LocalOK
      <4>3. tried'[w] = Untried => Channel \subseteq Tried \cup Trying'[w]
        BY UntriedRest DEF Trying
      <4>4. Untried = <<>> => Channel \subseteq Tried
        BY UntriedRest
      <4> QED
        BY <3>4, <3>5, <3>7, <3>9, <4>1, <4>2, <4>3, <4>4
    <3>20. CASE Apply(w)
      <4>1. /\ due' = due /\ missed' = missed /\ flow[w] \in Receipts /\ ~Wipe(w)
            /\ flow'[w] = "none"
        BY <3>3, <3>8, <3>20 DEF Apply, Wipe
      <4>2. notif'.status \notin {"delivered", "read"}
        BY <1>0, <3>5, <3>20 DEF Apply, Notif, Open
      <4> QED
        BY <3>7, <3>9, <4>1, <4>2
    <3>21. CASE Crash(w)
      <4>1. /\ due' = (due \/ flow[w] = "escalate") /\ missed' = (missed \/ flow[w] = "start")
            /\ notif' = notif /\ flow'[w] = "none"
        BY <3>8, <3>21 DEF Crash
      <4>2. ~Wipe(w)
        BY <1>0, <3>8, <3>21 DEF Wipe, Move, Crash, LocalOK
      <4> QED
        BY <3>5, <3>7, <3>9, <4>1, <4>2
    <3> QED
      BY <1>1, <3>2, <3>9, <3>10, <3>11, <3>12, <3>13, <3>14, <3>15, <3>16, <3>17, <3>18,
         <3>19, <3>20, <3>21 DEF Acts, Work
  <2> QED
    BY <2>1, <2>2
<1>2. CASE Progress \/ UNCHANGED vars
  <2>1. UNCHANGED <<row, due, missed, told, local>>
    BY <1>2 DEF Progress, vars, outside
  <2>2. Tried' = Tried /\ Trying' = Trying
    BY <2>1 DEF row, local, Tried, Trying
  <2>3. Waiting' /\ Open' = Open
    BY <2>1 DEF row, local, Waiting, Open
  <2>4. Planning => Planning'
    BY <2>1, <2>2 DEF row, local, Planning, Attended, Opening
  <2> QED
    BY <2>3, <2>4
<1> QED
  BY <1>1, <1>2 DEF Next, Acts

LEMMA PlanningInit == Init => Waiting /\ Planning
  BY DEF Init, Waiting, Planning, NoNotif

\* A message that is not confirmed is never forgotten, for any chain whose
\* channels can be named, any number of workers, killed anywhere, and receipts
\* and tasks that come late, twice or not at all (_schedule_escalation_if_pending,
\* escalate_delivery): a check is planned until every channel was tried.
THEOREM MessageCheckPlanned == Spec => []CheckIsPlanned
<1>1. CASE Escalation /\ Channel \subseteq Declared
  <2>1. TypeOK /\ FlowSteps /\ (Open => Planning) => CheckIsPlanned
    <3> SUFFICES ASSUME FlowSteps, Open => Planning, Open, notif.status # "none",
                        \A w \in Worker : At(w, "idle")
                 PROVE  due \/ missed \/ AllTried
      BY DEF CheckIsPlanned, Open
    <3>1. Attended /\ \A w \in Worker : flow[w] = "none"
      BY DEF Planning, FlowSteps, HandlerStep, At, Receipts
    <3> QED
      BY <3>1 DEF Attended, AllTried, Tried
  <2>2. TypeOK /\ FlowSteps /\ Waiting /\ (Open => Planning) /\ [Next]_vars
          => Waiting' /\ (Open' => Planning')
    BY <1>1, PlanningStep
  <2> QED
    BY <2>1, <2>2, MessageTyped, PlanningInit, PTL DEF Spec
<1>2. CASE ~(Escalation /\ Channel \subseteq Declared)
  <2>1. CheckIsPlanned
    BY <1>2 DEF CheckIsPlanned, Raises
  <2> QED
    BY <2>1, PTL
<1> QED
  BY <1>1, <1>2
=============================================================================
