-------------------------- MODULE UsbEndpointsProofs --------------------------
(***************************************************************************)
(* Proofs about UsbEndpoints, for packets, buffers, DMA transfers and      *)
(* reads of any size and any number of banks.  What the banks hold is a    *)
(* recursive sum: its two laws (HeldAppend, HeldTail) come by induction    *)
(* from the well-foundedness of the naturals.                              *)
(***************************************************************************)
EXTENDS UsbEndpoints, NaturalsInduction, WellFoundedInduction, TLAPS

---------------------------------------------------------------------------
(* The invariant.                                                          *)

\* A DMA channel that moves is moving for a job and has not ended yet.
Moving(e) == e.dma => e.busy /\ e.dmaIE /\ ~e.dmaDone

\* On IN the DMA is never given more than the job asks for.
InJob(e) ==
  /\ e \in Endpoint /\ Len(e.banks) <= NBanks
  /\ Moving(e) /\ e.cnt <= e.size

\* On OUT a job is one DMA transfer of whole packets; a shorter packet ends it.
OutJob(e) ==
  /\ e \in Endpoint /\ Len(e.banks) <= NBanks /\ ~e.stall
  /\ Moving(e)
  /\ e.busy \/ e.dmaDone => e.left <= e.cnt /\ e.cnt = e.size
  /\ e.dma => e.left % EpSize = 0 /\ e.left # 0

\* The history of a transfer that a bus reset has taken away may be nonsense
\* until the reset is handled.
Types ==
  /\ udc_num_configuration \in BOOLEAN /\ reset \in BOOLEAN
  /\ unread \in Int /\ unreported \in Int /\ owed \in Nat

\* An unconfigured device has nothing under way.
Quiet(e) == ~e.enabled /\ ~e.busy /\ ~e.dma /\ e.banks = <<>>
Unconfigured == ~udc_num_configuration => Quiet(inp) /\ Quiet(out)

\* Outside a bus reset jobs are alive and a configured device listens.
Served ==
  ~reset => /\ NoOrphanJob
            /\ udc_num_configuration => out.busy

\* What is between the two ends of an endpoint.
InFlow(e) ==
  (IF e.busy THEN e.size - e.cnt ELSE 0) + (IF e.dma THEN e.left ELSE 0) + Held(e.banks)
OutFlow(e) == (IF e.busy THEN e.cnt - e.left ELSE 0) + Held(e.banks)
Flow == ~reset => unread = InFlow(inp) /\ unreported = OutFlow(out)

IInv == Types /\ InJob(inp) /\ OutJob(out) /\ Unconfigured /\ Served /\ Flow

---------------------------------------------------------------------------
(* Induction and sums.                                                     *)

\* f holds the partial sums of s.
IsSum(f, s) == f = [i \in 0..Len(s) |-> IF i = 0 THEN 0 ELSE f[i-1] + s[i]]

\* A set of natural numbers has a least one.
LEMMA Least == 
  ASSUME NEW T, T \subseteq Nat, T # {}
  PROVE  \E n \in T : \A m \in T : ~ (m < n)
<1>1. PICK n \in T : \A m \in T : ~ (<<m, n>> \in OpToRel(<, Nat))
  BY WFMin, NatLessThanWellFounded, Zenon
<1>. QED  BY <1>1, Zenon DEF OpToRel

\* Induction, for a set of numbers.
LEMMA Induct ==
  ASSUME NEW S, S \subseteq Nat, 0 \in S, \A n \in Nat : n \in S => n + 1 \in S
  PROVE  S = Nat
<1>1. SUFFICES ASSUME Nat \ S # {} PROVE FALSE
  OBVIOUS
<1>2. PICK n \in Nat \ S : \A m \in Nat \ S : ~ (m < n)
  BY <1>1, Least
<1>3. n # 0 /\ n - 1 \in Nat /\ n - 1 < n
  BY <1>2
<1>4. n - 1 \in S
  BY <1>2, <1>3
<1>5. (n - 1) + 1 \in S
  BY <1>4, <1>3
<1>. QED BY <1>5, <1>2

\* What the recursive function of Held is.
LEMMA HeldDef ==
  ASSUME NEW s, NEW f, 
         (CHOOSE g : IsSum(g, s)) = f
  PROVE Held(s) = f[Len(s)]
BY DEF Held, IsSum

\* Every sequence of numbers has its partial sums.
LEMMA SumExists ==
  ASSUME NEW s \in Seq(Nat)
  PROVE  \E f : IsSum(f, s)
<1> DEFINE Sums(f, n) == f = [i \in 0..n |-> IF i = 0 THEN 0 ELSE f[i-1] + s[i]]
<1> DEFINE N == {n \in Nat : \E f : Sums(f, n)}
<1>1. 0 \in N
  <2>1. Sums([i \in 0..0 |-> 0], 0)
    OBVIOUS
  <2>. QED BY <2>1
<1>2. ASSUME NEW n \in Nat, n \in N PROVE n + 1 \in N
  <2>1. PICK f : Sums(f, n)
    BY <1>2
  <2> DEFINE g == [i \in 0..(n+1) |-> IF i <= n THEN f[i] ELSE f[n] + s[n+1]]
  <2>2. \A i \in 0..(n+1) : g[i] = IF i = 0 THEN 0 ELSE g[i-1] + s[i]
    <3> TAKE i \in 0..(n+1)
    <3>1. CASE i = 0
      BY <2>1, <3>1
    <3>2. CASE i \in 1..n
      <4>1. i - 1 \in 0..n /\ i \in 0..n
        BY <3>2
      <4>2. f[i] = f[i-1] + s[i]
        BY <2>1, <4>1, <3>2
      <4>. QED BY <4>1, <4>2, <3>2
    <3>3. CASE i = n + 1
      <4>1. i - 1 = n /\ g[n] = f[n] /\ g[i] = f[n] + s[i]
        BY <3>3
      <4>. QED BY <4>1, <3>3
    <3>. QED BY <3>1, <3>2, <3>3
  <2>3. Sums(g, n+1)
    BY <2>2
  <2>4. \E h : Sums(h, n+1)
    <3> HIDE DEF Sums, g
    <3>. QED BY <2>3
  <2>5. n + 1 \in Nat
    OBVIOUS
  <2>. QED BY <2>4, <2>5
<1> HIDE DEF N
<1>3. N = Nat
  <2>1. N \subseteq Nat
    BY DEF N
  <2>. QED BY <1>1, <1>2, <2>1, Induct
<1>4. Len(s) \in N
  BY <1>3
<1>. QED BY <1>4 DEF N, IsSum

\* Held is the last of the partial sums.
LEMMA HeldIsSum ==
  ASSUME NEW s \in Seq(Nat)
  PROVE  \E f : IsSum(f, s) /\ Held(s) = f[Len(s)]
<1>1. IsSum(CHOOSE g : IsSum(g, s), s)
  BY SumExists
<1>. QED BY <1>1, HeldDef

\* Partial sums of natural numbers are natural numbers.
LEMMA SumType ==
  ASSUME NEW s \in Seq(Nat), NEW f, IsSum(f, s)
  PROVE  f \in [0..Len(s) -> Nat]
<1> DEFINE N == {n \in Nat : n <= Len(s) => f[n] \in Nat}
<1>1. 0 \in N
  BY DEF IsSum
<1>2. ASSUME NEW n \in Nat, n \in N PROVE n + 1 \in N
  <2>1. CASE n + 1 <= Len(s)
    <3>1. f[n + 1] = f[n] + s[n + 1]
      BY <2>1 DEF IsSum
    <3>. QED BY <3>1, <2>1, <1>2
  <2>. QED BY <2>1
<1>3. N = Nat
  <2> HIDE DEF N
  <2>1. N \subseteq Nat
    BY DEF N
  <2>. QED BY <1>1, <1>2, <2>1, Induct
<1>4. \A n \in 0..Len(s) : f[n] \in Nat
  <2> TAKE n \in 0..Len(s)
  <2>1. n \in N
    BY <1>3
  <2>. QED BY <2>1
<1>5. f = [i \in 0..Len(s) |-> f[i]]
  BY DEF IsSum
<1>. QED BY <1>4, <1>5

\* Empty banks hold nothing.
LEMMA HeldEmpty == Held(<<>>) = 0
<1>1. PICK f : IsSum(f, <<>>) /\ Held(<<>>) = f[Len(<<>>)]
  <2>1. <<>> \in Seq(Nat)
    OBVIOUS
  <2>. QED BY <2>1, HeldIsSum
<1>. QED BY <1>1 DEF IsSum

\* What banks hold is a natural number.
LEMMA HeldType ==
  ASSUME NEW s \in Seq(Nat)
  PROVE  Held(s) \in Nat
<1>1. PICK f : IsSum(f, s) /\ Held(s) = f[Len(s)]
  BY HeldIsSum
<1>2. f \in [0..Len(s) -> Nat]
  BY <1>1, SumType
<1>. QED BY <1>1, <1>2

\* A packet that comes is added.
LEMMA HeldAppend ==
  ASSUME NEW s \in Seq(Nat), NEW x \in Nat
  PROVE  Held(Append(s, x)) = Held(s) + x
<1> DEFINE t == Append(s, x)
<1>1. t \in Seq(Nat) /\ Len(t) = Len(s) + 1 /\ t[Len(s) + 1] = x /\ \A i \in 1..Len(s) : t[i] = s[i]
  OBVIOUS
<1> HIDE DEF t
<1>2. PICK f : IsSum(f, s) /\ Held(s) = f[Len(s)]
  BY HeldIsSum
<1>3. PICK g : IsSum(g, t) /\ Held(t) = g[Len(t)]
  BY <1>1, HeldIsSum
<1> DEFINE N == {n \in Nat : n <= Len(s) => f[n] = g[n]}
<1>4. 0 \in N
  BY <1>1, <1>2, <1>3 DEF IsSum
<1>5. ASSUME NEW n \in Nat, n \in N PROVE n + 1 \in N
  <2>1. CASE n + 1 <= Len(s)
    <3>1. f[n + 1] = f[n] + s[n + 1]
      BY <2>1, <1>2 DEF IsSum
    <3>2. g[n + 1] = g[n] + t[n + 1]
      BY <2>1, <1>3, <1>1 DEF IsSum
    <3>. QED BY <3>1, <3>2, <2>1, <1>5, <1>1
  <2>. QED BY <2>1
<1>6. N = Nat
  <2> HIDE DEF N
  <2>1. N \subseteq Nat
    BY DEF N
  <2>. QED BY <1>4, <1>5, <2>1, Induct
<1>7. f[Len(s)] = g[Len(s)]
  BY <1>6
<1>8. g[Len(t)] = g[Len(s)] + x
  BY <1>1, <1>3 DEF IsSum
<1>. QED BY <1>2, <1>3, <1>7, <1>8 DEF t

\* A packet that goes is taken off.
LEMMA HeldTail ==
  ASSUME NEW s \in Seq(Nat), s # <<>>
  PROVE  Held(Tail(s)) = Held(s) - Head(s)
<1> DEFINE t == Tail(s)
<1>1. /\ t \in Seq(Nat) /\ Len(s) = Len(t) + 1 /\ Head(s) = s[1] /\ Head(s) \in Nat
      /\ \A i \in 1..Len(t) : t[i] = s[i + 1]
  OBVIOUS
<1> HIDE DEF t
<1>2. PICK f : IsSum(f, s) /\ Held(s) = f[Len(s)]
  BY HeldIsSum
<1>3. PICK g : IsSum(g, t) /\ Held(t) = g[Len(t)]
  BY <1>1, HeldIsSum
<1>0. f \in [0..Len(s) -> Nat] /\ g \in [0..Len(t) -> Nat]
  BY <1>1, <1>2, <1>3, SumType
<1> DEFINE N == {n \in Nat : n <= Len(t) => f[n + 1] = g[n] + Head(s)}
<1>4. 0 \in N
  <2>1. f[1] = f[0] + s[1] /\ f[0] = 0
    BY <1>1, <1>2 DEF IsSum
  <2>2. g[0] = 0
    BY <1>1, <1>3 DEF IsSum
  <2>. QED BY <2>1, <2>2, <1>1
<1>5. ASSUME NEW n \in Nat, n \in N PROVE n + 1 \in N
  <2>1. CASE n + 1 <= Len(t)
    <3>0. ASSUME NEW i \in 1..Len(s) PROVE f[i] = f[i - 1] + s[i]
      <4>1. i \in 0..Len(s) /\ i # 0
        OBVIOUS
      <4>. QED BY <1>2, <4>1 DEF IsSum
    <3>1. f[(n + 1) + 1] = f[n + 1] + s[(n + 1) + 1]
      <4>1. (n + 1) + 1 \in 1..Len(s) /\ ((n + 1) + 1) - 1 = n + 1
        BY <2>1, <1>1
      <4>. QED BY <3>0, <4>1
    <3>2. g[n + 1] = g[n] + t[n + 1]
      BY <2>1, <1>3 DEF IsSum
    <3>3. t[n + 1] = s[(n + 1) + 1] /\ t[n + 1] \in Nat
      BY <2>1, <1>1
    <3>4. f[n + 1] = g[n] + Head(s) /\ g[n] \in Nat
      BY <2>1, <1>5, <1>0
    <3>5. f[(n + 1) + 1] = g[n + 1] + Head(s)
      BY <3>1, <3>2, <3>3, <3>4, <1>1
    <3>. QED BY <3>5
  <2>2. CASE ~(n + 1 <= Len(t))
    BY <2>2
  <2>. QED BY <2>1, <2>2
<1>6. N = Nat
  <2> HIDE DEF N
  <2>1. N \subseteq Nat
    BY DEF N
  <2>. QED BY <1>4, <1>5, <2>1, Induct
<1>7. Len(t) \in Nat
  BY <1>1
<1>8. f[Len(t) + 1] = g[Len(t)] + Head(s)
  BY <1>6, <1>7
<1>9. g[Len(t)] \in Nat
  BY <1>0, <1>7
<1>. QED BY <1>2, <1>3, <1>8, <1>9, <1>1 DEF t

\* Another packet can be taken off a length of whole packets.
LEMMA WholePackets ==
  ASSUME NEW E \in Nat \ {0}, NEW m \in Nat, m % E = 0, m # 0
  PROVE  m >= E /\ (m - E) % E = 0
<1>1. m >= E
  OBVIOUS
<1>2. m = E * (m \div E) /\ m \div E \in Nat /\ m \div E # 0
  OBVIOUS
<1>3. \A k \in Nat \ {0} : E * k - E = E * (k - 1) /\ k - 1 \in Nat
  OBVIOUS
<1>4. \A k \in Nat : (E * k) % E = 0
  OBVIOUS
<1>5. PICK k \in Nat \ {0} : m = E * k
  BY <1>2
<1>6. m - E = E * (k - 1) /\ k - 1 \in Nat
  BY <1>3, <1>5
<1>7. (E * (k - 1)) % E = 0
  BY <1>4, <1>6
<1>. QED BY <1>1, <1>6, <1>7

---------------------------------------------------------------------------
(* What the operations on an endpoint do.                                  *)

\* A job of full length on OUT, nothing of it transferred yet.
FullJob(e, f) ==
  /\ f \in Endpoint
  /\ f.enabled /\ ~f.stall /\ f.busy /\ f.dma /\ f.dmaIE /\ ~f.dmaDone
  /\ f.left = LOOPBACK_SIZE /\ f.cnt = LOOPBACK_SIZE /\ f.size = LOOPBACK_SIZE
  /\ f.banks = e.banks

\* A DMA transfer is started for as much of the job as it can move.
LEMMA DmaStarts ==
  ASSUME NEW e \in Endpoint, e.cnt <= e.size
  PROVE  /\ StartDma(e) \in Endpoint
         /\ StartDma(e).cnt <= StartDma(e).size
         /\ StartDma(e).size = e.size
         /\ StartDma(e).cnt = e.cnt + StartDma(e).left
         /\ StartDma(e).dma /\ StartDma(e).dmaIE /\ ~StartDma(e).dmaDone
         /\ StartDma(e).busy = e.busy /\ StartDma(e).enabled = e.enabled
         /\ StartDma(e).stall = e.stall
         /\ StartDma(e).banks = e.banks
<1> DEFINE n == Minimum(e.size - e.cnt, MAX_TRANS)
<1>1. n \in Nat /\ e.cnt + n <= e.size /\ e.cnt + n \in Nat
  BY UsbEndpointsAssumption DEF Minimum, Endpoint
<1>2. StartDma(e) = [e EXCEPT !.dma = TRUE, !.left = n, !.dmaDone = FALSE, !.dmaIE = TRUE,
                              !.cnt = e.cnt + n]
  BY DEF StartDma, Endpoint
<1> HIDE DEF n
<1>. QED BY <1>1, <1>2 DEF Endpoint

\* An endpoint that can take a job on OUT gets one of full length.
LEMMA OutRuns ==
  ASSUME NEW e \in Endpoint, e.enabled, ~e.stall, ~e.busy
  PROVE  FullJob(e, RunOut(e))
<1> DEFINE j == [e EXCEPT !.busy = TRUE, !.size = LOOPBACK_SIZE, !.cnt = 0]
<1>1. /\ j \in Endpoint /\ j.cnt = 0 /\ j.size = LOOPBACK_SIZE /\ j.busy /\ j.enabled /\ ~j.stall
      /\ j.banks = e.banks
  BY UsbEndpointsAssumption DEF Endpoint
<1>2. RunOut(e) = StartDma(j)
  BY DEF RunOut, Refused, NewJob
<1> HIDE DEF j
<1>3. Minimum(LOOPBACK_SIZE - 0, MAX_TRANS) = LOOPBACK_SIZE
  BY UsbEndpointsAssumption DEF Minimum
<1>4. StartDma(j).left = LOOPBACK_SIZE
  BY <1>1, <1>3 DEF StartDma, Endpoint
<1>5. j.cnt <= j.size
  BY <1>1, UsbEndpointsAssumption
<1>6. 0 + LOOPBACK_SIZE = LOOPBACK_SIZE
  BY UsbEndpointsAssumption
<1>. QED BY <1>1, <1>2, <1>4, <1>5, <1>6, DmaStarts DEF FullJob

\* A job that ends on an endpoint in use is followed by the next.
LEMMA OutRunsAgain ==
  ASSUME NEW e \in Endpoint, e.enabled, ~e.stall, e.busy
  PROVE  FullJob(e, FinishOut(e))
<1> DEFINE f == [e EXCEPT !.busy = FALSE]
<1>1. f \in Endpoint /\ f.enabled /\ ~f.stall /\ ~f.busy /\ f.banks = e.banks
  BY DEF Endpoint
<1>2. FinishOut(e) = RunOut(f)
  BY DEF FinishOut
<1> HIDE DEF f
<1>. QED BY <1>1, <1>2, OutRuns DEF FullJob

\* A job that ends on a disabled endpoint is not.
LEMMA OutStops ==
  ASSUME NEW e \in Endpoint, ~e.enabled
  PROVE  FinishOut(e) = [e EXCEPT !.busy = FALSE]
BY DEF FinishOut, RunOut, Refused, Endpoint

LEMMA IsDisabled ==
  ASSUME NEW e \in Endpoint, NEW keepStall \in BOOLEAN
  PROVE  LET d == Disabled(e, keepStall)
         IN  /\ d \in Endpoint /\ ~d.enabled /\ (~keepStall => ~d.stall) /\ ~d.dma
             /\ d.banks = <<>>
             /\ d.left = e.left /\ d.cnt = e.cnt /\ d.size = e.size
             /\ d.dmaDone = e.dmaDone /\ d.busy = e.busy
<1> DEFINE b == e.stall /\ keepStall
<1>1. b \in BOOLEAN /\ (~keepStall => ~b)
  OBVIOUS
<1>2. Disabled(e, keepStall)
        = [e EXCEPT !.enabled = FALSE, !.stall = b, !.banks = <<>>, !.dma = FALSE]
  BY Zenon DEF Disabled
<1> HIDE DEF b
<1>3. <<>> \in Seq(0..EpSize)
  OBVIOUS
<1>. QED BY <1>1, <1>2, <1>3 DEF Endpoint

\* A freed endpoint has no job, no data and no DMA.
LEMMA OutFreed ==
  ASSUME NEW e \in Endpoint
  PROVE  /\ FreeOut(e) \in Endpoint /\ Quiet(FreeOut(e)) /\ ~FreeOut(e).stall
         /\ FreeOut(e).left = e.left /\ FreeOut(e).cnt = e.cnt /\ FreeOut(e).size = e.size
         /\ FreeOut(e).dmaDone = e.dmaDone
<1> DEFINE d == Disabled(e, FALSE)
<1>1. /\ d \in Endpoint /\ ~d.enabled /\ ~d.stall /\ d.banks = <<>> /\ ~d.dma
      /\ d.left = e.left /\ d.cnt = e.cnt /\ d.size = e.size /\ d.dmaDone = e.dmaDone
  BY IsDisabled
<1> HIDE DEF d
<1>2. FreeOut(e) = [d EXCEPT !.busy = FALSE]
  BY <1>1, OutStops DEF FreeOut, d
<1>. QED BY <1>1, <1>2 DEF Quiet, Endpoint

LEMMA InFreed ==
  ASSUME NEW e \in Endpoint, NEW keepStall \in BOOLEAN
  PROVE  /\ FreeIn(e, keepStall) \in Endpoint /\ Quiet(FreeIn(e, keepStall))
         /\ FreeIn(e, keepStall).cnt = e.cnt /\ FreeIn(e, keepStall).size = e.size
<1> DEFINE d == Disabled(e, keepStall)
<1>1. /\ d \in Endpoint /\ ~d.enabled /\ d.banks = <<>> /\ ~d.dma
      /\ d.cnt = e.cnt /\ d.size = e.size
  BY IsDisabled
<1> HIDE DEF d
<1>2. FreeIn(e, keepStall) = [d EXCEPT !.busy = FALSE]
  BY DEF FreeIn, FinishIn, d
<1>. QED BY <1>1, <1>2 DEF Quiet, Endpoint

LEMMA Allocated ==
  ASSUME NEW e \in Endpoint
  PROVE  /\ Alloc(e) \in Endpoint /\ Alloc(e).enabled /\ Alloc(e).stall = e.stall
         /\ Alloc(e).banks = e.banks /\ Alloc(e).busy = e.busy /\ Alloc(e).dma = e.dma
         /\ Alloc(e).cnt = e.cnt /\ Alloc(e).size = e.size
BY DEF Alloc, Endpoint

LEMMA Banks ==
  ASSUME NEW e \in Endpoint
  PROVE  /\ e.banks \in Seq(Nat) /\ Held(e.banks) \in Nat
         /\ \A i \in 1..Len(e.banks) : e.banks[i] \in 0..EpSize
<1>1. e.banks \in Seq(0..EpSize)
  BY DEF Endpoint
<1>2. \A A, B : A \subseteq B => Seq(A) \subseteq Seq(B)
  OBVIOUS
<1>3. e.banks \in Seq(Nat)
  <2>1. 0..EpSize \subseteq Nat
    OBVIOUS
  <2>. QED BY <1>1, <1>2, <2>1, Zenon
<1>4. \A i \in 1..Len(e.banks) : e.banks[i] \in 0..EpSize
  <2>1. \A A : \A s \in Seq(A) : \A i \in 1..Len(s) : s[i] \in A
    OBVIOUS
  <2>. QED BY <1>1, <2>1, Zenon
<1>. QED BY <1>3, <1>4, HeldType

\* The packet at the front of a row of banks.
LEMMA FrontPacket ==
  ASSUME NEW s \in Seq(0..EpSize), s # <<>>
  PROVE  /\ Tail(s) \in Seq(0..EpSize) /\ Len(Tail(s)) \in Nat /\ Len(Tail(s)) <= Len(s)
         /\ Head(s) \in 0..EpSize
<1>1. \A A : \A t \in Seq(A) : t # <<>> => /\ Tail(t) \in Seq(A)
                                         /\ Len(Tail(t)) \in Nat /\ Len(Tail(t)) <= Len(t)
                                         /\ Head(t) \in A
  OBVIOUS
<1>. QED BY <1>1, Zenon

\* The flow of a quiet endpoint is nothing, and it is fit for either direction.
LEMMA QuietFlow ==
  ASSUME NEW e, Quiet(e)
  PROVE  InFlow(e) = 0 /\ OutFlow(e) = 0
BY HeldEmpty DEF Quiet, InFlow, OutFlow

LEMMA QuietIn ==
  ASSUME NEW e \in Endpoint, Quiet(e), e.cnt <= e.size
  PROVE  InJob(e)
<1>1. Len(e.banks) <= NBanks
  BY UsbEndpointsAssumption DEF Quiet
<1>. QED BY <1>1 DEF Quiet, InJob, Moving

LEMMA QuietOut ==
  ASSUME NEW e \in Endpoint, Quiet(e), ~e.stall, e.dmaDone => e.left <= e.cnt /\ e.cnt = e.size
  PROVE  OutJob(e)
<1>1. Len(e.banks) <= NBanks
  BY UsbEndpointsAssumption DEF Quiet
<1>. QED BY <1>1 DEF Quiet, OutJob, Moving

\* A full job is fit, alive, and has nothing transferred.
LEMMA FullJobFits ==
  ASSUME NEW e, NEW f, FullJob(e, f), Len(e.banks) <= NBanks
  PROVE  OutJob(f) /\ f.busy /\ Alive(f) /\ OutFlow(f) = Held(f.banks)
<1>1. OutJob(f)
  BY UsbEndpointsAssumption DEF FullJob, OutJob, Moving
<1>2. Alive(f)
  BY DEF FullJob, Alive
<1>3. OutFlow(f) = Held(f.banks)
  <2>1. Held(f.banks) \in Nat
    BY Banks DEF FullJob
  <2>2. f.cnt - f.left = 0 /\ f.busy
    BY UsbEndpointsAssumption DEF FullJob
  <2>. QED BY <2>1, <2>2 DEF OutFlow
<1>. QED BY <1>1, <1>2, <1>3 DEF FullJob

---------------------------------------------------------------------------
(* The invariant holds.                                                    *)

LEMMA InitInv == Init => IInv
<1> SUFFICES ASSUME Init PROVE IInv
  OBVIOUS
<1>1. inp = Unused /\ out = Unused
  BY DEF Init
<1>2. Unused \in Endpoint /\ Quiet(Unused) /\ Unused.cnt <= Unused.size /\ ~Unused.stall
      /\ ~Unused.dmaDone
  <2>1. <<>> \in Seq(0..EpSize)
    OBVIOUS
  <2>. QED BY <2>1 DEF Unused, Endpoint, Quiet
<1>3. Types
  <2>1. udc_num_configuration \in BOOLEAN /\ reset \in BOOLEAN
    BY DEF Init
  <2>2. unread = 0 /\ unreported = 0 /\ owed = 0
    BY DEF Init
  <2>. QED BY <2>1, <2>2 DEF Types
<1>4. InJob(inp) /\ OutJob(out)
  BY <1>1, <1>2, QuietIn, QuietOut
<1>5. Unconfigured
  BY <1>1, <1>2 DEF Unconfigured
<1>6. Served
  BY <1>1, <1>2 DEF Init, Served, NoOrphanJob, Quiet
<1>7. Flow
  BY <1>1, <1>2, QuietFlow DEF Init, Flow
<1>. QED BY <1>3, <1>4, <1>5, <1>6, <1>7 DEF IInv

\* Configuring and freeing: what is left of the two endpoints.
LEMMA OutConfigured ==
  ASSUME NEW e \in Endpoint, Quiet(e), ~e.stall
  PROVE  LET f == RunOut(Alloc(e))
         IN  OutJob(f) /\ f.busy /\ Alive(f) /\ OutFlow(f) = 0
<1> DEFINE a == Alloc(e)  f == RunOut(a)
<1>1. a \in Endpoint /\ a.enabled /\ ~a.stall /\ ~a.busy /\ a.banks = <<>>
  BY Allocated DEF Quiet
<1>2. FullJob(a, f)
  BY <1>1, OutRuns
<1>3. Len(a.banks) <= NBanks
  BY <1>1, UsbEndpointsAssumption
<1>4. f.banks = <<>>
  BY <1>1, <1>2 DEF FullJob
<1> HIDE DEF a, f
<1>5. OutFlow(f) = 0
  BY <1>2, <1>3, <1>4, FullJobFits, HeldEmpty
<1>. QED BY <1>2, <1>3, <1>5, FullJobFits DEF f, a

LEMMA InConfigured ==
  ASSUME NEW e \in Endpoint, Quiet(e), e.cnt <= e.size
  PROVE  InJob(Alloc(e)) /\ ~Alloc(e).busy /\ InFlow(Alloc(e)) = 0
<1> DEFINE a == Alloc(e)
<1>1. a \in Endpoint /\ ~a.busy /\ ~a.dma /\ a.banks = <<>> /\ a.cnt <= a.size
  BY Allocated DEF Quiet
<1> HIDE DEF a
<1>2. Len(a.banks) <= NBanks
  BY <1>1, UsbEndpointsAssumption
<1>3. InFlow(a) = 0
  BY <1>1, HeldEmpty DEF InFlow
<1>. QED BY <1>1, <1>2, <1>3 DEF InJob, Moving, a

LEMMA SetConfigurationInv == IInv /\ SetConfiguration => IInv'
<1> SUFFICES ASSUME IInv, SetConfiguration PROVE IInv'
  OBVIOUS
<1>0. Types /\ InJob(inp) /\ OutJob(out) /\ Unconfigured
  BY DEF IInv
<1>1. /\ unread' = 0 /\ unreported' = 0 /\ owed' = 0 /\ reset' = reset /\ ~reset
  BY DEF SetConfiguration, Forget
<1>2. PICK on \in BOOLEAN, keepStall \in BOOLEAN :
        LET i == IF udc_num_configuration THEN FreeIn(inp, keepStall) ELSE inp
            o == IF udc_num_configuration THEN FreeOut(out) ELSE out
        IN /\ udc_num_configuration' = on
           /\ inp' = IF on THEN Alloc(i) ELSE i
           /\ out' = IF on THEN RunOut(Alloc(o)) ELSE o
  BY DEF SetConfiguration
<1> DEFINE i == IF udc_num_configuration THEN FreeIn(inp, keepStall) ELSE inp
           o == IF udc_num_configuration THEN FreeOut(out) ELSE out
<1>3. i \in Endpoint /\ Quiet(i) /\ i.cnt <= i.size
  BY <1>0, InFreed DEF InJob, Unconfigured
<1>4. o \in Endpoint /\ Quiet(o) /\ ~o.stall /\ (o.dmaDone => o.left <= o.cnt /\ o.cnt = o.size)
  BY <1>0, OutFreed DEF OutJob, Unconfigured
<1>5. /\ udc_num_configuration' = on
      /\ inp' = IF on THEN Alloc(i) ELSE i
      /\ out' = IF on THEN RunOut(Alloc(o)) ELSE o
  BY <1>2
<1> HIDE DEF i, o
<1>6. InJob(inp') /\ ~inp'.busy /\ InFlow(inp') = 0
  <2>1. ~i.busy
    BY <1>3 DEF Quiet
  <2>. QED BY <1>3, <1>5, <2>1, InConfigured, QuietIn, QuietFlow
<1>7. /\ OutJob(out') /\ OutFlow(out') = 0
      /\ IF on THEN out'.busy /\ Alive(out') ELSE ~out'.busy
  <2>1. ~o.busy
    BY <1>4 DEF Quiet
  <2>. QED BY <1>4, <1>5, <2>1, OutConfigured, QuietOut, QuietFlow
<1>8. Types'
  BY <1>0, <1>1, <1>5 DEF Types
<1>9. Unconfigured'
  BY <1>3, <1>4, <1>5 DEF Unconfigured
<1>10. Served'
  BY <1>5, <1>6, <1>7 DEF Served, NoOrphanJob
<1>11. Flow'
  BY <1>1, <1>6, <1>7 DEF Flow
<1>. QED BY <1>6, <1>7, <1>8, <1>9, <1>10, <1>11 DEF IInv

LEMMA SetInterfaceInv == IInv /\ SetInterface => IInv'
<1> SUFFICES ASSUME IInv, SetInterface PROVE IInv'
  OBVIOUS
<1>0. Types /\ InJob(inp) /\ OutJob(out)
  BY DEF IInv
<1>1. /\ unread' = 0 /\ unreported' = 0 /\ owed' = 0 /\ reset' = reset
      /\ udc_num_configuration' = udc_num_configuration /\ udc_num_configuration
  BY DEF SetInterface, Forget
<1>2. PICK keepStall \in BOOLEAN : inp' = Alloc(FreeIn(inp, keepStall))
  BY DEF SetInterface
<1> DEFINE i == FreeIn(inp, keepStall)  o == FreeOut(out)
<1>3. inp' = Alloc(i) /\ out' = RunOut(Alloc(o))
  BY <1>2 DEF SetInterface
<1>4. i \in Endpoint /\ Quiet(i) /\ i.cnt <= i.size
  BY <1>0, InFreed DEF InJob
<1>5. o \in Endpoint /\ Quiet(o) /\ ~o.stall
  BY <1>0, OutFreed DEF OutJob
<1> HIDE DEF i, o
<1>6. InJob(inp') /\ ~inp'.busy /\ InFlow(inp') = 0
  BY <1>3, <1>4, InConfigured
<1>7. OutJob(out') /\ OutFlow(out') = 0 /\ out'.busy /\ Alive(out')
  BY <1>3, <1>5, OutConfigured
<1>8. Types'
  BY <1>0, <1>1 DEF Types
<1>9. Unconfigured' /\ Served' /\ Flow'
  BY <1>1, <1>6, <1>7 DEF Unconfigured, Served, NoOrphanJob, Flow
<1>. QED BY <1>6, <1>7, <1>8, <1>9 DEF IInv

\* What the actions that leave the OUT endpoint alone have to keep.
LEMMA OutKept ==
  ASSUME IInv, UNCHANGED <<udc_num_configuration, reset, out, unreported, owed>>,
         udc_num_configuration \/ Quiet(inp'), unread' \in Int,
         InJob(inp'), ~reset /\ inp'.busy => Alive(inp'),
         ~reset => unread' = InFlow(inp')
  PROVE  IInv'
<1>1. Types' /\ OutJob(out')
  BY DEF IInv, Types
<1>2. Unconfigured' /\ Served' /\ Flow'
  BY DEF IInv, Unconfigured, Served, NoOrphanJob, Flow
<1>. QED BY <1>1, <1>2 DEF IInv

LEMMA SetHaltInInv == IInv /\ SetHaltIn => IInv'
<1> SUFFICES ASSUME IInv, SetHaltIn PROVE IInv'
  OBVIOUS
<1>0. inp \in Endpoint /\ inp.cnt <= inp.size
  BY DEF IInv, InJob
<1>1. inp' = [inp EXCEPT !.busy = FALSE, !.dma = FALSE, !.banks = <<>>, !.stall = TRUE]
  BY <1>0 DEF SetHaltIn, FinishIn, Endpoint
<1>2. <<>> \in Seq(0..EpSize)
  OBVIOUS
<1>3. /\ inp' \in Endpoint /\ inp'.cnt <= inp'.size /\ ~inp'.busy /\ ~inp'.dma
      /\ inp'.banks = <<>>
  BY <1>0, <1>1, <1>2 DEF Endpoint
<1>4. InJob(inp')
  BY <1>3, UsbEndpointsAssumption DEF InJob, Moving
<1>5. InFlow(inp') = 0
  BY <1>3, HeldEmpty DEF InFlow
<1>. QED BY <1>3, <1>4, <1>5, OutKept DEF SetHaltIn

LEMMA ClearHaltInInv == IInv /\ ClearHaltIn => IInv'
<1> SUFFICES ASSUME IInv, ClearHaltIn PROVE IInv'
  OBVIOUS
<1>0. InJob(inp) /\ Types /\ Served /\ Flow
  BY DEF IInv
<1>1. inp' = [inp EXCEPT !.stall = FALSE]
  BY DEF ClearHaltIn
<1>2. /\ inp' \in Endpoint /\ inp'.banks = inp.banks /\ inp'.busy = inp.busy
      /\ inp'.dma = inp.dma /\ inp'.left = inp.left /\ inp'.size = inp.size
      /\ inp'.cnt = inp.cnt /\ inp'.dmaIE = inp.dmaIE /\ inp'.dmaDone = inp.dmaDone
      /\ inp'.enabled = inp.enabled
  BY <1>0, <1>1 DEF InJob, Endpoint
<1>3. InJob(inp')
  BY <1>0, <1>2 DEF InJob, Moving
<1>4. Alive(inp') <=> Alive(inp)
  BY <1>2 DEF Alive, DmaEvent
<1>5. InFlow(inp') = InFlow(inp)
  BY <1>2 DEF InFlow
<1>. QED BY <1>0, <1>2, <1>3, <1>4, <1>5, OutKept DEF ClearHaltIn, Served, NoOrphanJob, Flow, Types

LEMMA ReadMemInv == IInv /\ ReadMem => IInv'
<1> SUFFICES ASSUME IInv, ReadMem PROVE IInv'
  OBVIOUS
<1>0. InJob(inp) /\ Types /\ Served /\ Flow
  BY DEF IInv
<1>1. PICK n \in ReadSizes : /\ inp' = RunIn(inp, n)
                             /\ unread' = IF Refused(inp) THEN unread ELSE unread + n
  BY DEF ReadMem
<1>2. CASE Refused(inp)
  <2>1. inp' = inp /\ unread' = unread
    BY <1>1, <1>2 DEF RunIn
  <2>. QED BY <1>0, <2>1, OutKept DEF ReadMem, Served, NoOrphanJob, Flow, Types
<1>3. CASE ~Refused(inp)
  <2> DEFINE j == NewJob(inp, n)
  <2>1. inp.enabled /\ ~inp.busy /\ ~inp.dma
    BY <1>0, <1>3 DEF Refused, InJob, Moving
  <2>2. n \in Nat
    BY UsbEndpointsAssumption
  <2>3. /\ j \in Endpoint /\ j.cnt = 0 /\ j.size = n /\ j.busy /\ j.enabled
        /\ j.banks = inp.banks
    BY <1>0, <2>1, <2>2 DEF NewJob, InJob, Endpoint
  <2>4. inp' = StartDma(j)
    BY <1>1, <1>3 DEF RunIn
  <2> HIDE DEF j
  <2>5. /\ inp' \in Endpoint /\ inp'.cnt <= inp'.size /\ inp'.size = n
        /\ inp'.cnt = 0 + inp'.left /\ inp'.dma /\ inp'.dmaIE /\ ~inp'.dmaDone
        /\ inp'.busy /\ inp'.enabled /\ inp'.banks = inp.banks
    BY <2>2, <2>3, <2>4, DmaStarts
  <2>6. InJob(inp') /\ Alive(inp')
    BY <1>0, <2>5 DEF InJob, Moving, Alive
  <2>7. unread' = unread + n
    BY <1>1, <1>3
  <2>8. Held(inp.banks) \in Nat
    BY <1>0, Banks DEF InJob
  <2>9. InFlow(inp') = n + Held(inp.banks)
    <3>1. inp'.left \in Nat /\ inp'.cnt \in Nat
      BY <2>5 DEF Endpoint
    <3>2. (inp'.size - inp'.cnt) + inp'.left = n
      BY <2>2, <2>5, <3>1
    <3>. QED BY <2>5, <3>2 DEF InFlow
  <2>10. ~reset => unread' = InFlow(inp')
    <3>1. InFlow(inp) = Held(inp.banks)
      BY <2>1, <2>8 DEF InFlow
    <3>. QED BY <1>0, <2>2, <2>7, <2>8, <2>9, <3>1 DEF Flow, Types
  <2>11. unread' \in Int
    BY <1>0, <2>2, <2>7 DEF Types
  <2>. QED BY <2>6, <2>10, <2>11, OutKept DEF ReadMem
<1>. QED BY <1>2, <1>3

LEMMA EpInterruptInInv == IInv /\ EpInterruptIn => IInv'
<1> SUFFICES ASSUME IInv, EpInterruptIn PROVE IInv'
  OBVIOUS
<1>0. InJob(inp) /\ Types /\ Served /\ Flow /\ Unconfigured
  BY DEF IInv
<1> DEFINE e == [inp EXCEPT !.dmaIE = FALSE, !.dmaDone = FALSE]
<1>1. /\ e \in Endpoint /\ e.banks = inp.banks /\ e.busy = inp.busy /\ e.dma = inp.dma
      /\ e.left = inp.left /\ e.size = inp.size /\ e.cnt = inp.cnt
      /\ e.enabled = inp.enabled /\ ~e.dmaDone
  BY <1>0 DEF InJob, Endpoint
<1>2. inp' = TransDoneIn(e) /\ unread' = unread
  BY DEF EpInterruptIn
<1>3. ~inp.dma
  BY <1>0 DEF EpInterruptIn, DmaEvent, InJob, Moving
<1> HIDE DEF e
<1>4. Held(inp.banks) \in Nat
  BY <1>0, Banks DEF InJob
<1>5. inp.size \in Nat /\ inp.cnt \in Nat /\ inp.cnt <= inp.size
  BY <1>0 DEF InJob, Endpoint
<1>6. CASE ~inp.busy
  <2>1. inp' = e
    BY <1>1, <1>2, <1>6 DEF TransDoneIn
  <2>2. InJob(inp') /\ InFlow(inp') = InFlow(inp)
    BY <1>0, <1>1, <1>3, <2>1 DEF InJob, Moving, InFlow
  <2>3. udc_num_configuration \/ Quiet(inp')
    BY <1>0, <1>1, <2>1 DEF Unconfigured, Quiet
  <2>. QED BY <1>0, <1>1, <1>2, <1>6, <2>1, <2>2, <2>3, OutKept DEF EpInterruptIn, Flow, Types
<1>7. CASE inp.busy /\ inp.cnt # inp.size
  <2>1. inp' = StartDma(e)
    BY <1>1, <1>2, <1>7 DEF TransDoneIn
  <2>2. /\ inp' \in Endpoint /\ inp'.cnt <= inp'.size /\ inp'.size = inp.size
        /\ inp'.cnt = inp.cnt + inp'.left /\ inp'.dma /\ inp'.dmaIE /\ ~inp'.dmaDone
        /\ inp'.busy /\ inp'.enabled = inp.enabled /\ inp'.banks = inp.banks
    BY <1>1, <1>5, <1>7, <2>1, DmaStarts
  <2>3. InJob(inp')
    BY <1>0, <2>2 DEF InJob, Moving
  <2>4. ~reset => Alive(inp')
    BY <1>0, <1>7, <2>2 DEF Served, NoOrphanJob, Alive
  <2>5. InFlow(inp') = InFlow(inp)
    <3>1. inp'.left \in Nat
      BY <2>2 DEF Endpoint
    <3>2. (inp'.size - inp'.cnt) + inp'.left = inp.size - inp.cnt
      BY <1>5, <2>2, <3>1
    <3>. QED BY <1>3, <1>4, <1>5, <1>7, <2>2, <3>2 DEF InFlow
  <2>6. udc_num_configuration
    BY <1>0, <1>7 DEF Unconfigured, Quiet
  <2>. QED BY <1>0, <1>2, <2>3, <2>4, <2>5, <2>6, OutKept DEF EpInterruptIn, Flow, Types
<1>8. CASE inp.busy /\ inp.cnt = inp.size
  <2>1. inp' = [e EXCEPT !.busy = FALSE]
    BY <1>1, <1>2, <1>8 DEF TransDoneIn, FinishIn
  <2>2. /\ inp' \in Endpoint /\ ~inp'.busy /\ ~inp'.dma /\ inp'.banks = inp.banks
        /\ inp'.cnt = inp.cnt /\ inp'.size = inp.size
    BY <1>1, <1>3, <2>1 DEF Endpoint
  <2>3. InJob(inp')
    BY <1>0, <2>2 DEF InJob, Moving
  <2>4. InFlow(inp') = InFlow(inp)
    <3>1. inp.size - inp.cnt = 0
      BY <1>5, <1>8
    <3>. QED BY <1>3, <1>4, <1>8, <2>2, <3>1 DEF InFlow
  <2>5. udc_num_configuration
    BY <1>0, <1>8 DEF Unconfigured, Quiet
  <2>. QED BY <1>0, <1>2, <2>2, <2>3, <2>4, <2>5, OutKept DEF EpInterruptIn, Flow, Types
<1>. QED BY <1>6, <1>7, <1>8

LEMMA DmaInInv == IInv /\ DmaIn => IInv'
<1> SUFFICES ASSUME IInv, DmaIn PROVE IInv'
  OBVIOUS
<1>0. InJob(inp) /\ Types /\ Served /\ Flow /\ Unconfigured
  BY DEF IInv
<1> DEFINE n == Minimum(inp.left, EpSize)
<1>1. /\ inp' = [inp EXCEPT !.banks = Append(inp.banks, n), !.left = inp.left - n,
                            !.dma = (inp.left # n), !.dmaDone = (inp.left = n)]
      /\ unread' = unread /\ inp.dma /\ Len(inp.banks) < NBanks
  BY <1>0 DEF DmaIn, FreeBank, InJob, Endpoint
<1>2. inp.busy /\ inp.dmaIE /\ inp \in Endpoint
  BY <1>0, <1>1 DEF InJob, Moving
<1>3. inp.left \in Nat /\ n \in 0..EpSize /\ n <= inp.left /\ n \in Nat
  BY <1>2, UsbEndpointsAssumption DEF Minimum, Endpoint
<1> HIDE DEF n
<1>4. inp.banks \in Seq(0..EpSize) /\ inp.banks \in Seq(Nat) /\ Held(inp.banks) \in Nat
  BY <1>2, Banks DEF Endpoint
<1>5. /\ Append(inp.banks, n) \in Seq(0..EpSize)
      /\ Len(Append(inp.banks, n)) <= NBanks
  BY <1>1, <1>3, <1>4, UsbEndpointsAssumption
<1>6. /\ inp' \in Endpoint /\ inp'.banks = Append(inp.banks, n) /\ inp'.left = inp.left - n
      /\ (inp'.dma <=> inp.left # n) /\ (inp'.dmaDone <=> inp.left = n)
      /\ inp'.busy /\ inp'.dmaIE /\ inp'.cnt = inp.cnt /\ inp'.size = inp.size
      /\ inp'.enabled = inp.enabled
  <2> DEFINE s == Append(inp.banks, n)  m == inp.left - n
             a == inp.left # n  b == inp.left = n
  <2>1. s \in Seq(0..EpSize) /\ m \in Nat /\ a \in BOOLEAN /\ b \in BOOLEAN
    BY <1>3, <1>5
  <2>2. inp' = [inp EXCEPT !.banks = s, !.left = m, !.dma = a, !.dmaDone = b]
    BY <1>1
  <2>3. (a <=> inp.left # n) /\ (b <=> inp.left = n)
    OBVIOUS
  <2> HIDE DEF s, m, a, b
  <2>4. /\ inp' \in Endpoint /\ inp'.banks = s /\ inp'.left = m
        /\ (inp'.dma <=> a) /\ (inp'.dmaDone <=> b)
        /\ inp'.busy /\ inp'.dmaIE /\ inp'.cnt = inp.cnt /\ inp'.size = inp.size
        /\ inp'.enabled = inp.enabled
    BY <1>2, <2>1, <2>2 DEF Endpoint
  <2>. QED BY <2>3, <2>4 DEF s, m
<1>7. InJob(inp')
  BY <1>0, <1>5, <1>6 DEF InJob, Moving
<1>8. ~reset => Alive(inp')
  BY <1>0, <1>2, <1>6 DEF Served, NoOrphanJob, Alive, DmaEvent
<1>9. InFlow(inp') = InFlow(inp)
  <2>1. Held(inp'.banks) = Held(inp.banks) + n
    BY <1>3, <1>4, <1>6, HeldAppend
  <2>2. (IF inp'.dma THEN inp'.left ELSE 0) = inp.left - n
    BY <1>3, <1>6
  <2>3. inp.size - inp.cnt \in Int
    BY <1>2 DEF Endpoint
  <2>4. InFlow(inp') = (inp.size - inp.cnt) + (inp.left - n) + (Held(inp.banks) + n)
    BY <1>6, <2>1, <2>2 DEF InFlow
  <2>5. InFlow(inp) = (inp.size - inp.cnt) + inp.left + Held(inp.banks)
    BY <1>1, <1>2 DEF InFlow
  <2>. QED BY <1>3, <1>4, <2>3, <2>4, <2>5
<1>10. udc_num_configuration
  BY <1>0, <1>1 DEF Unconfigured, Quiet
<1>. QED BY <1>0, <1>1, <1>7, <1>8, <1>9, <1>10, OutKept DEF DmaIn, Flow, Types

LEMMA HostInInv == IInv /\ HostIn => IInv'
<1> SUFFICES ASSUME IInv, HostIn PROVE IInv'
  OBVIOUS
<1>0. InJob(inp) /\ Types /\ Served /\ Flow /\ Unconfigured
  BY DEF IInv
<1>1. /\ inp' = [inp EXCEPT !.banks = Tail(inp.banks)] /\ inp.banks # <<>>
      /\ unread' = unread - Head(inp.banks) /\ inp.enabled
  BY <1>0 DEF HostIn, Answers, InJob, Endpoint
<1>2. inp.banks \in Seq(0..EpSize) /\ inp.banks \in Seq(Nat) /\ Held(inp.banks) \in Nat
  BY <1>0, Banks DEF InJob, Endpoint
<1>3. /\ Tail(inp.banks) \in Seq(0..EpSize) /\ Len(Tail(inp.banks)) <= Len(inp.banks)
      /\ Head(inp.banks) \in Nat
  <2>1. \A k \in 0..EpSize : k \in Nat
    OBVIOUS
  <2>. QED BY <1>1, <1>2, <2>1, FrontPacket
<1>4. /\ inp' \in Endpoint /\ inp'.banks = Tail(inp.banks) /\ inp'.busy = inp.busy
      /\ inp'.dma = inp.dma /\ inp'.left = inp.left /\ inp'.size = inp.size
      /\ inp'.cnt = inp.cnt /\ inp'.dmaIE = inp.dmaIE /\ inp'.dmaDone = inp.dmaDone
      /\ inp'.enabled = inp.enabled
  BY <1>0, <1>1, <1>3 DEF InJob, Endpoint
<1>5. InJob(inp')
  <2>1. Len(inp.banks) \in Nat /\ Len(Tail(inp.banks)) \in Nat /\ Len(inp.banks) <= NBanks
    BY <1>0, <1>1, <1>2 DEF InJob
  <2>. QED BY <1>0, <1>3, <1>4, <2>1, UsbEndpointsAssumption DEF InJob, Moving
<1>6. Alive(inp') <=> Alive(inp)
  BY <1>4 DEF Alive, DmaEvent
<1>7. InFlow(inp') = InFlow(inp) - Head(inp.banks)
  <2> DEFINE a == IF inp.busy THEN inp.size - inp.cnt ELSE 0
             b == IF inp.dma THEN inp.left ELSE 0
  <2>1. Held(inp'.banks) = Held(inp.banks) - Head(inp.banks)
    BY <1>1, <1>2, <1>4, HeldTail
  <2>2. a \in Int /\ b \in Int
    BY <1>0 DEF InJob, Endpoint
  <2>3. InFlow(inp') = a + b + Held(inp'.banks) /\ InFlow(inp) = a + b + Held(inp.banks)
    BY <1>4 DEF InFlow
  <2> HIDE DEF a, b
  <2>. QED BY <1>2, <1>3, <2>1, <2>2, <2>3
<1>8. udc_num_configuration
  BY <1>0, <1>1 DEF Unconfigured, Quiet
<1>9. unread' \in Int
  BY <1>0, <1>1, <1>3 DEF Types
<1>. QED BY <1>0, <1>1, <1>4, <1>5, <1>6, <1>7, <1>8, <1>9, OutKept
         DEF HostIn, Flow, Served, NoOrphanJob

\* What the actions that leave the IN endpoint alone have to keep.
LEMMA InKept ==
  ASSUME IInv, UNCHANGED <<udc_num_configuration, reset, inp, unread>>,
         udc_num_configuration \/ Quiet(out'), unreported' \in Int, owed' \in Nat,
         OutJob(out'),
         ~reset => /\ out'.busy => Alive(out')
                   /\ udc_num_configuration => out'.busy
                   /\ unreported' = OutFlow(out')
  PROVE  IInv'
<1>1. Types' /\ InJob(inp')
  BY DEF IInv, Types
<1>2. Unconfigured' /\ Served' /\ Flow'
  BY DEF IInv, Unconfigured, Served, NoOrphanJob, Flow
<1>. QED BY <1>1, <1>2 DEF IInv

LEMMA SetHaltOutInv == IInv /\ SetHaltOut => IInv'
<1> SUFFICES ASSUME IInv, SetHaltOut PROVE IInv'
  OBVIOUS
<1>0. OutJob(out) /\ Served
  BY DEF IInv
<1> DEFINE e == [out EXCEPT !.dma = FALSE]
<1>1. /\ out' = FinishOut(e) /\ unreported' = Held(out.banks) /\ owed' = 0
      /\ udc_num_configuration /\ ~reset
  BY DEF SetHaltOut
<1>2. out.busy /\ out.enabled /\ ~out.stall
  BY <1>0, <1>1 DEF Served, NoOrphanJob, Alive, OutJob
<1>3. e \in Endpoint /\ e.busy /\ e.enabled /\ ~e.stall /\ e.banks = out.banks
  BY <1>0, <1>2 DEF OutJob, Endpoint
<1> HIDE DEF e
<1>4. FullJob(e, out')
  BY <1>1, <1>3, OutRunsAgain
<1>5. Len(e.banks) <= NBanks
  BY <1>0, <1>3 DEF OutJob
<1>6. /\ OutJob(out') /\ out'.busy /\ Alive(out')
      /\ OutFlow(out') = Held(out'.banks)
  BY <1>4, <1>5, FullJobFits
<1>7. out'.banks = out.banks
  BY <1>3, <1>4 DEF FullJob
<1>8. Held(out.banks) \in Nat
  BY <1>0, Banks DEF OutJob
<1>9. unreported' = OutFlow(out') /\ unreported' \in Int
  BY <1>1, <1>6, <1>7, <1>8
<1>. QED BY <1>1, <1>6, <1>9, InKept DEF SetHaltOut

\* What an interrupt that ends a transfer makes of the job.
LEMMA Transferred ==
  ASSUME NEW d \in Endpoint, d.left <= d.cnt, d.cnt = d.size
  PROVE  LET e == NotTransferred(d)
         IN  /\ e \in Endpoint /\ e.size = d.cnt - d.left
             /\ e.banks = d.banks /\ e.busy = d.busy /\ e.enabled = d.enabled
             /\ e.stall = d.stall /\ e.dma = d.dma /\ e.dmaDone = d.dmaDone
<1>1. d.left \in Nat /\ d.cnt \in Nat /\ d.size \in Nat
  BY DEF Endpoint
<1>2. CASE d.left = 0
  <2>1. NotTransferred(d) = d /\ d.size = d.cnt - d.left
    BY <1>1, <1>2 DEF NotTransferred
  <2>. QED BY <2>1
<1>3. CASE d.left # 0
  <2> DEFINE m == d.cnt - d.left
  <2>1. m \in Nat
    BY <1>1
  <2>2. NotTransferred(d) = [d EXCEPT !.cnt = m, !.size = m]
    BY <1>3 DEF NotTransferred, Endpoint
  <2> HIDE DEF m
  <2>3. LET e == NotTransferred(d)
        IN  /\ e \in Endpoint /\ e.size = m
            /\ e.banks = d.banks /\ e.busy = d.busy /\ e.enabled = d.enabled
            /\ e.stall = d.stall /\ e.dma = d.dma /\ e.dmaDone = d.dmaDone
    BY <2>1, <2>2 DEF Endpoint
  <2>. QED BY <2>3 DEF m
<1>. QED BY <1>2, <1>3

LEMMA EpInterruptOutInv == IInv /\ EpInterruptOut => IInv'
<1> SUFFICES ASSUME IInv, EpInterruptOut PROVE IInv'
  OBVIOUS
<1>0. OutJob(out) /\ Types /\ Served /\ Flow /\ Unconfigured
  BY DEF IInv
<1> DEFINE d == [out EXCEPT !.dmaIE = FALSE, !.dmaDone = FALSE]
           e == NotTransferred(d)
<1>1. /\ out' = FinishOut(e)
      /\ unreported' = IF e.busy THEN unreported - e.size ELSE unreported
      /\ owed' = IF e.busy THEN Maximum(owed - e.size, 0) ELSE owed
  BY DEF EpInterruptOut
<1>2. out \in Endpoint /\ out.dmaDone /\ ~out.dma /\ out.left <= out.cnt /\ out.cnt = out.size
  BY <1>0 DEF EpInterruptOut, DmaEvent, OutJob, Moving
<1>3. /\ d \in Endpoint /\ d.left = out.left /\ d.cnt = out.cnt /\ d.size = out.size
      /\ d.banks = out.banks /\ d.busy = out.busy /\ d.enabled = out.enabled
      /\ ~d.stall /\ ~d.dma /\ ~d.dmaDone
  BY <1>0, <1>2 DEF Endpoint, OutJob
<1> HIDE DEF d
<1>4. /\ e \in Endpoint /\ e.size = out.cnt - out.left
      /\ e.banks = out.banks /\ e.busy = out.busy /\ e.enabled = out.enabled
      /\ ~e.stall /\ ~e.dma /\ ~e.dmaDone
  BY <1>2, <1>3, Transferred
<1> HIDE DEF e
<1>5. Held(out.banks) \in Nat /\ Len(e.banks) <= NBanks /\ e.size \in Nat
  BY <1>0, <1>2, <1>4, Banks DEF OutJob, Endpoint
<1>6. unreported' \in Int /\ owed' \in Nat
  BY <1>0, <1>1, <1>5 DEF Types, Maximum
<1>7. CASE out.busy /\ out.enabled
  <2>1. FullJob(e, out')
    BY <1>1, <1>4, <1>7, OutRunsAgain
  <2>2. OutJob(out') /\ out'.busy /\ Alive(out') /\ OutFlow(out') = Held(out'.banks)
    BY <1>5, <2>1, FullJobFits
  <2>3. OutFlow(out') = Held(out.banks)
    BY <1>4, <2>1, <2>2 DEF FullJob
  <2>4. ~reset => unreported' = OutFlow(out')
    <3>1. OutFlow(out) = e.size + Held(out.banks)
      BY <1>4, <1>7 DEF OutFlow
    <3>. QED BY <1>0, <1>1, <1>4, <1>5, <1>7, <2>3, <3>1 DEF Flow
  <2>5. udc_num_configuration
    BY <1>0, <1>7 DEF Unconfigured, Quiet
  <2>. QED BY <1>6, <2>2, <2>4, <2>5, InKept DEF EpInterruptOut
<1>8. CASE out.busy /\ ~out.enabled
  <2>1. out' = [e EXCEPT !.busy = FALSE]
    BY <1>1, <1>4, <1>8, OutStops
  <2>2. /\ out' \in Endpoint /\ ~out'.busy /\ ~out'.dma /\ ~out'.dmaDone /\ ~out'.stall
        /\ out'.banks = out.banks
    BY <1>4, <2>1 DEF Endpoint
  <2>3. OutJob(out')
    BY <1>0, <2>2 DEF OutJob, Moving
  <2>4. reset /\ udc_num_configuration
    BY <1>0, <1>8 DEF Served, NoOrphanJob, Alive, Unconfigured, Quiet
  <2>. QED BY <1>6, <2>3, <2>4, InKept DEF EpInterruptOut
<1>9. CASE ~out.busy
  <2>1. out' = e
    BY <1>1, <1>4, <1>9 DEF FinishOut
  <2>2. OutJob(out') /\ ~out'.busy
    BY <1>0, <1>4, <1>9, <2>1 DEF OutJob, Moving
  <2>3. OutFlow(out') = OutFlow(out) /\ unreported' = unreported
    BY <1>1, <1>4, <1>9, <2>1 DEF OutFlow
  <2>4. udc_num_configuration \/ Quiet(out')
    BY <1>0, <1>4, <2>1 DEF Unconfigured, Quiet
  <2>5. ~reset => ~udc_num_configuration
    BY <1>0, <1>9 DEF Served
  <2>. QED BY <1>0, <1>6, <2>2, <2>3, <2>4, <2>5, InKept DEF EpInterruptOut, Flow
<1>. QED BY <1>7, <1>8, <1>9

LEMMA DmaOutInv == IInv /\ DmaOut => IInv'
<1> SUFFICES ASSUME IInv, DmaOut PROVE IInv'
  OBVIOUS
<1>0. OutJob(out) /\ Types /\ Served /\ Flow /\ Unconfigured
  BY DEF IInv
<1> DEFINE n == Head(out.banks)  s == Tail(out.banks)  m == out.left - n
           ends == out.left = n \/ n < EpSize  moves == ~ends
<1>1. /\ out' = [out EXCEPT !.banks = s, !.left = m, !.dma = moves, !.dmaDone = ends]
      /\ out.dma /\ out.banks # <<>>
      /\ unreported' = unreported /\ owed' = owed
  BY <1>0 DEF DmaOut, OutJob, Endpoint
<1>2. /\ out \in Endpoint /\ out.busy /\ out.dmaIE /\ ~out.stall /\ Len(out.banks) <= NBanks
      /\ out.left <= out.cnt /\ out.cnt = out.size /\ out.left % EpSize = 0 /\ out.left # 0
  BY <1>0, <1>1 DEF OutJob, Moving
<1>3. /\ out.banks \in Seq(0..EpSize) /\ out.banks \in Seq(Nat)
      /\ Held(out.banks) \in Nat /\ out.left \in Nat /\ out.cnt \in Nat
  BY <1>2, Banks DEF Endpoint
<1>4. s \in Seq(0..EpSize) /\ Len(s) \in Nat /\ Len(s) <= Len(out.banks) /\ n \in 0..EpSize
  BY <1>1, <1>3, FrontPacket
<1>5. Held(s) = Held(out.banks) - n
  BY <1>1, <1>3, HeldTail
<1>6. EpSize \in Nat \ {0} /\ out.left >= EpSize /\ (out.left - EpSize) % EpSize = 0
  BY <1>2, <1>3, UsbEndpointsAssumption, WholePackets
<1>7. moves \in BOOLEAN /\ ends \in BOOLEAN /\ (moves <=> ~ends)
  OBVIOUS
<1>8. /\ n \in Nat /\ m \in Nat /\ m <= out.cnt /\ m = out.left - n
      /\ moves => n = EpSize /\ m # 0
  <2>1. \A E, l, c \in Nat : \A k \in 0..E :
          l >= E /\ l <= c =>
            /\ k \in Nat /\ l - k \in Nat /\ l - k <= c
            /\ ~(l = k \/ k < E) => (k = E /\ l - k # 0)
    OBVIOUS
  <2>2. out.left <= out.cnt /\ EpSize \in Nat /\ out.left >= EpSize
    BY <1>2, <1>6
  <2>3. /\ n \in Nat /\ out.left - n \in Nat /\ out.left - n <= out.cnt
        /\ ~(out.left = n \/ n < EpSize) => n = EpSize /\ out.left - n # 0
    <3> HIDE DEF n
    <3>. QED BY <1>3, <1>4, <2>1, <2>2
  <2>. QED BY <2>3
<1>9. moves => m % EpSize = 0
  BY <1>6, <1>8
<1> HIDE DEF n, s, m, ends, moves
<1>10. /\ out' \in Endpoint /\ out'.banks = s /\ out'.left = m
       /\ (out'.dma <=> moves) /\ (out'.dmaDone <=> ends)
       /\ out'.busy /\ out'.dmaIE /\ out'.cnt = out.cnt /\ out'.size = out.size
       /\ out'.enabled = out.enabled /\ ~out'.stall
  BY <1>1, <1>2, <1>4, <1>7, <1>8 DEF Endpoint
<1>11. Len(out'.banks) <= NBanks
  <2>1. Len(out.banks) \in Nat
    BY <1>3
  <2>. QED BY <1>2, <1>4, <1>10, <2>1, UsbEndpointsAssumption
<1>12. OutJob(out')
  BY <1>2, <1>7, <1>8, <1>9, <1>10, <1>11 DEF OutJob, Moving
<1>13. ~reset => Alive(out')
  BY <1>0, <1>2, <1>7, <1>10 DEF Served, NoOrphanJob, Alive, DmaEvent
<1>14. OutFlow(out') = OutFlow(out)
  <2>1. OutFlow(out') = (out.cnt - m) + (Held(out.banks) - n)
    BY <1>5, <1>10 DEF OutFlow
  <2>2. OutFlow(out) = (out.cnt - out.left) + Held(out.banks)
    BY <1>2 DEF OutFlow
  <2>. QED BY <1>3, <1>8, <2>1, <2>2
<1>15. udc_num_configuration
  BY <1>0, <1>1 DEF Unconfigured, Quiet
<1>. QED BY <1>0, <1>1, <1>10, <1>12, <1>13, <1>14, <1>15, InKept DEF DmaOut, Flow, Types

LEMMA HostOutInv == IInv /\ HostOut => IInv'
<1> SUFFICES ASSUME IInv, HostOut PROVE IInv'
  OBVIOUS
<1>0. OutJob(out) /\ Types /\ Served /\ Flow /\ Unconfigured
  BY DEF IInv
<1>1. PICK n \in 1..EpSize :
        /\ out' = [out EXCEPT !.banks = Append(out.banks, n)]
        /\ unreported' = unreported + n
        /\ owed' = IF n < EpSize /\ owed = 0 THEN unreported + n ELSE owed
  BY <1>0 DEF HostOut, OutJob, Endpoint
<1>2. ~reset /\ out.enabled /\ Len(out.banks) < NBanks
  BY DEF HostOut, Answers, FreeBank
<1>3. /\ out \in Endpoint /\ out.banks \in Seq(0..EpSize) /\ out.banks \in Seq(Nat)
      /\ Held(out.banks) \in Nat
  BY <1>0, Banks DEF OutJob, Endpoint
<1>4. n \in Nat /\ n \in 0..EpSize
  BY UsbEndpointsAssumption
<1> DEFINE s == Append(out.banks, n)
<1>5. s \in Seq(0..EpSize) /\ Len(s) <= NBanks
  BY <1>2, <1>3, <1>4, UsbEndpointsAssumption
<1>6. Held(s) = Held(out.banks) + n
  BY <1>3, <1>4, HeldAppend
<1>7. out' = [out EXCEPT !.banks = s]
  BY <1>1
<1> HIDE DEF s
<1>8. /\ out' \in Endpoint /\ out'.banks = s /\ out'.busy = out.busy
      /\ out'.dma = out.dma /\ out'.left = out.left /\ out'.size = out.size
      /\ out'.cnt = out.cnt /\ out'.dmaIE = out.dmaIE /\ out'.dmaDone = out.dmaDone
      /\ out'.enabled = out.enabled /\ out'.stall = out.stall
  BY <1>3, <1>5, <1>7 DEF Endpoint
<1>9. OutJob(out')
  BY <1>0, <1>5, <1>8 DEF OutJob, Moving
<1>10. Alive(out') <=> Alive(out)
  BY <1>8 DEF Alive, DmaEvent
<1>11. OutFlow(out') = OutFlow(out) + n /\ OutFlow(out) \in Nat
  <2> DEFINE a == IF out.busy THEN out.cnt - out.left ELSE 0
  <2>1. a \in Nat
    BY <1>0, <1>3 DEF OutJob, Endpoint
  <2>2. OutFlow(out') = a + Held(s) /\ OutFlow(out) = a + Held(out.banks)
    BY <1>8 DEF OutFlow
  <2> HIDE DEF a
  <2>. QED BY <1>3, <1>4, <1>6, <2>1, <2>2
<1>12. unreported' \in Int /\ owed' \in Nat
  BY <1>0, <1>1, <1>2, <1>4, <1>11 DEF Types, Flow
<1>13. udc_num_configuration
  BY <1>0, <1>2 DEF Unconfigured, Quiet
<1>. QED BY <1>0, <1>1, <1>8, <1>9, <1>10, <1>11, <1>12, <1>13, InKept
         DEF HostOut, Flow, Served, NoOrphanJob

LEMMA ResetInterruptInv == IInv /\ ResetInterrupt => IInv'
<1> SUFFICES ASSUME IInv, ResetInterrupt PROVE IInv'
  OBVIOUS
<1>0. InJob(inp) /\ OutJob(out) /\ Types /\ Unconfigured
  BY DEF IInv
<1> DEFINE i == FinishIn(inp)  o == FinishOut(out)
<1>1. PICK keepStall \in BOOLEAN :
        inp' = IF udc_num_configuration THEN FreeIn(i, keepStall) ELSE i
  BY DEF ResetInterrupt
<1>2. /\ out' = IF udc_num_configuration THEN FreeOut(o) ELSE o
      /\ reset' = FALSE /\ udc_num_configuration' = FALSE
      /\ unread' = 0 /\ unreported' = 0 /\ owed' = 0
  BY DEF ResetInterrupt, Forget
<1>3. /\ i \in Endpoint /\ i.cnt <= i.size
      /\ ~udc_num_configuration => Quiet(i)
  BY <1>0 DEF FinishIn, InJob, Endpoint, Unconfigured, Quiet
<1>4. /\ o \in Endpoint /\ ~o.stall
      /\ o.dmaDone => o.left <= o.cnt /\ o.cnt = o.size
      /\ ~udc_num_configuration => Quiet(o)
  <2>1. CASE out.busy /\ out.enabled
    <3>1. FullJob(out, o)
      BY <1>0, <2>1, OutRunsAgain DEF OutJob
    <3>2. udc_num_configuration
      BY <1>0, <2>1 DEF Unconfigured, Quiet
    <3>. QED BY <3>1, <3>2 DEF FullJob
  <2>2. CASE out.busy /\ ~out.enabled
    <3>1. o = [out EXCEPT !.busy = FALSE]
      BY <1>0, <2>2, OutStops DEF OutJob
    <3>2. udc_num_configuration
      BY <1>0, <2>2 DEF Unconfigured, Quiet
    <3> HIDE DEF o
    <3>. QED BY <1>0, <2>2, <3>1, <3>2 DEF OutJob, Endpoint
  <2>3. CASE ~out.busy
    <3>1. o = out
      BY <2>3 DEF FinishOut
    <3>. QED BY <1>0, <3>1 DEF OutJob, Unconfigured
  <2>. QED BY <2>1, <2>2, <2>3
<1> HIDE DEF i, o
<1>6. inp' \in Endpoint /\ Quiet(inp') /\ inp'.cnt <= inp'.size
  BY <1>1, <1>3, InFreed
<1>7. /\ out' \in Endpoint /\ Quiet(out') /\ ~out'.stall
      /\ out'.dmaDone => out'.left <= out'.cnt /\ out'.cnt = out'.size
  BY <1>2, <1>4, OutFreed
<1>8. InJob(inp') /\ OutJob(out') /\ InFlow(inp') = 0 /\ OutFlow(out') = 0
  BY <1>6, <1>7, QuietIn, QuietOut, QuietFlow
<1>9. Types'
  <2>1. reset' \in BOOLEAN /\ udc_num_configuration' \in BOOLEAN
    BY <1>2
  <2>. QED BY <1>2, <2>1 DEF Types
<1>10. Unconfigured' /\ Served' /\ Flow'
  BY <1>2, <1>6, <1>7, <1>8 DEF Unconfigured, Served, NoOrphanJob, Quiet, Flow
<1>. QED BY <1>8, <1>9, <1>10 DEF IInv

LEMMA BusResetInv == IInv /\ BusReset => IInv'
<1> SUFFICES ASSUME IInv, BusReset PROVE IInv'
  OBVIOUS
<1>0. InJob(inp) /\ OutJob(out) /\ Types /\ Unconfigured
  BY DEF IInv
<1>1. reset' = TRUE /\ udc_num_configuration' = udc_num_configuration
  BY DEF BusReset
<1>2. Types' /\ Served' /\ Flow'
  <2>1. \/ unread' = 0 /\ unreported' = 0 /\ owed' = 0
        \/ unread' = unread /\ unreported' = unreported /\ owed' = owed
    BY DEF BusReset, Forget
  <2>2. Types'
    BY <1>0, <1>1, <2>1 DEF Types
  <2>. QED BY <1>1, <2>2 DEF Served, Flow
<1>3. CASE UNCHANGED <<inp, out>>
  BY <1>0, <1>1, <1>2, <1>3 DEF IInv, Unconfigured
<1>4. CASE inp' = Disabled(inp, FALSE) /\ out' = Disabled(out, FALSE)
  <2>1. /\ inp' \in Endpoint /\ inp'.banks = <<>> /\ ~inp'.dma /\ ~inp'.enabled
        /\ inp'.cnt = inp.cnt /\ inp'.size = inp.size /\ inp'.busy = inp.busy
    BY <1>0, <1>4, IsDisabled DEF InJob
  <2>2. /\ out' \in Endpoint /\ out'.banks = <<>> /\ ~out'.dma /\ ~out'.enabled /\ ~out'.stall
        /\ out'.cnt = out.cnt /\ out'.size = out.size /\ out'.busy = out.busy
        /\ out'.left = out.left /\ out'.dmaDone = out.dmaDone
    BY <1>0, <1>4, IsDisabled DEF OutJob
  <2>3. Len(<<>>) <= NBanks
    BY UsbEndpointsAssumption
  <2>4. InJob(inp')
    BY <1>0, <2>1, <2>3 DEF InJob, Moving
  <2>5. OutJob(out')
    BY <1>0, <2>2, <2>3 DEF OutJob, Moving
  <2>6. Unconfigured'
    BY <1>0, <1>1, <2>1, <2>2 DEF Unconfigured, Quiet
  <2>. QED BY <1>2, <2>4, <2>5, <2>6 DEF IInv
<1>. QED BY <1>3, <1>4 DEF BusReset

\* No step of the endpoints, the bus or the host breaks the invariant.
LEMMA NextInv == IInv /\ [Next]_vars => IInv'
<1> SUFFICES ASSUME IInv, [Next]_vars PROVE IInv'
  OBVIOUS
<1>1. CASE UNCHANGED vars
  BY <1>1 DEF vars, IInv, Types, Unconfigured, Served, NoOrphanJob, Flow
<1>2. CASE Next
  <2>1. \/ SetConfiguration \/ SetInterface
        \/ SetHaltIn \/ SetHaltOut \/ ClearHaltIn \/ ReadMem
        \/ EpInterruptIn \/ EpInterruptOut \/ ResetInterrupt
        \/ DmaIn \/ DmaOut \/ HostIn \/ HostOut \/ BusReset
    BY <1>2 DEF Next
  <2>. QED BY <2>1, SetConfigurationInv, SetInterfaceInv, SetHaltInInv, SetHaltOutInv,
              ClearHaltInInv, ReadMemInv, EpInterruptInInv, EpInterruptOutInv,
              ResetInterruptInv, DmaInInv, DmaOutInv, HostInInv, HostOutInv, BusResetInv
<1>. QED BY <1>1, <1>2

LEMMA Inductive == Spec => []IInv
<1>. QED BY InitInv, NextInv, PTL DEF Spec

(***************************************************************************)
(* What the bulk callback is told is what arrived and a read sends what    *)
(* was asked for (udd_ep_trans_done(), nb_remaining in udd_ep_interrupt()):*)
(* every unit is in a bank or in the job, none twice and none lost.        *)
(***************************************************************************)
THEOREM NoUnitLost == Spec => []NothingLost
<1>1. IInv => NothingLost
  BY DEF IInv, Flow, NothingLost, InFlow, OutFlow
<1>. QED BY <1>1, Inductive, PTL

(***************************************************************************)
(* A configured device always listens on its OUT endpoint (usb.c:466-480), *)
(* no job is left without what will finish it, an unconfigured device has  *)
(* no endpoint enabled, and every variable keeps its type: nothing is sent *)
(* or reported that is not there.                                          *)
(***************************************************************************)
THEOREM AlwaysListening == Spec => []OutEndpointServed
<1>1. IInv => OutEndpointServed
  <2> SUFFICES ASSUME IInv, ~reset PROVE OutEndpointServed
    BY DEF OutEndpointServed
  <2>1. InFlow(inp) \in Nat
    <3>1. Held(inp.banks) \in Nat
      BY Banks DEF IInv, InJob
    <3>2. (IF inp.busy THEN inp.size - inp.cnt ELSE 0) \in Nat
      BY DEF IInv, InJob, Endpoint
    <3>3. (IF inp.dma THEN inp.left ELSE 0) \in Nat
      BY DEF IInv, InJob, Endpoint
    <3>. QED BY <3>1, <3>2, <3>3 DEF InFlow
  <2>2. OutFlow(out) \in Nat
    <3>1. Held(out.banks) \in Nat
      BY Banks DEF IInv, OutJob
    <3>2. (IF out.busy THEN out.cnt - out.left ELSE 0) \in Nat
      BY DEF IInv, OutJob, Endpoint
    <3>. QED BY <3>1, <3>2 DEF OutFlow
  <2>3. TypeOK
    BY <2>1, <2>2 DEF IInv, Types, InJob, OutJob, Flow, TypeOK
  <2>4. NoOrphanJob /\ (udc_num_configuration => out.busy)
    BY DEF IInv, Served
  <2>5. ~udc_num_configuration => ~out.enabled /\ ~inp.enabled
    BY DEF IInv, Unconfigured, Quiet
  <2>. QED BY <2>3, <2>4, <2>5 DEF OutEndpointServed
<1>. QED BY <1>1, Inductive, PTL
=============================================================================
