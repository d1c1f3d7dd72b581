---------------------------- MODULE SniffFifoProofs ----------------------------
(***************************************************************************)
(* Proofs about SniffFifo, for captures of any length, FIFOs of any depth  *)
(* with a threshold below it, bursts of any size and any latency of the    *)
(* FIFO's empty flag.  IInv numbers the entries through from the host to   *)
(* the write port as long as none is refused; Warning, on top of it, races *)
(* the flag of a refused entry against what is stored behind it.           *)
(***************************************************************************)
EXTENDS SniffFifo, TLAPS

---------------------------------------------------------------------------
(* The invariant.                                                          *)

One(b) == IF b THEN 1 ELSE 0

Entry(n) == [entry : 0 .. n, age : 0 .. FIFO_LATENCY]

\* The types, of what TypeOK leaves out too.
Types ==
  /\ setup \in Setups
  /\ count \in Nat /\ din \in 0 .. CAPTURE_LEN + 2 /\ dout \in 0 .. CAPTURE_LEN + 2
  /\ fifo \in Seq(Entry(CAPTURE_LEN + 2))
  /\ left \in 0 .. BURST /\ bytecnt \in 0 .. 3
  /\ reg_arm \in BOOLEAN /\ reg_arm_r \in BOOLEAN /\ flushing \in BOOLEAN
  /\ empty_r \in BOOLEAN /\ empty_fifo_read \in BOOLEAN /\ rd_dly \in BOOLEAN
  /\ finished \in BOOLEAN /\ warned \in BOOLEAN /\ lost \in BOOLEAN
  /\ overflow_blocked \in BOOLEAN /\ prog_full \in BOOLEAN
  /\ enable \in BOOLEAN /\ started \in BOOLEAN
  /\ in_data \in BOOLEAN /\ data_wr \in BOOLEAN /\ wr_en \in BOOLEAN

\* What is on its way to the FIFO counts too.
CountInv == count + One(data_wr) + One(in_data) <= CAPTURE_LEN + 2

\* The threshold keeps a place for the write that was let through with it.
Room ==
  /\ ~prog_full => Len(fifo) < THRESHOLD
  /\ wr_en => Len(fifo) < DEPTH

\* A read in progress is one of a burst, and bursts are of whole entries.
Burst == (rd_dly => left > 0) /\ (left = 0 => bytecnt = 0)

\* Before the capture begins there are only leftovers, and nothing to read.
HasHand == ~empty_fifo_read /\ (bytecnt \in {1, 2} \/ (bytecnt = 0 /\ rd_dly))
Idle ==
  ~started =>
    /\ ~enable /\ ~in_data /\ ~data_wr /\ ~wr_en /\ count = 0
    /\ \A i \in 1 .. Len(fifo) : fifo[i].age = FIFO_LATENCY
    /\ got = <<>> /\ ~HasHand
    /\ ~finished \/ left > 0 => reg_arm

\* The flush is over before the capture begins or the host reads; while ARM is up
\* after it, the reader sees nothing.
Armed ==
  /\ flushing => reg_arm /\ reg_arm_r /\ ~started /\ left = 0
  /\ reg_arm /\ started => reg_arm_r /\ sniff_fifo_empty
  /\ reg_arm /\ reg_arm_r /\ ~flushing /\ ~started => fifo = <<>>
  /\ left > 0 /\ reg_arm => reg_arm_r

\* Last cycle's empty flag is good enough between reads.
Shown == ~empty_r /\ ~rd_dly /\ ~flushing => ~sniff_fifo_empty

\* The first byte received is of the entry in hand.
FirstByte == ~empty_fifo_read /\ bytecnt \in {1, 2} => first_byte = dout

\* The entries are numbered through: received, in hand, stored, being written.
Chain ==
  ~lost =>
    /\ got \in Seq(Nat) /\ \A i \in 1 .. Len(got) : got[i] = i
    /\ HasHand => dout = Len(got) + 1
    /\ started => /\ \A i \in 1 .. Len(fifo) : fifo[i].entry = Len(got) + One(HasHand) + i
                  /\ Len(got) + One(HasHand) + Len(fifo) + One(wr_en) = count
    /\ wr_en => din = count

IInv ==
  /\ Types /\ CountInv /\ Room /\ Burst /\ Idle /\ Armed /\ Shown /\ FirstByte /\ Chain

---------------------------------------------------------------------------
(* The FIFO.                                                               *)

\* What the reader sees of a FIFO.
Hidden(s) == s = <<>> \/ Head(s).age < FIFO_LATENCY

LEMMA SetupFacts ==
  ASSUME Types
  PROVE  /\ CAPTURE_LEN \in Nat \ {0} /\ DEPTH \in Nat /\ BURST \in Nat \ {0}
         /\ THRESHOLD \in 1 .. DEPTH /\ THRESHOLD < DEPTH
<1>1. setup \in Setups
  BY DEF Types
<1>2. /\ setup.len \in Nat \ {0} /\ setup.burst \in Nat \ {0}
      /\ setup.depth \in Nat /\ setup.threshold \in 1 .. (setup.depth - 1)
  BY <1>1, SniffFifoAssumption
<1>. QED BY <1>2 DEF CAPTURE_LEN, DEPTH, BURST, THRESHOLD

LEMMA OlderFifo ==
  ASSUME NEW n \in Nat, NEW s \in Seq(Entry(n))
  PROVE  /\ Older(s) \in Seq(Entry(n)) /\ Len(Older(s)) = Len(s)
         /\ \A i \in 1 .. Len(s) :
              /\ Older(s)[i].entry = s[i].entry
              /\ Older(s)[i].age = IF s[i].age < FIFO_LATENCY THEN s[i].age + 1 ELSE s[i].age
<1> DEFINE g(i) == [s[i] EXCEPT !.age = IF @ < FIFO_LATENCY THEN @ + 1 ELSE @]
<1>1. Older(s) = [i \in 1 .. Len(s) |-> g(i)]
  BY DEF Older
<1>2. ASSUME NEW i \in 1 .. Len(s)
      PROVE  /\ g(i) \in Entry(n) /\ g(i).entry = s[i].entry
             /\ g(i).age = IF s[i].age < FIFO_LATENCY THEN s[i].age + 1 ELSE s[i].age
  <2> DEFINE e == s[i]  a == IF e.age < FIFO_LATENCY THEN e.age + 1 ELSE e.age
  <2>1. e \in Entry(n)
    OBVIOUS
  <2>2. a \in 0 .. FIFO_LATENCY
    BY <2>1, SniffFifoAssumption DEF Entry
  <2>3. g(i) = [e EXCEPT !.age = a]
    BY <2>1 DEF Entry
  <2> HIDE DEF e, a
  <2>4. [e EXCEPT !.age = a] \in Entry(n) /\ [e EXCEPT !.age = a].entry = e.entry
        /\ [e EXCEPT !.age = a].age = a
    BY <2>1, <2>2 DEF Entry
  <2> HIDE DEF g
  <2>. QED BY <2>3, <2>4 DEF e, a
<1> HIDE DEF g
<1>. QED BY <1>1, <1>2

\* What the reader sees stays when entries grow older or are added; what is too
\* young is not seen yet.
LEMMA HiddenOlder ==
  ASSUME NEW n \in Nat, NEW s \in Seq(Entry(n))
  PROVE  /\ ~Hidden(s) => ~Hidden(Older(s))
         /\ (s # <<>> => Head(s).age + 1 < FIFO_LATENCY) => Hidden(Older(s))
<1>1. CASE s = <<>>
  <2>1. \A A : \A t \in Seq(A) : Len(t) = 0 => t = <<>>
    OBVIOUS
  <2>2. Older(s) \in Seq(Entry(n)) /\ Len(Older(s)) = 0
    BY <1>1, OlderFifo
  <2>3. Older(s) = <<>>
    BY <2>1, <2>2, Zenon
  <2>. QED BY <1>1, <2>3 DEF Hidden
<1>2. CASE s # <<>>
  <2>1. 1 \in 1 .. Len(s) /\ Head(s) = s[1] /\ s[1] \in Entry(n)
    BY <1>2
  <2>2. Older(s) # <<>> /\ Head(Older(s)) = Older(s)[1]
    BY <1>2, OlderFifo
  <2>3. s[1].age \in Nat /\ FIFO_LATENCY \in Nat
    BY <2>1, SniffFifoAssumption DEF Entry
  <2>. QED BY <1>2, <2>1, <2>2, <2>3, OlderFifo DEF Hidden
<1>. QED BY <1>1, <1>2

LEMMA SeqAppend ==
  ASSUME NEW A, NEW t \in Seq(A), NEW y \in A
  PROVE  /\ Append(t, y) \in Seq(A) /\ Len(Append(t, y)) = Len(t) + 1
         /\ Append(t, y)[Len(t) + 1] = y
         /\ \A i \in 1 .. Len(t) : Append(t, y)[i] = t[i]
OBVIOUS

LEMMA HeadAppend ==
  ASSUME NEW A, NEW t \in Seq(A), NEW y \in A
  PROVE  Append(t, y) # <<>> /\ Head(Append(t, y)) = IF t = <<>> THEN y ELSE Head(t)
<1>1. CASE t = <<>>
  BY <1>1
<1>2. CASE t # <<>>
  <2>1. 1 \in 1 .. Len(t) /\ Head(t) = t[1]
    BY <1>2
  <2>2. Append(t, y) # <<>> /\ Head(Append(t, y)) = Append(t, y)[1]
    OBVIOUS
  <2>. QED BY <1>2, <2>1, <2>2
<1>. QED BY <1>1, <1>2

LEMMA HiddenAppend ==
  ASSUME NEW n \in Nat, NEW s \in Seq(Entry(n)), NEW x \in Entry(n)
  PROVE  /\ ~Hidden(s) => ~Hidden(Append(s, x))
         /\ Hidden(s) /\ x.age < FIFO_LATENCY => Hidden(Append(s, x))
<1>1. Append(s, x) # <<>> /\ Head(Append(s, x)) = IF s = <<>> THEN x ELSE Head(s)
  BY HeadAppend, Zenon
<1>. QED BY <1>1 DEF Hidden

\* A FIFO of leftovers shows them.
LEMMA LeftoversShow ==
  ASSUME NEW n \in Nat, NEW s \in Seq(Entry(n)), s # <<>>,
         \A i \in 1 .. Len(s) : s[i].age = FIFO_LATENCY
  PROVE  ~Hidden(s)
<1>1. 1 \in 1 .. Len(s) /\ Head(s) = s[1]
  OBVIOUS
<1>. QED BY <1>1, SniffFifoAssumption DEF Hidden

LEMMA Leftovers ==
  ASSUME NEW n \in Nat, NEW s \in Seq(Entry(n))
  PROVE  LET t == [i \in DOMAIN s |-> Old]
         IN  /\ t \in Seq(Entry(n)) /\ Len(t) = Len(s)
             /\ \A i \in 1 .. Len(t) : t[i].age = FIFO_LATENCY
             /\ ~Hidden(s) => ~Hidden(t)
<1> DEFINE t == [i \in DOMAIN s |-> Old]
<1>1. Old \in Entry(n) /\ Old.age = FIFO_LATENCY
  BY SniffFifoAssumption DEF Old, Entry
<1>2. t \in Seq(Entry(n)) /\ Len(t) = Len(s) /\ \A i \in 1 .. Len(t) : t[i] = Old
  BY <1>1
<1> HIDE DEF t
<1>3. s # <<>> => t # <<>>
  BY <1>2
<1>4. ~Hidden(s) => ~Hidden(t)
  BY <1>1, <1>2, <1>3, LeftoversShow DEF Hidden
<1>. QED BY <1>1, <1>2, <1>4 DEF t

LEMMA TailFifo ==
  ASSUME NEW n \in Nat, NEW s \in Seq(Entry(n)), s # <<>>
  PROVE  /\ Tail(s) \in Seq(Entry(n)) /\ Len(s) = Len(Tail(s)) + 1
         /\ Head(s) = s[1] /\ s[1] \in Entry(n)
         /\ \A i \in 1 .. Len(Tail(s)) : Tail(s)[i] = s[i + 1]
<1>1. \A A : \A t \in Seq(A) : t # <<>> => /\ Tail(t) \in Seq(A) /\ Len(t) = Len(Tail(t)) + 1
                                         /\ Head(t) = t[1] /\ t[1] \in A
                                         /\ \A i \in 1 .. Len(Tail(t)) : Tail(t)[i] = t[i + 1]
  OBVIOUS
<1>. QED BY <1>1, Zenon

---------------------------------------------------------------------------
(* An edge of fe_clk.                                                      *)

\* What the write port stores.
Written == [entry |-> din, age |-> 0]

LEMMA WrittenType == Types => Written \in Entry(CAPTURE_LEN + 2) /\ CAPTURE_LEN + 2 \in Nat
BY SetupFacts, SniffFifoAssumption DEF Types, Written, Entry

LEMMA FeFacts ==
  ASSUME IInv, NEW event \in BOOLEAN, NEW start \in BOOLEAN, NEW falls \in BOOLEAN,
         FeTick(event, start, falls)
  PROVE  /\ setup' = setup /\ UNCHANGED usbVars /\ UNCHANGED hostVars
         /\ (started' <=> started \/ start)
         /\ start => reg_arm /\ reg_arm_r /\ ~flushing /\ ~started
         /\ in_data' => enable /\ count < CAPTURE_LEN
         /\ (data_wr' <=> in_data) /\ count' = count + One(data_wr)
         /\ (wr_en' <=> data_wr /\ ~prog_full)
         /\ din' = IF wr_en' THEN count + 1 ELSE din
         /\ (lost' <=> lost \/ (data_wr /\ prog_full))
         /\ enable' => start \/ enable
         /\ fifo' = IF wr_en THEN Append(fifo, Written) ELSE fifo
         /\ Len(fifo') >= THRESHOLD => prog_full'
         /\ started' \in BOOLEAN /\ in_data' \in BOOLEAN /\ data_wr' \in BOOLEAN
         /\ wr_en' \in BOOLEAN /\ lost' \in BOOLEAN /\ enable' \in BOOLEAN
         /\ overflow_blocked' \in BOOLEAN /\ prog_full' \in BOOLEAN
<1>0. Types /\ Room
  BY DEF IInv
<1>1. setup' = setup /\ UNCHANGED usbVars /\ UNCHANGED hostVars
  BY DEF FeTick
<1>2. Capture(event, start) /\ WriteFifo /\ FifoWrite(falls)
  BY DEF FeTick
<1>3. /\ start => O_arm /\ ~started
      /\ started' = (started \/ start)
      /\ enable' = (start \/ (enable /\ (capture_allowed \/ ~capturing_r)))
      /\ in_data' = (event /\ capture_allowed)
      /\ data_wr' = in_data
      /\ count' = IF data_wr THEN count + 1 ELSE count
  BY <1>2 DEF Capture
<1>4. start => reg_arm /\ reg_arm_r /\ ~flushing /\ ~started
  BY <1>3 DEF O_arm
<1>5. in_data' => enable /\ count < CAPTURE_LEN
  BY <1>3 DEF capture_allowed
<1>6. /\ wr_en' = (data_wr /\ ~prog_full)
      /\ din' = IF wr_en' THEN count + 1 ELSE din
      /\ overflow_blocked' = (DropNoted \/ (overflow_blocked /\ ~arm_pipe[3]))
      /\ lost' = (lost \/ (data_wr /\ prog_full))
  BY <1>2 DEF WriteFifo, WriteUnlessThreshold
<1>7. count' = count + One(data_wr)
  BY <1>0, <1>3 DEF One, Types
<1>8. wr_en => ~sniff_fifo_full
  <2>1. Len(fifo) \in Nat /\ DEPTH \in Nat
    BY <1>0, SetupFacts DEF Types
  <2>. QED BY <1>0, <2>1 DEF Room, sniff_fifo_full
<1>9. fifo' = IF wr_en THEN Append(fifo, Written) ELSE fifo
  BY <1>2, <1>8 DEF FifoWrite, Written
<1>10. prog_full' = IF Len(fifo') >= THRESHOLD THEN TRUE ELSE (prog_full /\ ~falls)
  BY <1>2, <1>1 DEF FifoWrite, THRESHOLD
<1>11. (Len(fifo') >= THRESHOLD => prog_full') /\ prog_full' \in BOOLEAN
  BY <1>10
<1>12. /\ started' \in BOOLEAN /\ in_data' \in BOOLEAN /\ data_wr' \in BOOLEAN
       /\ wr_en' \in BOOLEAN /\ lost' \in BOOLEAN /\ enable' \in BOOLEAN
       /\ overflow_blocked' \in BOOLEAN
  BY <1>0, <1>3, <1>6 DEF Types
<1>13. /\ (started' <=> started \/ start) /\ (data_wr' <=> in_data)
       /\ (wr_en' <=> data_wr /\ ~prog_full) /\ (lost' <=> lost \/ (data_wr /\ prog_full))
       /\ (enable' => start \/ enable)
  BY <1>3, <1>6
<1>. QED BY <1>1, <1>4, <1>5, <1>6, <1>7, <1>9, <1>11, <1>12, <1>13

LEMMA FeTypes ==
  ASSUME IInv, NEW event \in BOOLEAN, NEW start \in BOOLEAN, NEW falls \in BOOLEAN,
         FeTick(event, start, falls)
  PROVE  Types' /\ CountInv' /\ Room'
<1>0. Types /\ CountInv /\ Room
  BY DEF IInv
<1>1. /\ setup' = setup /\ UNCHANGED usbVars /\ UNCHANGED hostVars
      /\ in_data' => count < CAPTURE_LEN
      /\ (data_wr' <=> in_data) /\ count' = count + One(data_wr)
      /\ (wr_en' <=> data_wr /\ ~prog_full)
      /\ din' = IF wr_en' THEN count + 1 ELSE din
      /\ fifo' = IF wr_en THEN Append(fifo, Written) ELSE fifo
      /\ Len(fifo') >= THRESHOLD => prog_full'
  BY FeFacts
<1>2. /\ started' \in BOOLEAN /\ in_data' \in BOOLEAN /\ data_wr' \in BOOLEAN
      /\ wr_en' \in BOOLEAN /\ lost' \in BOOLEAN /\ enable' \in BOOLEAN
      /\ overflow_blocked' \in BOOLEAN /\ prog_full' \in BOOLEAN
  BY FeFacts
<1>3. /\ CAPTURE_LEN \in Nat /\ DEPTH \in Nat /\ THRESHOLD \in Nat /\ THRESHOLD < DEPTH
      /\ CAPTURE_LEN' = CAPTURE_LEN /\ DEPTH' = DEPTH /\ THRESHOLD' = THRESHOLD
      /\ BURST' = BURST
  BY <1>0, <1>1, SetupFacts DEF CAPTURE_LEN, DEPTH, THRESHOLD, BURST
<1>4. count \in Nat /\ din \in 0 .. CAPTURE_LEN + 2
  BY <1>0 DEF Types
<1>5. count' \in Nat /\ CountInv'
  BY <1>0, <1>1, <1>3, <1>4 DEF CountInv, One
<1>6. din' \in 0 .. CAPTURE_LEN + 2
  <2>1. data_wr => count + 1 <= CAPTURE_LEN + 2
    BY <1>0, <1>3, <1>4 DEF CountInv, One
  <2>. QED BY <1>1, <1>3, <1>4, <2>1
<1>7. fifo' \in Seq(Entry(CAPTURE_LEN + 2)) /\ Len(fifo') <= Len(fifo) + 1
      /\ (~wr_en => fifo' = fifo) /\ Len(fifo) \in Nat /\ Len(fifo') \in Nat
  <2>1. fifo \in Seq(Entry(CAPTURE_LEN + 2))
    BY <1>0 DEF Types
  <2>2. Append(fifo, Written) \in Seq(Entry(CAPTURE_LEN + 2))
        /\ Len(Append(fifo, Written)) = Len(fifo) + 1
    BY <1>0, <2>1, WrittenType, SeqAppend
  <2>3. Len(fifo) \in Nat
    BY <2>1
  <2>4. CASE wr_en
    <3>1. fifo' = Append(fifo, Written)
      BY <1>1, <2>4
    <3>. QED BY <2>2, <2>3, <2>4, <3>1
  <2>5. CASE ~wr_en
    <3>1. fifo' = fifo
      BY <1>1, <2>5
    <3>. QED BY <2>1, <2>3, <3>1
  <2>. QED BY <2>4, <2>5
<1>8. Types'
  <2>1. fifo' \in Seq(Entry((CAPTURE_LEN + 2)'))
    BY <1>3, <1>7
  <2>2. /\ setup' \in Setups /\ dout' \in 0 .. (CAPTURE_LEN + 2)' /\ left' \in 0 .. BURST'
        /\ bytecnt' \in 0 .. 3
        /\ reg_arm' \in BOOLEAN /\ reg_arm_r' \in BOOLEAN /\ flushing' \in BOOLEAN
        /\ empty_r' \in BOOLEAN /\ empty_fifo_read' \in BOOLEAN /\ rd_dly' \in BOOLEAN
        /\ finished' \in BOOLEAN /\ warned' \in BOOLEAN
    BY <1>0, <1>1, <1>3 DEF Types, usbVars, hostVars
  <2>. QED BY <1>2, <1>3, <1>5, <1>6, <2>1, <2>2 DEF Types
<1>9. Room'
  <2>1. ~prog_full' => Len(fifo') < THRESHOLD
    BY <1>1, <1>3, <1>7
  <2>2. wr_en' => Len(fifo') < DEPTH
    BY <1>0, <1>1, <1>3, <1>7 DEF Room
  <2>. QED BY <1>3, <2>1, <2>2 DEF Room
<1>. QED BY <1>5, <1>8, <1>9

LEMMA FeReading ==
  ASSUME IInv, NEW event \in BOOLEAN, NEW start \in BOOLEAN, NEW falls \in BOOLEAN,
         FeTick(event, start, falls)
  PROVE  Burst' /\ Idle' /\ Armed' /\ Shown' /\ FirstByte'
<1>0. Types /\ Burst /\ Idle /\ Armed /\ Shown /\ FirstByte
  BY DEF IInv
<1>1. UNCHANGED usbVars /\ UNCHANGED hostVars
  BY FeFacts
<1>2. /\ (started' <=> started \/ start)
      /\ start => reg_arm /\ reg_arm_r /\ ~flushing /\ ~started
      /\ in_data' => enable
      /\ (data_wr' <=> in_data) /\ count' = count + One(data_wr)
      /\ (wr_en' <=> data_wr /\ ~prog_full)
      /\ enable' => start \/ enable
      /\ fifo' = IF wr_en THEN Append(fifo, Written) ELSE fifo
  BY FeFacts
<1>3. /\ fifo \in Seq(Entry(CAPTURE_LEN + 2)) /\ CAPTURE_LEN + 2 \in Nat
      /\ Written \in Entry(CAPTURE_LEN + 2) /\ Written.age < FIFO_LATENCY
  BY <1>0, WrittenType, SniffFifoAssumption DEF Types, Written
<1>4. Burst' /\ FirstByte'
  BY <1>0, <1>1 DEF Burst, FirstByte, usbVars, hostVars
<1>5. Idle'
  <2> SUFFICES ASSUME ~started' PROVE
                 /\ ~enable' /\ ~in_data' /\ ~data_wr' /\ ~wr_en' /\ count' = 0
                 /\ \A i \in 1 .. Len(fifo') : fifo'[i].age = FIFO_LATENCY
                 /\ got' = <<>> /\ ~HasHand'
                 /\ ~finished' \/ left' > 0 => reg_arm'
    BY DEF Idle
  <2>1. /\ ~started /\ ~enable /\ ~in_data /\ ~data_wr /\ ~wr_en /\ count = 0
        /\ \A i \in 1 .. Len(fifo) : fifo[i].age = FIFO_LATENCY
        /\ got = <<>> /\ ~HasHand
        /\ ~finished \/ left > 0 => reg_arm
    BY <1>0, <1>2 DEF Idle
  <2>2. /\ ~enable' /\ ~in_data' /\ ~data_wr' /\ ~wr_en' /\ count' = 0 /\ fifo' = fifo
    BY <1>2, <2>1 DEF One
  <2>3. HasHand' <=> HasHand
    BY <1>1 DEF HasHand, usbVars
  <2>. QED BY <1>1, <2>1, <2>2, <2>3 DEF usbVars, hostVars
<1>6. sniff_fifo_empty = Hidden(fifo) /\ sniff_fifo_empty' = Hidden(fifo')
  BY DEF sniff_fifo_empty, Hidden
<1>7. (Hidden(fifo) => Hidden(fifo')) /\ (~Hidden(fifo) => ~Hidden(fifo'))
  BY <1>2, <1>3, HiddenAppend
<1>8. Armed'
  <2>1. start => fifo = <<>> /\ Hidden(fifo)
    BY <1>0, <1>2 DEF Armed, Hidden
  <2>2. reg_arm /\ started' => reg_arm_r /\ Hidden(fifo')
    BY <1>0, <1>2, <1>6, <1>7, <2>1 DEF Armed
  <2>3. ~started' => fifo' = fifo
    BY <1>0, <1>2 DEF Idle
  <2>4. /\ reg_arm' = reg_arm /\ reg_arm_r' = reg_arm_r /\ flushing' = flushing /\ left' = left
    BY <1>1 DEF usbVars, hostVars
  <2>5. flushing => reg_arm /\ reg_arm_r /\ ~started' /\ left = 0
    BY <1>0, <1>2 DEF Armed
  <2>6. reg_arm /\ reg_arm_r /\ ~flushing /\ ~started' => fifo' = <<>>
    BY <1>0, <1>2, <2>3 DEF Armed
  <2>7. left > 0 /\ reg_arm => reg_arm_r
    BY <1>0 DEF Armed
  <2>. QED BY <1>6, <2>2, <2>4, <2>5, <2>6, <2>7 DEF Armed
<1>9. Shown'
  BY <1>0, <1>1, <1>6, <1>7 DEF Shown, usbVars
<1>. QED BY <1>4, <1>5, <1>8, <1>9

LEMMA FeChain ==
  ASSUME IInv, NEW event \in BOOLEAN, NEW start \in BOOLEAN, NEW falls \in BOOLEAN,
         FeTick(event, start, falls)
  PROVE  Chain'
<1>0. Types /\ Chain /\ Idle /\ Armed
  BY DEF IInv
<1>1. UNCHANGED usbVars /\ UNCHANGED hostVars
  BY FeFacts
<1>2. /\ (started' <=> started \/ start)
      /\ start => reg_arm /\ reg_arm_r /\ ~flushing /\ ~started
      /\ count' = count + One(data_wr)
      /\ (wr_en' <=> data_wr /\ ~prog_full)
      /\ din' = IF wr_en' THEN count + 1 ELSE din
      /\ (lost' <=> lost \/ (data_wr /\ prog_full))
      /\ fifo' = IF wr_en THEN Append(fifo, Written) ELSE fifo
  BY FeFacts
<1>3. /\ fifo \in Seq(Entry(CAPTURE_LEN + 2)) /\ CAPTURE_LEN + 2 \in Nat
      /\ Written \in Entry(CAPTURE_LEN + 2) /\ count \in Nat /\ Len(fifo) \in Nat
  BY <1>0, WrittenType DEF Types
<1>4. got' = got /\ dout' = dout /\ (HasHand' <=> HasHand)
  BY <1>1 DEF HasHand, usbVars, hostVars
<1> SUFFICES ASSUME ~lost' PROVE Chain'
  BY DEF Chain
<1>5. /\ got \in Seq(Nat) /\ \A i \in 1 .. Len(got) : got[i] = i
      /\ HasHand => dout = Len(got) + 1
      /\ started => /\ \A i \in 1 .. Len(fifo) : fifo[i].entry = Len(got) + One(HasHand) + i
                    /\ Len(got) + One(HasHand) + Len(fifo) + One(wr_en) = count
      /\ wr_en => din = count
      /\ ~(data_wr /\ prog_full)
  BY <1>0, <1>2 DEF Chain
<1> DEFINE base == Len(got) + One(HasHand)
<1>6. base \in Nat /\ One(HasHand') = One(HasHand)
  BY <1>4, <1>5 DEF One
<1>7. started => /\ \A i \in 1 .. Len(fifo) : fifo[i].entry = base + i
                 /\ base + Len(fifo) + One(wr_en) = count
  BY <1>5
<1>8. ~started => base = 0 /\ ~wr_en /\ ~data_wr /\ count = 0
  BY <1>0 DEF Idle, One
<1>9. start => fifo = <<>>
  BY <1>0, <1>2 DEF Armed
<1> HIDE DEF base
<1>10. wr_en' => din' = count'
  BY <1>2 DEF One
<1>11. started' => base + Len(fifo') + One(wr_en') = count'
  <2>1. wr_en' <=> data_wr
    BY <1>2, <1>5
  <2>2. started' => base + Len(fifo) + One(wr_en) = count
    BY <1>2, <1>6, <1>7, <1>8, <1>9 DEF One
  <2>3. Len(fifo') = Len(fifo) + One(wr_en)
    BY <1>2, <1>3, SeqAppend DEF One
  <2>4. One(wr_en) \in Nat /\ One(wr_en') = One(data_wr)
    BY <2>1 DEF One
  <2>. QED BY <1>2, <1>3, <1>6, <2>2, <2>3, <2>4
<1>12. started' => \A i \in 1 .. Len(fifo') : fifo'[i].entry = base + i
  <2> SUFFICES ASSUME started', NEW i \in 1 .. Len(fifo') PROVE fifo'[i].entry = base + i
    OBVIOUS
  <2>1. \A k \in 1 .. Len(fifo) : fifo[k].entry = base + k
    BY <1>2, <1>7, <1>9
  <2>2. CASE ~wr_en
    BY <1>2, <2>1, <2>2
  <2>3. CASE wr_en
    <3>1. started /\ Written.entry = base + (Len(fifo) + 1)
      BY <1>3, <1>5, <1>6, <1>7, <1>8, <2>3 DEF One, Written
    <3>2. /\ Len(fifo') = Len(fifo) + 1 /\ fifo'[Len(fifo) + 1] = Written
          /\ \A k \in 1 .. Len(fifo) : fifo'[k] = fifo[k]
      BY <1>2, <1>3, <2>3, SeqAppend
    <3>3. i = Len(fifo) + 1 \/ i \in 1 .. Len(fifo)
      BY <1>3, <3>2
    <3>. QED BY <2>1, <3>1, <3>2, <3>3
  <2>. QED BY <2>2, <2>3
<1>. QED BY <1>4, <1>5, <1>6, <1>10, <1>11, <1>12 DEF Chain, base

---------------------------------------------------------------------------
(* An edge of usb_clk.                                                     *)

\* The read strobe takes an entry; what stays in the FIFO grows older.
Taken(read) == rd_en(read) /\ ~sniff_fifo_empty
Stays(read) == IF Taken(read) THEN Tail(fifo) ELSE fifo

LEMMA StaysFacts ==
  ASSUME Types, NEW read
  PROVE  /\ Stays(read) \in Seq(Entry(CAPTURE_LEN + 2)) /\ CAPTURE_LEN + 2 \in Nat
         /\ Taken(read) => /\ fifo # <<>> /\ Head(fifo) = fifo[1]
                           /\ fifo[1] \in Entry(CAPTURE_LEN + 2)
                           /\ Len(fifo) = Len(Stays(read)) + 1
                           /\ \A i \in 1 .. Len(Stays(read)) : Stays(read)[i] = fifo[i + 1]
         /\ ~Taken(read) => Stays(read) = fifo
<1>1. fifo \in Seq(Entry(CAPTURE_LEN + 2)) /\ CAPTURE_LEN + 2 \in Nat
  BY WrittenType DEF Types
<1>2. CASE Taken(read)
  <2>1. fifo # <<>>
    BY <1>2 DEF Taken, sniff_fifo_empty
  <2>2. Stays(read) = Tail(fifo)
    BY <1>2 DEF Stays
  <2>. QED BY <1>1, <1>2, <2>1, <2>2, TailFifo
<1>3. CASE ~Taken(read)
  BY <1>1, <1>3 DEF Stays
<1>. QED BY <1>2, <1>3

LEMMA UsbFacts ==
  ASSUME IInv, NEW read \in BOOLEAN, NEW arm \in BOOLEAN, NEW disarm \in BOOLEAN,
         UsbTick(read, arm, disarm)
  PROVE  /\ setup' = setup
         /\ UNCHANGED <<enable, in_data, data_wr, wr_en, din, overflow_blocked, prog_full>>
         /\ arm => /\ finished /\ left = 0 /\ ~reg_arm /\ ~reg_arm_r /\ ~enable
                   /\ ~in_data /\ ~data_wr /\ ~wr_en /\ ~rd_dly
         /\ disarm => started /\ reg_arm
         /\ started /\ reg_arm /\ ~disarm => (fifo # <<>> => Head(fifo).age + 1 < FIFO_LATENCY)
         /\ (reg_arm' <=> arm \/ (reg_arm /\ ~disarm)) /\ reg_arm_r' = reg_arm
         /\ (flushing' <=> ~Hidden(fifo) /\ (flushing \/ reg_arm))
         /\ (started' <=> started /\ ~arm) /\ (lost' <=> lost /\ ~arm)
         /\ count' = IF arm THEN 0 ELSE count
         /\ dout' = IF Taken(read) THEN Head(fifo).entry ELSE dout
         /\ fifo' = IF arm THEN [i \in DOMAIN Older(Stays(read)) |-> Old] ELSE Older(Stays(read))
         /\ (empty_r' <=> Hidden(fifo))
         /\ reg_arm' \in BOOLEAN /\ reg_arm_r' \in BOOLEAN /\ flushing' \in BOOLEAN
         /\ started' \in BOOLEAN /\ lost' \in BOOLEAN /\ empty_r' \in BOOLEAN
<1>0. Types
  BY DEF IInv
<1>1. /\ setup' = setup
      /\ UNCHANGED <<enable, in_data, data_wr, wr_en, din, overflow_blocked, prog_full>>
      /\ Arming(arm, disarm) /\ FifoRead(read, arm) /\ empty_r' = sniff_fifo_empty
  BY DEF UsbTick
<1>2. sniff_fifo_empty <=> Hidden(fifo)
  BY DEF sniff_fifo_empty, Hidden
<1>3. /\ arm => HostMayArm
      /\ disarm => MayDisarm
      /\ MustDisarm => disarm
      /\ reg_arm' = (arm \/ (reg_arm /\ ~disarm))
      /\ reg_arm_r' = reg_arm
      /\ flushing' = (~sniff_fifo_empty /\ (flushing \/ reg_arm))
      /\ started' = (started /\ ~arm) /\ lost' = (lost /\ ~arm)
      /\ count' = IF arm THEN 0 ELSE count
  BY <1>1 DEF Arming
<1>4. arm => /\ finished /\ left = 0 /\ ~reg_arm /\ ~reg_arm_r /\ ~enable
             /\ ~in_data /\ ~data_wr /\ ~wr_en /\ ~rd_dly
  BY <1>3 DEF HostMayArm, capture_done
<1>5. disarm => started /\ reg_arm
  BY <1>3 DEF MayDisarm
<1>6. started /\ reg_arm /\ ~disarm => (fifo # <<>> => Head(fifo).age + 1 < FIFO_LATENCY)
  <2> SUFFICES ASSUME started, reg_arm, ~disarm, fifo # <<>>
               PROVE  Head(fifo).age + 1 < FIFO_LATENCY
    OBVIOUS
  <2>1. ~(Head(fifo).age + 1 >= FIFO_LATENCY)
    BY <1>3 DEF MustDisarm
  <2>2. Head(fifo) \in Entry(CAPTURE_LEN + 2)
    BY <1>0, WrittenType, TailFifo DEF Types
  <2>. QED BY <2>1, <2>2, SniffFifoAssumption DEF Entry
<1>7. /\ dout' = IF Taken(read) THEN Head(fifo).entry ELSE dout
      /\ fifo' = IF arm THEN [i \in DOMAIN Older(Stays(read)) |-> Old] ELSE Older(Stays(read))
  BY <1>1 DEF FifoRead, Taken, Stays
<1>8. /\ reg_arm' \in BOOLEAN /\ reg_arm_r' \in BOOLEAN /\ flushing' \in BOOLEAN
      /\ started' \in BOOLEAN /\ lost' \in BOOLEAN /\ empty_r' \in BOOLEAN
  BY <1>0, <1>1, <1>3 DEF Types, sniff_fifo_empty
<1>9. /\ (reg_arm' <=> arm \/ (reg_arm /\ ~disarm))
      /\ (flushing' <=> ~Hidden(fifo) /\ (flushing \/ reg_arm))
      /\ (started' <=> started /\ ~arm) /\ (lost' <=> lost /\ ~arm)
      /\ (empty_r' <=> Hidden(fifo))
  BY <1>1, <1>2, <1>3
<1>. QED BY <1>1, <1>3, <1>4, <1>5, <1>6, <1>7, <1>8, <1>9

\* A read: the flush is over, there is nothing to see while ARM is up, and the
\* strobe takes an entry whenever it is given.
LEMMA ReadFacts ==
  ASSUME IInv, NEW read \in BOOLEAN, NEW arm \in BOOLEAN, NEW disarm \in BOOLEAN,
         UsbTick(read, arm, disarm)
  PROVE  /\ read => /\ ~rd_dly /\ ~arm /\ ~flushing /\ (reg_arm => reg_arm_r)
                    /\ reg_arm => Hidden(fifo)
                    /\ ~started => empty_r /\ fifo = <<>> /\ reg_arm
         /\ read /\ bytecnt = 0 /\ ~empty_r /\ ~empty_fifo_read => Taken(read)
         /\ Taken(read) => flushing \/ (read /\ bytecnt = 0 /\ ~empty_r /\ ~empty_fifo_read)
<1>0. Types /\ Armed /\ Idle /\ Shown /\ Burst
  BY DEF IInv
<1>1. read => HostMayRead /\ ~arm
  BY DEF UsbTick, Host
<1>2. sniff_fifo_empty <=> Hidden(fifo)
  BY DEF sniff_fifo_empty, Hidden
<1> SUFFICES
      /\ read => /\ ~rd_dly /\ ~flushing /\ (reg_arm => reg_arm_r)
                 /\ reg_arm => Hidden(fifo)
                 /\ ~started => empty_r /\ fifo = <<>> /\ reg_arm
      /\ read /\ bytecnt = 0 /\ ~empty_r /\ ~empty_fifo_read => Taken(read)
      /\ Taken(read) => flushing \/ (read /\ bytecnt = 0 /\ ~empty_r /\ ~empty_fifo_read)
  BY <1>1
<1>3. left \in Nat
  BY <1>0, SetupFacts DEF Types
<1>4. read => ~rd_dly /\ (left > 0 \/ (~finished /\ ~flushing /\ reg_arm_r = reg_arm))
  BY <1>1 DEF HostMayRead
<1>5. read => ~flushing /\ (reg_arm => reg_arm_r)
  BY <1>0, <1>3, <1>4 DEF Armed
<1>6. read /\ reg_arm => Hidden(fifo)
  <2>1. read /\ reg_arm /\ ~started => fifo = <<>>
    BY <1>0, <1>5 DEF Armed
  <2>2. read /\ reg_arm /\ started => Hidden(fifo)
    BY <1>0, <1>2 DEF Armed
  <2>. QED BY <2>1, <2>2 DEF Hidden
<1>7. read /\ ~started => empty_r /\ fifo = <<>> /\ reg_arm
  <2>1. read /\ ~started => reg_arm
    BY <1>0, <1>4 DEF Idle
  <2>2. read /\ ~started => fifo = <<>>
    BY <1>0, <1>5, <2>1 DEF Armed
  <2>3. read => empty_r \/ ~Hidden(fifo)
    BY <1>0, <1>2, <1>4, <1>5 DEF Shown
  <2>. QED BY <2>1, <2>2, <2>3 DEF Hidden
<1>8. read /\ bytecnt = 0 /\ ~empty_r /\ ~empty_fifo_read => Taken(read)
  BY <1>0, <1>2, <1>4, <1>5 DEF Shown, Taken, rd_en, fifo_read_condition
<1>9. Taken(read) => flushing \/ (read /\ bytecnt = 0 /\ ~empty_r /\ ~empty_fifo_read)
  BY DEF Taken, rd_en, fifo_read_condition, fifo_flush_condition
<1>. QED BY <1>4, <1>5, <1>6, <1>7, <1>8, <1>9

LEMMA HostFacts ==
  ASSUME IInv, NEW read \in BOOLEAN, NEW arm \in BOOLEAN, NEW disarm \in BOOLEAN,
         UsbTick(read, arm, disarm)
  PROVE  /\ (empty_fifo_read' <=> IF read /\ bytecnt = 0 /\ empty_r THEN TRUE
                                  ELSE IF read /\ bytecnt = 3 /\ ~empty_r THEN FALSE
                                  ELSE empty_fifo_read)
         /\ (rd_dly' <=> read)
         /\ bytecnt' = IF rd_dly THEN (bytecnt + 1) % 4 ELSE bytecnt
         /\ rd_dly => Receive
         /\ ~rd_dly /\ arm => /\ got' = <<>> /\ ~finished' /\ ~warned'
                              /\ left' = left /\ first_byte' = first_byte
         /\ ~rd_dly /\ ~arm => /\ left' = IF read /\ left = 0 THEN BURST ELSE left
                               /\ UNCHANGED <<first_byte, got, finished, warned>>
         /\ empty_fifo_read' \in BOOLEAN /\ rd_dly' \in BOOLEAN
<1>0. Types
  BY DEF IInv
<1>1. MarkEmptyRead(read) /\ Host(read, arm)
  BY DEF UsbTick
<1>2. empty_fifo_read' = IF read /\ bytecnt = 0 /\ empty_r THEN TRUE
                         ELSE IF read /\ bytecnt = 3 /\ ~empty_r THEN FALSE
                         ELSE empty_fifo_read
  BY <1>1 DEF MarkEmptyRead
<1>3. empty_fifo_read' \in BOOLEAN
  BY <1>0, <1>2 DEF Types
<1>4. rd_dly' = read /\ bytecnt' = IF rd_dly THEN (bytecnt + 1) % 4 ELSE bytecnt
  BY <1>1 DEF Host
<1>5. rd_dly => Receive
  BY <1>1 DEF Host
<1>6. ~rd_dly /\ arm => /\ got' = <<>> /\ finished' = FALSE /\ warned' = FALSE
                        /\ left' = left /\ first_byte' = first_byte
  BY <1>1 DEF Host
<1>7. ~rd_dly /\ ~arm => /\ left' = IF read /\ left = 0 THEN BURST ELSE left
                         /\ UNCHANGED <<first_byte, got, finished, warned>>
  BY <1>1 DEF Host
<1>. QED BY <1>2, <1>3, <1>4, <1>5, <1>6, <1>7

\* What is in the FIFO after the edge.
LEMMA FifoAfter ==
  ASSUME IInv, NEW read \in BOOLEAN, NEW arm \in BOOLEAN, NEW disarm \in BOOLEAN,
         UsbTick(read, arm, disarm)
  PROVE  /\ fifo' \in Seq(Entry(CAPTURE_LEN + 2)) /\ Len(fifo') = Len(Stays(read))
         /\ Len(fifo') \in Nat /\ Len(fifo) \in Nat /\ Len(fifo') <= Len(fifo)
         /\ ~arm => \A i \in 1 .. Len(fifo') : fifo'[i].entry = Stays(read)[i].entry
         /\ arm \/ (\A i \in 1 .. Len(fifo) : fifo[i].age = FIFO_LATENCY)
              => \A i \in 1 .. Len(fifo') : fifo'[i].age = FIFO_LATENCY
         /\ ~Hidden(Stays(read)) => ~Hidden(fifo')
         /\ ~arm /\ (Stays(read) # <<>> => Head(Stays(read)).age + 1 < FIFO_LATENCY)
              => Hidden(fifo')
<1>0. Types
  BY DEF IInv
<1> DEFINE N == CAPTURE_LEN + 2  s == Stays(read)  o == Older(s)
<1>1. s \in Seq(Entry(N)) /\ N \in Nat
  BY <1>0, StaysFacts
<1>2. o \in Seq(Entry(N)) /\ Len(o) = Len(s)
  BY <1>1, OlderFifo
<1>3. \A i \in 1 .. Len(s) :
        /\ o[i].entry = s[i].entry
        /\ o[i].age = IF s[i].age < FIFO_LATENCY THEN s[i].age + 1 ELSE s[i].age
  BY <1>1, OlderFifo
<1>4. fifo' = IF arm THEN [i \in DOMAIN o |-> Old] ELSE o
  BY UsbFacts
<1>5. Len(fifo) \in Nat /\ Len(s) \in Nat /\ Len(s) <= Len(fifo)
  <2>1. Len(fifo) \in Nat /\ Len(s) \in Nat
    BY <1>0, <1>1 DEF Types
  <2>2. Len(fifo) = Len(s) + 1 \/ s = fifo
    BY <1>0, StaysFacts
  <2>. QED BY <2>1, <2>2
<1>6. (\A i \in 1 .. Len(fifo) : fifo[i].age = FIFO_LATENCY)
        => \A i \in 1 .. Len(s) : s[i].age = FIFO_LATENCY
  <2> SUFFICES ASSUME \A i \in 1 .. Len(fifo) : fifo[i].age = FIFO_LATENCY,
                      NEW i \in 1 .. Len(s)
               PROVE  s[i].age = FIFO_LATENCY
    OBVIOUS
  <2>1. CASE Taken(read)
    <3>1. s[i] = fifo[i + 1] /\ Len(fifo) = Len(s) + 1
      BY <1>0, <2>1, StaysFacts
    <3>2. i + 1 \in 1 .. Len(fifo)
      BY <1>5, <3>1
    <3>. QED BY <3>1, <3>2
  <2>2. CASE ~Taken(read)
    BY <1>0, <2>2, StaysFacts
  <2>. QED BY <2>1, <2>2
<1>7. /\ ~Hidden(s) => ~Hidden(o)
      /\ (s # <<>> => Head(s).age + 1 < FIFO_LATENCY) => Hidden(o)
  BY <1>1, HiddenOlder
<1> DEFINE t == [i \in DOMAIN o |-> Old]
<1>8. /\ t \in Seq(Entry(N)) /\ Len(t) = Len(o)
      /\ \A i \in 1 .. Len(t) : t[i].age = FIFO_LATENCY
      /\ ~Hidden(o) => ~Hidden(t)
  BY <1>1, <1>2, Leftovers
<1> HIDE DEF s, o, t, N
<1>9. CASE arm
  <2>1. fifo' = t
    BY <1>4, <1>9 DEF t
  <2>. QED BY <1>2, <1>5, <1>7, <1>8, <1>9, <2>1 DEF s, N
<1>10. CASE ~arm
  <2>1. fifo' = o
    BY <1>4, <1>10
  <2>2. (\A i \in 1 .. Len(s) : s[i].age = FIFO_LATENCY)
          => \A i \in 1 .. Len(o) : o[i].age = FIFO_LATENCY
    BY <1>2, <1>3, SniffFifoAssumption
  <2>. QED BY <1>2, <1>3, <1>5, <1>6, <1>7, <1>10, <2>1, <2>2 DEF s, N
<1>. QED BY <1>9, <1>10

LEMMA UsbTypes ==
  ASSUME IInv, NEW read \in BOOLEAN, NEW arm \in BOOLEAN, NEW disarm \in BOOLEAN,
         UsbTick(read, arm, disarm)
  PROVE  Types' /\ CountInv' /\ Room' /\ Burst'
<1>0. Types /\ CountInv /\ Room /\ Burst
  BY DEF IInv
<1>1. /\ setup' = setup
      /\ UNCHANGED <<enable, in_data, data_wr, wr_en, din, overflow_blocked, prog_full>>
      /\ arm => left = 0 /\ ~in_data /\ ~data_wr
      /\ count' = IF arm THEN 0 ELSE count
      /\ dout' = IF Taken(read) THEN Head(fifo).entry ELSE dout
      /\ reg_arm' \in BOOLEAN /\ reg_arm_r' \in BOOLEAN /\ flushing' \in BOOLEAN
      /\ started' \in BOOLEAN /\ lost' \in BOOLEAN /\ empty_r' \in BOOLEAN
  BY UsbFacts
<1>2. /\ CAPTURE_LEN \in Nat /\ DEPTH \in Nat /\ THRESHOLD \in Nat /\ BURST \in Nat \ {0}
      /\ CAPTURE_LEN' = CAPTURE_LEN /\ DEPTH' = DEPTH /\ THRESHOLD' = THRESHOLD
      /\ BURST' = BURST
  BY <1>0, <1>1, SetupFacts DEF CAPTURE_LEN, DEPTH, THRESHOLD, BURST
<1>3. /\ fifo' \in Seq(Entry(CAPTURE_LEN + 2)) /\ Len(fifo') \in Nat /\ Len(fifo) \in Nat
      /\ Len(fifo') <= Len(fifo)
  BY FifoAfter
<1>4. /\ (rd_dly' <=> read)
      /\ bytecnt' = IF rd_dly THEN (bytecnt + 1) % 4 ELSE bytecnt
      /\ rd_dly => Receive
      /\ ~rd_dly /\ arm => ~finished' /\ ~warned' /\ left' = left
      /\ ~rd_dly /\ ~arm => /\ left' = IF read /\ left = 0 THEN BURST ELSE left
                            /\ finished' = finished /\ warned' = warned
      /\ empty_fifo_read' \in BOOLEAN /\ rd_dly' \in BOOLEAN
  BY HostFacts
<1>5. read => ~rd_dly /\ ~arm
  BY ReadFacts
<1>6. bytecnt \in 0 .. 3 /\ left \in 0 .. BURST /\ rd_dly \in BOOLEAN /\ count \in Nat
  BY <1>0 DEF Types
<1>7. rd_dly => /\ left' = IF bytecnt = 3 THEN left - 1 ELSE left
                /\ finished' \in BOOLEAN /\ warned' \in BOOLEAN
  <2>1. rd_dly => left' = IF bytecnt = 3 THEN left - 1 ELSE left
    BY <1>4 DEF Receive
  <2>2. rd_dly => finished' \in BOOLEAN /\ warned' \in BOOLEAN
    BY <1>0, <1>4 DEF Receive, Types
  <2>. QED BY <2>1, <2>2
<1>8. finished' \in BOOLEAN /\ warned' \in BOOLEAN
  <2>1. finished \in BOOLEAN /\ warned \in BOOLEAN
    BY <1>0 DEF Types
  <2>2. CASE rd_dly
    BY <1>7, <2>2
  <2>3. CASE ~rd_dly /\ arm
    <3>1. ~finished' /\ ~warned' /\ Host(read, arm)
      BY <1>4, <2>3 DEF UsbTick
    <3>2. finished' = FALSE /\ warned' = FALSE
      BY <2>3, <3>1 DEF Host
    <3>. QED BY <3>2
  <2>4. CASE ~rd_dly /\ ~arm
    BY <1>4, <2>1, <2>4
  <2>. QED BY <2>2, <2>3, <2>4
<1>9. bytecnt' \in 0 .. 3 /\ (bytecnt = 3 /\ rd_dly => bytecnt' = 0)
  <2>1. \A b \in 0 .. 3 : (b + 1) % 4 \in 0 .. 3 /\ (b = 3 => (b + 1) % 4 = 0)
    OBVIOUS
  <2>. QED BY <1>4, <1>6, <2>1
<1>10. left' \in 0 .. BURST
  <2>1. CASE rd_dly
    BY <1>0, <1>2, <1>6, <1>7, <2>1 DEF Burst
  <2>2. CASE ~rd_dly
    BY <1>2, <1>4, <1>6, <2>2
  <2>. QED BY <2>1, <2>2
<1>11. Burst'
  <2>1. CASE rd_dly
    <3>1. ~rd_dly'
      BY <1>4, <1>5, <2>1
    <3>2. left' = 0 => bytecnt = 3
      BY <1>0, <1>2, <1>6, <1>7, <2>1 DEF Burst
    <3>. QED BY <1>9, <2>1, <3>1, <3>2 DEF Burst
  <2>2. CASE ~rd_dly
    <3>1. bytecnt' = bytecnt
      BY <1>4, <2>2
    <3>2. rd_dly' => left' > 0
      BY <1>2, <1>4, <1>5, <1>6, <2>2
    <3>3. left' = 0 => left = 0
      BY <1>2, <1>4, <1>6, <2>2
    <3>. QED BY <1>0, <3>1, <3>2, <3>3 DEF Burst
  <2>. QED BY <2>1, <2>2
<1>12. CountInv'
  <2>1. count' <= count /\ count' \in Nat
    BY <1>1, <1>6
  <2>2. One(data_wr) \in Nat /\ One(in_data) \in Nat
    BY DEF One
  <2>3. data_wr' = data_wr /\ in_data' = in_data
    BY <1>1
  <2> DEFINE a == One(data_wr)  b == One(in_data)
  <2>4. count + a + b <= CAPTURE_LEN + 2
    BY <1>0 DEF CountInv
  <2>5. One(data_wr)' = a /\ One(in_data)' = b
    BY <2>3 DEF One
  <2> HIDE DEF a, b
  <2>6. count' + a + b <= CAPTURE_LEN + 2
    <3>1. a \in Nat /\ b \in Nat
      BY <2>2 DEF a, b
    <3>2. \A k, l, x, y, m \in Nat : k <= l /\ l + x + y <= m => k + x + y <= m
      OBVIOUS
    <3>3. CAPTURE_LEN + 2 \in Nat
      BY <1>2
    <3>. QED BY <1>6, <2>1, <2>4, <3>1, <3>2, <3>3, Zenon
  <2>. QED BY <1>2, <2>5, <2>6 DEF CountInv
<1>13. Room'
  BY <1>0, <1>1, <1>2, <1>3 DEF Room
<1>14. Types'
  <2>1. dout' \in 0 .. CAPTURE_LEN + 2
    <3>1. Taken(read) => Head(fifo) \in Entry(CAPTURE_LEN + 2)
      BY <1>0, StaysFacts
    <3>2. dout \in 0 .. CAPTURE_LEN + 2
      BY <1>0 DEF Types
    <3>. QED BY <1>1, <3>1, <3>2 DEF Entry
  <2>2. count' \in Nat
    BY <1>1, <1>6
  <2>3. fifo' \in Seq(Entry((CAPTURE_LEN + 2)'))
    BY <1>2, <1>3
  <2>4. /\ setup' \in Setups /\ din' \in 0 .. CAPTURE_LEN + 2
        /\ overflow_blocked' \in BOOLEAN /\ prog_full' \in BOOLEAN /\ enable' \in BOOLEAN
        /\ in_data' \in BOOLEAN /\ data_wr' \in BOOLEAN /\ wr_en' \in BOOLEAN
    BY <1>0, <1>1 DEF Types
  <2>. QED BY <1>1, <1>2, <1>4, <1>8, <1>9, <1>10, <2>1, <2>2, <2>3, <2>4 DEF Types
<1>. QED BY <1>11, <1>12, <1>13, <1>14

LEMMA UsbIdle ==
  ASSUME IInv, NEW read \in BOOLEAN, NEW arm \in BOOLEAN, NEW disarm \in BOOLEAN,
         UsbTick(read, arm, disarm)
  PROVE  Idle'
<1>0. Types /\ Idle /\ Burst
  BY DEF IInv
<1>1. /\ UNCHANGED <<enable, in_data, data_wr, wr_en>>
      /\ arm => /\ finished /\ left = 0 /\ ~reg_arm /\ ~enable
                /\ ~in_data /\ ~data_wr /\ ~wr_en /\ ~rd_dly
      /\ disarm => started
      /\ (reg_arm' <=> arm \/ (reg_arm /\ ~disarm))
      /\ (started' <=> started /\ ~arm)
      /\ count' = IF arm THEN 0 ELSE count
  BY UsbFacts
<1>2. arm \/ (\A i \in 1 .. Len(fifo) : fifo[i].age = FIFO_LATENCY)
        => \A i \in 1 .. Len(fifo') : fifo'[i].age = FIFO_LATENCY
  BY FifoAfter
<1>3. read => ~rd_dly /\ ~arm /\ (~started => empty_r /\ reg_arm)
  BY ReadFacts
<1>4. /\ (empty_fifo_read' <=> IF read /\ bytecnt = 0 /\ empty_r THEN TRUE
                               ELSE IF read /\ bytecnt = 3 /\ ~empty_r THEN FALSE
                               ELSE empty_fifo_read)
      /\ (rd_dly' <=> read)
      /\ bytecnt' = IF rd_dly THEN (bytecnt + 1) % 4 ELSE bytecnt
      /\ rd_dly => Receive
      /\ ~rd_dly /\ arm => got' = <<>> /\ left' = left
      /\ ~rd_dly /\ ~arm => /\ left' = IF read /\ left = 0 THEN BURST ELSE left
                            /\ UNCHANGED <<first_byte, got, finished, warned>>
  BY HostFacts
<1>5. bytecnt \in 0 .. 3 /\ left \in Nat /\ BURST \in Nat
  BY <1>0, SetupFacts DEF Types
<1> SUFFICES ASSUME ~started' PROVE
               /\ ~enable' /\ ~in_data' /\ ~data_wr' /\ ~wr_en' /\ count' = 0
               /\ \A i \in 1 .. Len(fifo') : fifo'[i].age = FIFO_LATENCY
               /\ got' = <<>> /\ ~HasHand'
               /\ ~finished' \/ left' > 0 => reg_arm'
  BY DEF Idle
<1>6. CASE arm
  <2>1. ~enable' /\ ~in_data' /\ ~data_wr' /\ ~wr_en' /\ count' = 0
    BY <1>1, <1>6
  <2>2. got' = <<>> /\ reg_arm'
    BY <1>1, <1>4, <1>6
  <2>3. bytecnt' = 0 /\ ~rd_dly'
    BY <1>0, <1>1, <1>3, <1>4, <1>6 DEF Burst
  <2>. QED BY <1>2, <1>6, <2>1, <2>2, <2>3 DEF HasHand
<1>7. CASE ~arm
  <2>1. /\ ~started /\ ~enable /\ ~in_data /\ ~data_wr /\ ~wr_en /\ count = 0
        /\ \A i \in 1 .. Len(fifo) : fifo[i].age = FIFO_LATENCY
        /\ got = <<>> /\ ~HasHand
        /\ ~finished \/ left > 0 => reg_arm
    BY <1>0, <1>1, <1>7 DEF Idle
  <2>2. ~enable' /\ ~in_data' /\ ~data_wr' /\ ~wr_en' /\ count' = 0 /\ (reg_arm' <=> reg_arm)
    BY <1>1, <1>7, <2>1
  <2>3. CASE rd_dly
    <3>1. ~read /\ (empty_fifo_read' <=> empty_fifo_read) /\ ~rd_dly' /\ Receive
      BY <1>3, <1>4, <2>3
    <3>2. bytecnt \in {0, 1, 2} => empty_fifo_read
      BY <2>1, <2>3 DEF HasHand
    <3>3. bytecnt = 3 => bytecnt' = 0
      BY <1>4, <2>3
    <3>4. ~HasHand'
      BY <1>5, <3>1, <3>2, <3>3 DEF HasHand
    <3>5. got' = got
      BY <3>1, <3>2 DEF Receive, fifo_read_data
    <3>6. left' > 0 => left > 0
      BY <1>5, <3>1 DEF Receive
    <3>7. left > 0
      BY <1>0, <2>3 DEF Burst
    <3>. QED BY <1>2, <2>1, <2>2, <3>4, <3>5, <3>7
  <2>4. CASE ~rd_dly
    <3>1. bytecnt' = bytecnt /\ got' = got /\ finished' = finished
      BY <1>4, <1>7, <2>4
    <3>2. ~HasHand'
      <4>1. bytecnt \in {1, 2} => empty_fifo_read'
        BY <1>4, <2>1 DEF HasHand
      <4>2. bytecnt = 0 /\ rd_dly' => empty_fifo_read'
        BY <1>3, <1>4, <2>1
      <4>. QED BY <3>1, <4>1, <4>2 DEF HasHand
    <3>3. left' > 0 => reg_arm
      BY <1>3, <1>4, <1>7, <2>1, <2>4
    <3>. QED BY <1>2, <2>1, <2>2, <3>1, <3>2, <3>3
  <2>. QED BY <2>3, <2>4
<1>. QED BY <1>6, <1>7

LEMMA UsbArmed ==
  ASSUME IInv, NEW read \in BOOLEAN, NEW arm \in BOOLEAN, NEW disarm \in BOOLEAN,
         UsbTick(read, arm, disarm)
  PROVE  Armed' /\ Shown' /\ FirstByte'
<1>0. Types /\ Idle /\ Burst /\ Armed /\ Shown /\ FirstByte
  BY DEF IInv
<1>1. /\ arm => left = 0 /\ ~reg_arm /\ ~rd_dly
      /\ disarm => started
      /\ started /\ reg_arm /\ ~disarm => (fifo # <<>> => Head(fifo).age + 1 < FIFO_LATENCY)
      /\ (reg_arm' <=> arm \/ (reg_arm /\ ~disarm)) /\ reg_arm_r' = reg_arm
      /\ (flushing' <=> ~Hidden(fifo) /\ (flushing \/ reg_arm))
      /\ (started' <=> started /\ ~arm)
      /\ dout' = IF Taken(read) THEN Head(fifo).entry ELSE dout
      /\ (empty_r' <=> Hidden(fifo))
  BY UsbFacts
<1>2. /\ ~Hidden(Stays(read)) => ~Hidden(fifo')
      /\ ~arm /\ (Stays(read) # <<>> => Head(Stays(read)).age + 1 < FIFO_LATENCY) => Hidden(fifo')
      /\ fifo' \in Seq(Entry(CAPTURE_LEN + 2)) /\ Len(fifo') <= Len(fifo)
      /\ Len(fifo') \in Nat /\ Len(fifo) \in Nat
  BY FifoAfter
<1>3. /\ read => /\ ~rd_dly /\ ~arm /\ ~flushing /\ (reg_arm => reg_arm_r)
                 /\ reg_arm => Hidden(fifo)
      /\ Taken(read) => flushing \/ (read /\ bytecnt = 0 /\ ~empty_r /\ ~empty_fifo_read)
  BY ReadFacts
<1>4. /\ (empty_fifo_read' <=> IF read /\ bytecnt = 0 /\ empty_r THEN TRUE
                               ELSE IF read /\ bytecnt = 3 /\ ~empty_r THEN FALSE
                               ELSE empty_fifo_read)
      /\ (rd_dly' <=> read)
      /\ bytecnt' = IF rd_dly THEN (bytecnt + 1) % 4 ELSE bytecnt
      /\ rd_dly => Receive
      /\ ~rd_dly /\ arm => left' = left /\ first_byte' = first_byte
      /\ ~rd_dly /\ ~arm => /\ left' = IF read /\ left = 0 THEN BURST ELSE left
                            /\ first_byte' = first_byte
  BY HostFacts
<1>5. bytecnt \in 0 .. 3 /\ left \in Nat /\ BURST \in Nat
  BY <1>0, SetupFacts DEF Types
<1>6. /\ (sniff_fifo_empty <=> Hidden(fifo)) /\ (sniff_fifo_empty' <=> Hidden(fifo'))
      /\ (Taken(read) => ~Hidden(fifo))
  BY DEF sniff_fifo_empty, Hidden, Taken
<1>7. ~Taken(read) => Stays(read) = fifo
  BY <1>0, StaysFacts
<1>8. /\ flushing => reg_arm /\ reg_arm_r /\ ~started /\ left = 0
      /\ reg_arm /\ started => reg_arm_r /\ Hidden(fifo)
      /\ reg_arm /\ reg_arm_r /\ ~flushing /\ ~started => fifo = <<>>
      /\ left > 0 /\ reg_arm => reg_arm_r
  BY <1>0, <1>6 DEF Armed
<1>9. rd_dly => left > 0
  BY <1>0 DEF Burst
<1>10. flushing' => reg_arm' /\ reg_arm_r' /\ ~started' /\ left' = 0
  <2> SUFFICES ASSUME flushing' PROVE reg_arm' /\ reg_arm_r' /\ ~started' /\ left' = 0
    OBVIOUS
  <2>1. ~Hidden(fifo) /\ reg_arm /\ ~started
    BY <1>1, <1>8
  <2>2. reg_arm' /\ reg_arm_r' /\ ~started'
    BY <1>1, <2>1
  <2>3. ~read
    BY <1>3, <2>1
  <2>4. fifo # <<>>
    BY <2>1 DEF Hidden
  <2>5. left = 0
    BY <1>5, <1>8, <2>1, <2>4
  <2>6. ~rd_dly
    BY <1>9, <2>5
  <2>7. left' = left
    BY <1>4, <2>3, <2>6
  <2>. QED BY <2>2, <2>5, <2>7
<1>11. reg_arm' /\ started' => reg_arm_r' /\ Hidden(fifo')
  <2> SUFFICES ASSUME reg_arm', started' PROVE reg_arm_r' /\ Hidden(fifo')
    OBVIOUS
  <2>1. ~arm /\ started /\ reg_arm /\ ~disarm /\ reg_arm_r'
    BY <1>1
  <2>2. ~Taken(read)
    BY <1>6, <1>8, <2>1
  <2>. QED BY <1>1, <1>2, <1>7, <2>1, <2>2
<1>12. reg_arm' /\ reg_arm_r' /\ ~flushing' /\ ~started' => fifo' = <<>>
  <2> SUFFICES ASSUME reg_arm', reg_arm_r', ~flushing', ~started' PROVE fifo' = <<>>
    OBVIOUS
  <2>1. reg_arm /\ ~arm /\ ~started /\ Hidden(fifo)
    BY <1>1
  <2>2. fifo = <<>>
    <3>1. fifo \in Seq(Entry(CAPTURE_LEN + 2)) /\ CAPTURE_LEN + 2 \in Nat
      BY <1>0, WrittenType DEF Types
    <3>2. \A i \in 1 .. Len(fifo) : fifo[i].age = FIFO_LATENCY
      BY <1>0, <2>1 DEF Idle
    <3>. QED BY <2>1, <3>1, <3>2, LeftoversShow
  <2>3. Len(fifo') = 0
    <3>1. Len(fifo) = 0
      BY <2>2
    <3>. QED BY <1>2, <3>1
  <2>4. \A A : \A t \in Seq(A) : Len(t) = 0 => t = <<>>
    OBVIOUS
  <2>. QED BY <1>2, <2>3, <2>4, Zenon
<1>13. left' > 0 /\ reg_arm' => reg_arm_r'
  <2>1. arm => left' = 0
    BY <1>1, <1>4
  <2>. QED BY <1>1, <2>1
<1>14. Armed'
  BY <1>6, <1>10, <1>11, <1>12, <1>13 DEF Armed
<1>15. Shown'
  <2> SUFFICES ASSUME ~empty_r', ~rd_dly', ~flushing' PROVE ~Hidden(fifo')
    BY <1>6 DEF Shown
  <2>1. ~Hidden(fifo) /\ ~read
    BY <1>1, <1>4
  <2>2. ~Taken(read)
    BY <1>1, <1>3, <2>1
  <2>. QED BY <1>2, <1>7, <2>1, <2>2
<1>16. FirstByte'
  <2> SUFFICES ASSUME ~empty_fifo_read', bytecnt' \in {1, 2} PROVE first_byte' = dout'
    BY DEF FirstByte
  <2>1. CASE rd_dly
    <3>1. ~read /\ ~empty_fifo_read /\ Receive /\ bytecnt' = (bytecnt + 1) % 4
      BY <1>3, <1>4, <2>1
    <3>2. bytecnt = 0 \/ bytecnt = 1
      BY <1>5, <3>1
    <3>3. ~flushing
      BY <1>5, <1>8, <1>9, <2>1
    <3>4. dout' = dout
      BY <1>1, <1>3, <3>1, <3>3
    <3>5. first_byte' = IF bytecnt = 0 THEN dout ELSE first_byte
      BY <3>1 DEF Receive, fifo_read_data
    <3>. QED BY <1>0, <3>1, <3>2, <3>4, <3>5 DEF FirstByte
  <2>2. CASE ~rd_dly
    <3>1. bytecnt' = bytecnt /\ first_byte' = first_byte
      BY <1>4, <2>2
    <3>2. left > 0
      BY <1>0, <1>5, <3>1 DEF Burst
    <3>3. ~Taken(read)
      BY <1>3, <1>8, <3>1, <3>2
    <3>4. dout' = dout /\ ~empty_fifo_read
      BY <1>1, <1>4, <3>1, <3>3
    <3>. QED BY <1>0, <3>1, <3>4 DEF FirstByte
  <2>. QED BY <2>1, <2>2
<1>. QED BY <1>14, <1>15, <1>16

\* While the capture is on: an entry taken from the FIFO is the next in hand, and
\* the third byte brings what is in hand to the host.
LEMMA UsbMoves ==
  ASSUME IInv, NEW read \in BOOLEAN, NEW arm \in BOOLEAN, NEW disarm \in BOOLEAN,
         UsbTick(read, arm, disarm), started', got \in Seq(Nat)
  PROVE  /\ started /\ ~arm
         /\ got' \in Seq(Nat)
         /\ Taken(read) => /\ ~HasHand /\ HasHand' /\ got' = got /\ bytecnt' = 0
                           /\ fifo # <<>> /\ dout' = fifo[1].entry
         /\ ~Taken(read) => dout' = dout
         /\ HasHand' => got' = got /\ (~Taken(read) => HasHand)
         /\ \/ got' = got /\ One(HasHand') = One(HasHand) + One(Taken(read))
            \/ /\ HasHand /\ ~HasHand' /\ ~Taken(read) /\ rd_dly /\ bytecnt = 2
               /\ dout \in Nat /\ got' = Append(got, dout)
         /\ Len(got') + One(HasHand') = Len(got) + One(HasHand) + One(Taken(read))
<1>0. Types /\ Burst /\ Armed /\ FirstByte
  BY DEF IInv
<1>1. /\ (started' <=> started /\ ~arm)
      /\ dout' = IF Taken(read) THEN Head(fifo).entry ELSE dout
  BY UsbFacts
<1>2. /\ read => ~rd_dly
      /\ read /\ bytecnt = 0 /\ ~empty_r /\ ~empty_fifo_read => Taken(read)
      /\ Taken(read) => flushing \/ (read /\ bytecnt = 0 /\ ~empty_r /\ ~empty_fifo_read)
  BY ReadFacts
<1>3. /\ (empty_fifo_read' <=> IF read /\ bytecnt = 0 /\ empty_r THEN TRUE
                               ELSE IF read /\ bytecnt = 3 /\ ~empty_r THEN FALSE
                               ELSE empty_fifo_read)
      /\ (rd_dly' <=> read)
      /\ bytecnt' = IF rd_dly THEN (bytecnt + 1) % 4 ELSE bytecnt
      /\ rd_dly => Receive
      /\ ~rd_dly /\ ~arm => got' = got
  BY HostFacts
<1>4. bytecnt \in 0 .. 3 /\ dout \in Nat /\ dout # STRM
  <2>1. CAPTURE_LEN \in Nat
    BY <1>0, SetupFacts
  <2>. QED BY <1>0, <2>1, SniffFifoAssumption DEF Types
<1>5. started /\ ~arm /\ ~flushing
  BY <1>0, <1>1 DEF Armed
<1>6. Taken(read) <=> read /\ bytecnt = 0 /\ ~empty_r /\ ~empty_fifo_read
  BY <1>2, <1>5
<1>7. Len(got) \in Nat
  OBVIOUS
<1>8. CASE Taken(read)
  <2>1. ~rd_dly /\ rd_dly' /\ bytecnt' = 0 /\ ~empty_fifo_read' /\ got' = got
    BY <1>2, <1>3, <1>5, <1>6, <1>8
  <2>2. ~HasHand /\ HasHand'
    BY <1>6, <1>8, <2>1 DEF HasHand
  <2>3. fifo # <<>> /\ Head(fifo) = fifo[1]
    BY <1>0, <1>8, StaysFacts
  <2>. QED BY <1>1, <1>5, <1>7, <1>8, <2>1, <2>2, <2>3 DEF One
<1>9. CASE ~Taken(read) /\ ~rd_dly
  <2>1. got' = got /\ bytecnt' = bytecnt /\ dout' = dout
    BY <1>1, <1>3, <1>5, <1>9
  <2>2. HasHand' <=> HasHand
    <3>1. bytecnt \in {1, 2} => (empty_fifo_read' <=> empty_fifo_read)
      BY <1>3
    <3>2. bytecnt = 0 /\ read => empty_fifo_read'
      <4> SUFFICES ASSUME bytecnt = 0, read PROVE empty_fifo_read'
        OBVIOUS
      <4>1. empty_r \/ empty_fifo_read
        BY <1>6, <1>9
      <4>2. empty_fifo_read' <=> IF empty_r THEN TRUE ELSE empty_fifo_read
        BY <1>3
      <4>. QED BY <4>1, <4>2
    <3>. QED BY <1>3, <1>9, <2>1, <3>1, <3>2 DEF HasHand
  <2>. QED BY <1>5, <1>7, <1>9, <2>1, <2>2 DEF One
<1>10. CASE ~Taken(read) /\ rd_dly
  <2>1. /\ Receive /\ ~read /\ ~rd_dly' /\ dout' = dout
        /\ (empty_fifo_read' <=> empty_fifo_read) /\ bytecnt' = (bytecnt + 1) % 4
    BY <1>1, <1>2, <1>3, <1>10
  <2>2. CASE bytecnt = 2 /\ ~empty_fifo_read
    <3>1. HasHand /\ ~HasHand'
      BY <2>1, <2>2 DEF HasHand
    <3>2. first_byte = dout
      BY <1>0, <2>2 DEF FirstByte
    <3>3. got' = Append(got, dout)
      BY <1>4, <2>1, <2>2, <3>2 DEF Receive, fifo_read_data
    <3>4. got' \in Seq(Nat) /\ Len(got') = Len(got) + 1
      BY <1>4, <3>3, SeqAppend
    <3>5. Len(got') + One(HasHand') = Len(got) + One(HasHand) + One(Taken(read))
      BY <1>7, <1>10, <3>1, <3>4 DEF One
    <3>. QED BY <1>4, <1>5, <1>10, <2>1, <2>2, <3>1, <3>3, <3>4, <3>5
  <2>3. CASE ~(bytecnt = 2 /\ ~empty_fifo_read)
    <3>1. got' = got
      BY <2>1, <2>3 DEF Receive, fifo_read_data
    <3>2. HasHand' <=> HasHand
      BY <1>4, <1>10, <2>1, <2>3 DEF HasHand
    <3>. QED BY <1>5, <1>7, <1>10, <2>1, <3>1, <3>2 DEF One
  <2>. QED BY <2>2, <2>3
<1>. QED BY <1>8, <1>9, <1>10

LEMMA UsbChain ==
  ASSUME IInv, NEW read \in BOOLEAN, NEW arm \in BOOLEAN, NEW disarm \in BOOLEAN,
         UsbTick(read, arm, disarm), Idle'
  PROVE  Chain'
<1>0. Types /\ Idle /\ Chain
  BY DEF IInv
<1>1. /\ UNCHANGED <<wr_en, din>>
      /\ (started' <=> started /\ ~arm) /\ (lost' <=> lost /\ ~arm)
      /\ count' = IF arm THEN 0 ELSE count
      /\ dout' = IF Taken(read) THEN Head(fifo).entry ELSE dout
  BY UsbFacts
<1>2. /\ Len(fifo') = Len(Stays(read)) /\ Len(fifo') \in Nat /\ Len(fifo) \in Nat
      /\ ~arm => \A i \in 1 .. Len(fifo') : fifo'[i].entry = Stays(read)[i].entry
  BY FifoAfter
<1> SUFFICES ASSUME ~lost' PROVE Chain'
  BY DEF Chain
\* Before the capture has begun there is nothing to number.
<1>6. CASE ~started'
  <2>1. got' = <<>> /\ ~HasHand' /\ ~wr_en'
    BY <1>0, <1>6 DEF Idle
  <2>2. <<>> \in Seq(Nat) /\ \A i \in 1 .. Len(<<>>) : <<>>[i] = i
    OBVIOUS
  <2>. QED BY <1>6, <2>1, <2>2 DEF Chain
<1>7. CASE started'
  <2>1. started /\ ~arm /\ ~lost
    BY <1>1, <1>7
  <2>2. /\ got \in Seq(Nat) /\ \A i \in 1 .. Len(got) : got[i] = i
        /\ HasHand => dout = Len(got) + 1
        /\ \A i \in 1 .. Len(fifo) : fifo[i].entry = Len(got) + One(HasHand) + i
        /\ Len(got) + One(HasHand) + Len(fifo) + One(wr_en) = count
        /\ wr_en => din = count
    BY <1>0, <2>1 DEF Chain
  <2> DEFINE base == Len(got) + One(HasHand)
  <2>3. base \in Nat /\ Len(got) \in Nat
    BY <2>2 DEF One
  \* What the host has received and holds.
  <2>5. /\ got' \in Seq(Nat) /\ \A i \in 1 .. Len(got') : got'[i] = i
        /\ HasHand' => dout' = Len(got') + 1
        /\ Len(got') + One(HasHand') = base + One(Taken(read))
    <3>1. /\ Taken(read) => ~HasHand /\ fifo # <<>> /\ dout' = fifo[1].entry
          /\ ~Taken(read) => dout' = dout
          /\ HasHand' => got' = got /\ (~Taken(read) => HasHand)
          /\ got' = got \/ (HasHand /\ dout \in Nat /\ got' = Append(got, dout))
          /\ got' \in Seq(Nat)
          /\ Len(got') + One(HasHand') = base + One(Taken(read))
      BY <1>7, <2>2, UsbMoves
    <3>2. ASSUME NEW i \in 1 .. Len(got') PROVE got'[i] = i
      <4>1. CASE got' = got
        BY <2>2, <4>1
      <4>2. CASE HasHand /\ dout \in Nat /\ got' = Append(got, dout)
        <5>1. /\ Len(got') = Len(got) + 1 /\ got'[Len(got) + 1] = dout
              /\ \A k \in 1 .. Len(got) : got'[k] = got[k]
          BY <2>2, <4>2, SeqAppend
        <5>2. i = Len(got) + 1 \/ i \in 1 .. Len(got)
          BY <2>3, <5>1
        <5>. QED BY <2>2, <4>2, <5>1, <5>2
      <4>. QED BY <3>1, <4>1, <4>2
    <3>3. HasHand' => dout' = Len(got') + 1
      <4>1. Taken(read) => fifo[1].entry = Len(got) + 1
        <5>1. Taken(read) => 1 \in 1 .. Len(fifo)
          BY <1>0, <1>2, StaysFacts
        <5>2. Taken(read) => One(HasHand) = 0
          BY <3>1 DEF One
        <5>. QED BY <2>2, <2>3, <5>1, <5>2
      <4>. QED BY <2>2, <3>1, <4>1
    <3>. QED BY <3>1, <3>2, <3>3
  \* What is left in the FIFO.
  <2> DEFINE next == Len(got') + One(HasHand')
  <2>6. next = base + One(Taken(read))
    BY <2>5
  <2>7. Len(fifo) = Len(fifo') + One(Taken(read))
    <3>1. CASE Taken(read)
      BY <1>0, <1>2, <3>1, StaysFacts DEF One
    <3>2. CASE ~Taken(read)
      BY <1>0, <1>2, <3>2, StaysFacts DEF One
    <3>. QED BY <3>1, <3>2
  <2>8. \A i \in 1 .. Len(fifo') : fifo'[i].entry = next + i
    <3> SUFFICES ASSUME NEW i \in 1 .. Len(fifo') PROVE fifo'[i].entry = next + i
      OBVIOUS
    <3>1. \A k \in 1 .. Len(fifo) : fifo[k].entry = base + k
      BY <2>2
    <3>2. fifo'[i].entry = Stays(read)[i].entry
      BY <1>2, <2>1
    <3> HIDE DEF base, next
    <3>3. CASE Taken(read)
      <4>1. Stays(read)[i] = fifo[i + 1]
        BY <1>0, <1>2, <3>3, StaysFacts
      <4>2. i + 1 \in 1 .. Len(fifo) /\ next = base + 1
        BY <1>2, <2>6, <2>7, <3>3 DEF One
      <4>3. fifo'[i].entry = base + (i + 1)
        BY <3>1, <3>2, <4>1, <4>2
      <4>. QED BY <2>3, <4>2, <4>3
    <3>4. CASE ~Taken(read)
      <4>1. Stays(read) = fifo /\ next = base /\ Len(fifo') = Len(fifo)
        BY <1>0, <1>2, <2>3, <2>6, <2>7, <3>4, StaysFacts DEF One
      <4>. QED BY <3>1, <3>2, <4>1
    <3>. QED BY <3>3, <3>4
  <2>9. next + Len(fifo') + One(wr_en') = count'
    <3>1. base + Len(fifo) + One(wr_en) = count
      BY <2>2
    <3>2. One(wr_en') = One(wr_en) /\ count' = count
      BY <1>1, <2>1 DEF One
    <3>3. One(Taken(read)) \in Nat /\ One(wr_en) \in Nat
      BY DEF One
    <3> HIDE DEF base, next
    <3>. QED BY <1>2, <2>3, <2>6, <2>7, <3>1, <3>2, <3>3
  <2>10. wr_en' => din' = count'
    BY <1>1, <2>1, <2>2
  <2>. QED BY <2>5, <2>8, <2>9, <2>10 DEF Chain
<1>. QED BY <1>6, <1>7

---------------------------------------------------------------------------
(* The specification.                                                      *)

LEMMA InitInv == ASSUME Init PROVE IInv
<1>1. /\ setup \in Setups
      /\ enable = FALSE /\ in_data = FALSE /\ data_wr = FALSE
      /\ count = 0 /\ wr_en = FALSE /\ din = 0 /\ overflow_blocked \in BOOLEAN
      /\ fifo \in {<<>>, <<Old>>} /\ prog_full = (Len(fifo) >= THRESHOLD)
      /\ reg_arm = FALSE /\ reg_arm_r = FALSE /\ flushing = FALSE
      /\ empty_r = (fifo = <<>>) /\ empty_fifo_read \in {empty_r, FALSE} /\ dout = 0
      /\ bytecnt = 0 /\ rd_dly = FALSE
      /\ left = 0 /\ got = <<>> /\ finished = TRUE /\ warned = FALSE
      /\ started = FALSE /\ lost = FALSE
  BY DEF Init
<1>2. /\ setup.len \in Nat \ {0} /\ setup.burst \in Nat \ {0}
      /\ setup.depth \in Nat /\ setup.threshold \in 1 .. (setup.depth - 1)
  BY <1>1, SniffFifoAssumption
<1>3. /\ CAPTURE_LEN \in Nat \ {0} /\ DEPTH \in Nat /\ BURST \in Nat \ {0}
      /\ THRESHOLD \in 1 .. DEPTH /\ THRESHOLD < DEPTH
  BY <1>2 DEF CAPTURE_LEN, DEPTH, BURST, THRESHOLD
<1>4. Old \in Entry(CAPTURE_LEN + 2) /\ Old.age = FIFO_LATENCY
  BY <1>3, SniffFifoAssumption DEF Old, Entry
<1>5. fifo \in Seq(Entry(CAPTURE_LEN + 2)) /\ \A i \in 1 .. Len(fifo) : fifo[i].age = FIFO_LATENCY
  <2>1. CASE fifo = <<>>
    BY <2>1
  <2>2. CASE fifo = <<Old>>
    BY <1>4, <2>2
  <2>. QED BY <1>1, <2>1, <2>2
<1>6. fifo # <<>> => ~Hidden(fifo)
  BY <1>3, <1>5, LeftoversShow
<1>7. Types
  <2>1. count \in Nat /\ din \in 0 .. CAPTURE_LEN + 2 /\ dout \in 0 .. CAPTURE_LEN + 2
        /\ left \in 0 .. BURST /\ bytecnt \in 0 .. 3
    BY <1>1, <1>3
  <2>2. empty_r \in BOOLEAN /\ prog_full \in BOOLEAN
    BY <1>1
  <2>3. empty_fifo_read \in BOOLEAN
    BY <1>1, <2>2
  <2>. QED BY <1>1, <1>5, <2>1, <2>2, <2>3 DEF Types
<1>8. CountInv
  BY <1>1, <1>3 DEF CountInv, One
<1>9. Room
  <2>1. Len(fifo) \in Nat
    BY <1>5
  <2>2. ~prog_full => ~(Len(fifo) >= THRESHOLD)
    BY <1>1
  <2>3. ~prog_full => Len(fifo) < THRESHOLD
    BY <1>3, <2>1, <2>2
  <2>. QED BY <1>1, <2>3 DEF Room
<1>10. Burst /\ Armed /\ FirstByte
  BY <1>1 DEF Burst, Armed, FirstByte
<1>11. ~HasHand
  BY <1>1 DEF HasHand
<1>12. Idle
  BY <1>1, <1>5, <1>11 DEF Idle
<1>13. Shown
  BY <1>1, <1>6 DEF Shown, sniff_fifo_empty, Hidden
<1>14. Chain
  <2>1. got \in Seq(Nat) /\ \A i \in 1 .. Len(got) : got[i] = i
    BY <1>1
  <2>. QED BY <1>1, <1>11, <2>1 DEF Chain
<1>. QED BY <1>7, <1>8, <1>9, <1>10, <1>12, <1>13, <1>14 DEF IInv

LEMMA StutterInv == ASSUME IInv, UNCHANGED vars PROVE IInv'
<1>1. /\ setup' = setup /\ count' = count /\ din' = din /\ dout' = dout /\ fifo' = fifo
      /\ left' = left /\ bytecnt' = bytecnt /\ reg_arm' = reg_arm /\ reg_arm_r' = reg_arm_r
      /\ flushing' = flushing /\ empty_r' = empty_r /\ empty_fifo_read' = empty_fifo_read
      /\ rd_dly' = rd_dly /\ finished' = finished /\ warned' = warned /\ lost' = lost
      /\ overflow_blocked' = overflow_blocked /\ prog_full' = prog_full
      /\ enable' = enable /\ started' = started /\ in_data' = in_data
      /\ data_wr' = data_wr /\ wr_en' = wr_en /\ got' = got /\ first_byte' = first_byte
  BY DEF vars, feVars, usbVars, hostVars
<1>2. /\ CAPTURE_LEN' = CAPTURE_LEN /\ DEPTH' = DEPTH /\ THRESHOLD' = THRESHOLD
      /\ BURST' = BURST /\ (sniff_fifo_empty' <=> sniff_fifo_empty) /\ (HasHand' <=> HasHand)
  BY <1>1 DEF CAPTURE_LEN, DEPTH, THRESHOLD, BURST, sniff_fifo_empty, HasHand
<1>3. Types'
  BY <1>1, <1>2 DEF IInv, Types
<1>4. CountInv' /\ Room' /\ Burst' /\ Idle'
  BY <1>1, <1>2 DEF IInv, CountInv, Room, Burst, Idle
<1>5. Armed' /\ Shown' /\ FirstByte'
  BY <1>1, <1>2 DEF IInv, Armed, Shown, FirstByte
<1>6. Chain'
  <2>1. One(HasHand') = One(HasHand)
    BY <1>2 DEF One
  <2>. QED BY <1>1, <1>2, <2>1 DEF IInv, Chain
<1>. QED BY <1>3, <1>4, <1>5, <1>6 DEF IInv

LEMMA NextInv == ASSUME IInv, [Next]_vars PROVE IInv'
<1>1. CASE FeStep
  <2>1. PICK event \in BOOLEAN, start \in BOOLEAN, falls \in BOOLEAN :
          FeTick(event, start, falls)
    BY <1>1 DEF FeStep
  <2>2. Types' /\ CountInv' /\ Room'
    BY <2>1, FeTypes
  <2>3. Burst' /\ Idle' /\ Armed' /\ Shown' /\ FirstByte'
    BY <2>1, FeReading
  <2>4. Chain'
    BY <2>1, FeChain
  <2>. QED BY <2>2, <2>3, <2>4 DEF IInv
<1>2. CASE UsbStep
  <2>1. PICK read \in BOOLEAN, arm \in BOOLEAN, disarm \in BOOLEAN :
          UsbTick(read, arm, disarm)
    BY <1>2 DEF UsbStep
  <2>2. Types' /\ CountInv' /\ Room' /\ Burst'
    BY <2>1, UsbTypes
  <2>3. Idle'
    BY <2>1, UsbIdle
  <2>4. Armed' /\ Shown' /\ FirstByte'
    BY <2>1, UsbArmed
  <2>5. Chain'
    BY <2>1, <2>3, UsbChain
  <2>. QED BY <2>2, <2>3, <2>4, <2>5 DEF IInv
<1>3. CASE UNCHANGED vars
  BY <1>3, StutterInv
<1>. QED BY <1>1, <1>2, <1>3 DEF Next

LEMMA Inductive == Spec => []IInv
<1>1. Init => IInv
  BY InitInv
<1>2. IInv /\ [Next]_vars => IInv'
  BY NextInv
<1>. QED BY <1>1, <1>2, PTL DEF Spec

(***************************************************************************)
(* The read strobe of reg_pw.v never meets an empty FIFO, although it is   *)
(* guarded by the empty flag of the cycle before: whatever the latency of  *)
(* that flag, the size of a burst and the moment the host begins to read.  *)
(***************************************************************************)
THEOREM NeverUnderflows == Spec => []NoUnderflow
<1>1. IInv => NoUnderflow
  <2> SUFFICES ASSUME IInv, HostMayRead, rd_en(TRUE) PROVE ~sniff_fifo_empty
    BY DEF NoUnderflow
  <2>1. Types /\ Armed /\ Shown
    BY DEF IInv
  <2>2. left \in Nat
    BY <2>1, SetupFacts DEF Types
  <2>3. ~rd_dly /\ ~flushing
    BY <2>1, <2>2 DEF HostMayRead, Armed
  <2>4. ~empty_r
    BY <2>3 DEF rd_en, fifo_read_condition, fifo_flush_condition
  <2>. QED BY <2>1, <2>3, <2>4 DEF Shown
<1>. QED BY <1>1, Inductive, PTL

(***************************************************************************)
(* reg_pw.v:397: the write strobe never meets a full FIFO, for every depth *)
(* and every threshold below it, and no more than two entries beyond those *)
(* asked for are counted.                                                  *)
(***************************************************************************)
THEOREM NeverOverflows == Spec => []NoOverflow
<1>1. IInv => NoOverflow
  <2> SUFFICES ASSUME IInv PROVE NoOverflow
    OBVIOUS
  <2>1. Types /\ CountInv /\ Room
    BY DEF IInv
  <2>2. CAPTURE_LEN \in Nat /\ DEPTH \in Nat /\ count \in Nat
    BY <2>1, SetupFacts DEF Types
  <2>3. count \in 0 .. CAPTURE_LEN + 2
    BY <2>1, <2>2 DEF CountInv, One
  <2>4. \A i \in DOMAIN fifo : fifo[i] \in Entry(CAPTURE_LEN + 2)
    BY <2>1 DEF Types
  <2>5. TypeOK
    BY <2>1, <2>3, <2>4 DEF Types, TypeOK, Entry
  <2>6. wr_en => ~sniff_fifo_full
    <3>1. Len(fifo) \in Nat
      BY <2>1 DEF Types
    <3>. QED BY <2>1, <2>2, <3>1 DEF Room, sniff_fifo_full
  <2>. QED BY <2>5, <2>6 DEF NoOverflow
<1>. QED BY <1>1, Inductive, PTL

\* Two sequences of the same length and elements are the same; one that is followed
\* by nothing, and one that is followed by another.
LEMMA SameSeq ==
  ASSUME NEW s \in Seq(Nat), NEW t \in Seq(Nat), Len(s) = Len(t),
         \A i \in 1 .. Len(s) : s[i] = t[i]
  PROVE  s = t
OBVIOUS

LEMMA Followed ==
  ASSUME NEW s \in Seq(Nat), NEW t \in Seq(Nat)
  PROVE  /\ s \o t \in Seq(Nat) /\ Len(s \o t) = Len(s) + Len(t)
         /\ \A i \in 1 .. Len(s) + Len(t) :
              (s \o t)[i] = IF i <= Len(s) THEN s[i] ELSE t[i - Len(s)]
OBVIOUS

\* A sequence that numbers on from n.
NumbersFrom(n, s) == s \in Seq(Nat) /\ \A i \in 1 .. Len(s) : s[i] = n + i

LEMMA NumbersOn ==
  ASSUME NEW n \in Nat, NEW s, NEW t, NumbersFrom(n, s), NumbersFrom(n + Len(s), t)
  PROVE  NumbersFrom(n, s \o t) /\ Len(s \o t) = Len(s) + Len(t)
<1>1. s \in Seq(Nat) /\ t \in Seq(Nat) /\ Len(s) \in Nat /\ Len(t) \in Nat
  BY DEF NumbersFrom
<1>2. s \o t \in Seq(Nat) /\ Len(s \o t) = Len(s) + Len(t)
  BY <1>1, Followed
<1>3. ASSUME NEW i \in 1 .. Len(s) + Len(t) PROVE (s \o t)[i] = n + i
  <2>1. (s \o t)[i] = IF i <= Len(s) THEN s[i] ELSE t[i - Len(s)]
    BY <1>1, Followed
  <2>2. CASE i <= Len(s)
    BY <1>1, <2>1, <2>2 DEF NumbersFrom
  <2>3. CASE ~(i <= Len(s))
    <3>1. i - Len(s) \in 1 .. Len(t)
      BY <1>1, <2>3
    <3>2. t[i - Len(s)] = n + Len(s) + (i - Len(s))
      BY <3>1 DEF NumbersFrom
    <3>. QED BY <1>1, <2>1, <2>3, <3>2
  <2>. QED BY <2>2, <2>3
<1>. QED BY <1>2, <1>3 DEF NumbersFrom

LEMMA NumberedThrough ==
  ASSUME NEW s, NEW n \in Nat, NumbersFrom(0, s), Len(s) = n
  PROVE  s = [i \in 1 .. n |-> i]
<1> DEFINE t == [i \in 1 .. n |-> i]
<1>1. t \in Seq(Nat) /\ Len(t) = n /\ \A i \in 1 .. n : t[i] = i
  OBVIOUS
<1>2. s \in Seq(Nat) /\ \A i \in 1 .. n : s[i] = i
  BY DEF NumbersFrom
<1> HIDE DEF t
<1>3. s = t
  BY <1>1, <1>2, SameSeq
<1>. QED BY <1>3 DEF t

LEMMA NumbersOne == ASSUME NEW n \in Nat, NEW x, x = n + 1
                    PROVE  NumbersFrom(n, <<x>>) /\ Len(<<x>>) = 1
BY DEF NumbersFrom

LEMMA NumbersNone == ASSUME NEW n \in Nat PROVE NumbersFrom(n, <<>>) /\ Len(<<>>) = 0
BY DEF NumbersFrom

(***************************************************************************)
(* Capture, FIFO and read_capture_data() together: as long as no entry is  *)
(* refused, what the host has received, the entry in its hand, those in    *)
(* the FIFO and the one being written are the entries of this capture,     *)
(* each once and in order, whatever the host reads while the FIFO is empty *)
(* and whatever an earlier capture left in it.                             *)
(***************************************************************************)
THEOREM EntriesInOrder == Spec => []EachEntryOnce
<1>1. IInv => EachEntryOnce
  <2> SUFFICES ASSUME IInv, ~lost PROVE got \o InHand \o InFifo = [i \in 1 .. count |-> i]
    BY DEF EachEntryOnce
  <2>1. Types /\ Chain /\ Idle
    BY DEF IInv
  <2>2. /\ got \in Seq(Nat) /\ \A i \in 1 .. Len(got) : got[i] = i
        /\ HasHand => dout = Len(got) + 1
        /\ wr_en => din = count
    BY <2>1 DEF Chain
  <2>3. Len(got) \in Nat /\ NumbersFrom(0, got)
    BY <2>2 DEF NumbersFrom
  <2>4. NumbersFrom(0 + Len(got), InHand) /\ Len(InHand) = One(HasHand)
    <3>1. CASE HasHand
      <4>1. InHand = <<dout>>
        BY <3>1 DEF InHand, HasHand
      <4>. QED BY <2>2, <2>3, <3>1, <4>1, NumbersOne DEF One
    <3>2. CASE ~HasHand
      <4>1. InHand = <<>>
        BY <3>2 DEF InHand, HasHand
      <4>. QED BY <2>3, <3>2, <4>1, NumbersNone DEF One
    <3>. QED BY <3>1, <3>2
  <2> DEFINE base == Len(got) + One(HasHand)
  <2>5. base \in Nat /\ NumbersFrom(0, got \o InHand) /\ Len(got \o InHand) = base
    <3>1. One(HasHand) \in Nat
      BY DEF One
    <3>. QED BY <2>3, <2>4, <3>1, NumbersOn
  <2>6. NumbersFrom(0 + base, InFifo) /\ base + Len(InFifo) = count
    <3> HIDE DEF base
    <3>1. CASE ~started
      <4>1. got = <<>> /\ ~HasHand /\ count = 0 /\ InFifo = <<>>
        BY <2>1, <3>1 DEF Idle, InFifo
      <4>2. base = 0
        BY <4>1 DEF base, One
      <4>. QED BY <4>1, <4>2, NumbersNone
    <3>2. CASE started
      <4> DEFINE stored == [i \in DOMAIN fifo |-> fifo[i].entry]
      <4>1. /\ \A i \in 1 .. Len(fifo) : fifo[i].entry = base + i
            /\ base + Len(fifo) + One(wr_en) = count
        BY <2>1, <3>2 DEF Chain, base
      <4>2. Len(fifo) \in Nat /\ DOMAIN fifo = 1 .. Len(fifo)
        BY <2>1 DEF Types
      <4>3. NumbersFrom(base, stored) /\ Len(stored) = Len(fifo)
        <5>1. stored = [i \in 1 .. Len(fifo) |-> base + i]
          BY <4>1, <4>2
        <5> HIDE DEF stored
        <5>2. stored \in Seq(Nat) /\ Len(stored) = Len(fifo)
              /\ \A i \in 1 .. Len(fifo) : stored[i] = base + i
          BY <2>5, <4>2, <5>1
        <5>. QED BY <5>2 DEF NumbersFrom
      <4>4. InFifo = stored \o IF wr_en THEN <<din>> ELSE <<>>
        BY <3>2 DEF InFifo
      <4> HIDE DEF stored
      <4>5. base + Len(fifo) \in Nat
        BY <2>5, <4>2
      <4>6. CASE wr_en
        <5>1. din = base + Len(fifo) + 1 /\ One(wr_en) = 1
          BY <2>2, <4>1, <4>6 DEF One
        <5>2. NumbersFrom(base + Len(stored), <<din>>) /\ Len(<<din>>) = 1
          BY <4>3, <4>5, <5>1, NumbersOne
        <5>3. NumbersFrom(base, InFifo) /\ Len(InFifo) = Len(fifo) + 1
          <6>1. InFifo = stored \o <<din>>
            BY <4>4, <4>6
          <6>2. /\ NumbersFrom(base, stored \o <<din>>)
                /\ Len(stored \o <<din>>) = Len(stored) + Len(<<din>>)
            BY <2>5, <4>3, <5>2, NumbersOn, Zenon
          <6>. QED BY <4>3, <5>2, <6>1, <6>2
        <5>. QED BY <2>5, <4>1, <4>2, <5>1, <5>3
      <4>7. CASE ~wr_en
        <5>1. One(wr_en) = 0
          BY <4>7 DEF One
        <5>2. NumbersFrom(base + Len(stored), <<>>) /\ Len(<<>>) = 0
          BY <4>3, <4>5, NumbersNone
        <5>3. NumbersFrom(base, InFifo) /\ Len(InFifo) = Len(fifo) + 0
          BY <2>5, <4>3, <4>4, <4>7, <5>2, NumbersOn
        <5>. QED BY <2>5, <4>1, <4>2, <5>1, <5>3
      <4>. QED BY <4>6, <4>7
    <3>. QED BY <3>1, <3>2
  <2> HIDE DEF base
  <2>7. NumbersFrom(0, (got \o InHand) \o InFifo) /\ Len((got \o InHand) \o InFifo) = count
    <3> DEFINE s == got \o InHand
    <3>1. NumbersFrom(0, s) /\ Len(s) = base /\ NumbersFrom(0 + Len(s), InFifo) /\ 0 \in Nat
      BY <2>5, <2>6
    <3> HIDE DEF s
    <3>2. NumbersFrom(0, s \o InFifo) /\ Len(s \o InFifo) = Len(s) + Len(InFifo)
      BY <3>1, NumbersOn, Zenon
    <3>. QED BY <2>6, <3>1, <3>2 DEF s
  <2>8. count \in Nat
    BY <2>1 DEF Types
  <2>. QED BY <2>7, <2>8, NumberedThrough
<1>. QED BY <1>1, Inductive, PTL
---------------------------------------------------------------------------
(* The warning.                                                            *)

\* The ARM bit is down on both sides, and stays so until the host arms again.
ArmDown == ~reg_arm /\ arm_pipe = <<FALSE, FALSE, FALSE>>

\* The FIFO fills and refuses only after that: the flag of it is not cleared.
Filling ==
  /\ started => Len(fifo) + One(wr_en) <= count
  /\ started /\ prog_full => count >= THRESHOLD
  /\ ~ArmDown => /\ in_data => count + 2 < THRESHOLD
                 /\ data_wr => count + 1 < THRESHOLD
  /\ lost => started /\ ArmDown /\ overflow_blocked

\* An entry out of its place was stored behind a refused one; the flag of that is
\* ahead of it on the way to the host.
Seen ==
  started =>
    /\ \A i \in 1 .. Len(fifo) :
         fifo[i].age > 0 /\ fifo[i].entry # Len(got) + One(HasHand) + i => overflow_pipe[1]
    /\ HasHand /\ dout # Len(got) + 1 =>
         overflow_pipe[1] /\ overflow_pipe[2] /\ (bytecnt # 0 => overflow_pipe[3])
    /\ (\E i \in 1 .. Len(got) : got[i] # i) =>
         overflow_pipe[1] /\ overflow_pipe[2] /\ overflow_pipe[3]

\* When read_capture_data() has what it returns, a byte of the burst is left.
Ended ==
  /\ got \in Seq(Nat)
  /\ finished => left = 0 \/ (left = 1 /\ bytecnt = 3)
  /\ finished /\ ~warned => \A i \in 1 .. Len(got) : got[i] = i

Warning == Filling /\ Seen /\ Ended

LEMMA InitWarning == ASSUME Init PROVE Warning
<1>1. /\ arm_pipe = <<FALSE, FALSE, FALSE>> /\ ~reg_arm /\ ~started /\ ~lost
      /\ left = 0 /\ got = <<>>
  BY DEF Init
<1>2. Filling
  BY <1>1 DEF Filling, ArmDown
<1>3. Seen
  BY <1>1 DEF Seen
<1>4. Ended
  <2>1. got \in Seq(Nat) /\ \A i \in 1 .. Len(got) : got[i] = i
    BY <1>1
  <2>. QED BY <1>1, <2>1 DEF Ended
<1>. QED BY <1>2, <1>3, <1>4 DEF Warning

LEMMA FeFilling ==
  ASSUME IInv, Filling, NEW event \in BOOLEAN, NEW start \in BOOLEAN, NEW falls \in BOOLEAN,
         FeTick(event, start, falls)
  PROVE  Filling'
<1>0. Types /\ Idle /\ Armed
  BY DEF IInv
<1>1. /\ setup' = setup /\ UNCHANGED usbVars
      /\ (started' <=> started \/ start)
      /\ start => reg_arm /\ reg_arm_r /\ ~flushing /\ ~started
      /\ (data_wr' <=> in_data) /\ count' = count + One(data_wr)
      /\ (wr_en' <=> data_wr /\ ~prog_full)
      /\ (lost' <=> lost \/ (data_wr /\ prog_full))
      /\ fifo' = IF wr_en THEN Append(fifo, Written) ELSE fifo
  BY FeFacts
<1>2. /\ Capture(event, start) /\ WriteFifo /\ FifoWrite(falls)
  BY DEF FeTick
<1>3. /\ event /\ (reg_arm \/ arm_pipe # <<FALSE, FALSE, FALSE>>) => count + 3 < THRESHOLD
      /\ start => ~prog_full
      /\ in_data' => event
  BY <1>2 DEF Capture, FillsAfterDisarm, FullFellWithFlush
<1>4. /\ overflow_blocked' = (DropNoted \/ (overflow_blocked /\ ~arm_pipe[3]))
      /\ arm_pipe' = <<reg_arm, arm_pipe[1], arm_pipe[2]>>
  BY <1>2 DEF WriteFifo, Pushed
<1>5. prog_full' => prog_full \/ Len(fifo') >= THRESHOLD
  BY <1>1, <1>2 DEF FifoWrite, THRESHOLD
<1>6. /\ count \in Nat /\ Len(fifo) \in Nat /\ THRESHOLD \in Nat \ {0} /\ THRESHOLD' = THRESHOLD
  BY <1>0, <1>1, SetupFacts DEF Types, THRESHOLD
<1>7. ArmDown => ArmDown'
  <2> SUFFICES ASSUME ~reg_arm, arm_pipe = <<FALSE, FALSE, FALSE>> PROVE ArmDown'
    BY DEF ArmDown
  <2>1. ~reg_arm'
    BY <1>1 DEF usbVars
  <2>2. arm_pipe' = <<FALSE, FALSE, FALSE>>
    <3>1. reg_arm = FALSE
      BY <1>0 DEF Types
    <3>. QED BY <1>4, <3>1
  <2>. QED BY <2>1, <2>2 DEF ArmDown
<1>8. ~ArmDown /\ event => count + 3 < THRESHOLD
  BY <1>3 DEF ArmDown
<1>9. /\ started => Len(fifo) + One(wr_en) <= count
      /\ started /\ prog_full => count >= THRESHOLD
      /\ ~ArmDown => /\ in_data => count + 2 < THRESHOLD
                     /\ data_wr => count + 1 < THRESHOLD
      /\ lost => started /\ ArmDown /\ overflow_blocked
  BY DEF Filling
<1>10. start => fifo = <<>> /\ ~wr_en /\ ~data_wr /\ count = 0
  BY <1>0, <1>1 DEF Armed, Idle
<1>11. Len(fifo') = Len(fifo) + One(wr_en)
  <2>1. fifo \in Seq(Entry(CAPTURE_LEN + 2)) /\ Written \in Entry(CAPTURE_LEN + 2)
    BY <1>0, WrittenType DEF Types
  <2>2. Len(Append(fifo, Written)) = Len(fifo) + 1
    BY <2>1, SeqAppend
  <2>. QED BY <1>1, <1>6, <2>2 DEF One
<1>12. started' => Len(fifo') + One(wr_en') <= count'
  <2>1. started' => Len(fifo) + One(wr_en) <= count
    <3>1. start => Len(fifo) = 0
      BY <1>10
    <3>. QED BY <1>1, <1>9, <1>10, <3>1 DEF One
  <2>2. One(wr_en') <= One(data_wr) /\ One(wr_en') \in Nat /\ One(data_wr) \in Nat
        /\ One(wr_en) \in Nat
    BY <1>1 DEF One
  <2>. QED BY <1>1, <1>6, <1>11, <2>1, <2>2
<1>13. started' /\ prog_full' => count' >= THRESHOLD
  <2> SUFFICES ASSUME started', prog_full' PROVE count' >= THRESHOLD
    OBVIOUS
  <2>1. count' \in Nat /\ count' >= count /\ Len(fifo') \in Nat /\ One(wr_en') \in Nat
    BY <1>1, <1>6, <1>11 DEF One
  <2>2. CASE Len(fifo') >= THRESHOLD
    BY <1>6, <1>12, <2>1, <2>2
  <2>3. CASE ~(Len(fifo') >= THRESHOLD)
    <3>1. prog_full /\ started
      BY <1>1, <1>3, <1>5, <2>3
    <3>. QED BY <1>6, <1>9, <2>1, <3>1
  <2>. QED BY <2>2, <2>3
<1>14. ~ArmDown' => /\ in_data' => count' + 2 < THRESHOLD
                    /\ data_wr' => count' + 1 < THRESHOLD
  <2> SUFFICES ASSUME ~ArmDown'
               PROVE  /\ in_data' => count' + 2 < THRESHOLD
                      /\ data_wr' => count' + 1 < THRESHOLD
    OBVIOUS
  <2>1. count' \in Nat /\ count' <= count + 1
    BY <1>1, <1>6 DEF One
  <2>2. in_data' => count + 3 < THRESHOLD
    BY <1>3, <1>7, <1>8
  <2>3. data_wr' => count + 2 < THRESHOLD
    BY <1>1, <1>7, <1>9
  <2>4. \A k, l, T \in Nat : l <= k + 1 => /\ k + 3 < T => l + 2 < T
                                           /\ k + 2 < T => l + 1 < T
    OBVIOUS
  <2>5. THRESHOLD \in Nat
    BY <1>6
  <2>6. /\ count + 3 < THRESHOLD => count' + 2 < THRESHOLD
        /\ count + 2 < THRESHOLD => count' + 1 < THRESHOLD
    BY <1>6, <2>1, <2>4, <2>5, Zenon
  <2>. QED BY <2>2, <2>3, <2>6, Zenon
<1>15. lost' => started' /\ ArmDown' /\ overflow_blocked'
  <2>1. CASE lost
    <3>1. started /\ ArmDown /\ overflow_blocked
      BY <1>9, <2>1
    <3>2. ~arm_pipe[3]
      BY <3>1 DEF ArmDown
    <3>. QED BY <1>1, <1>4, <1>7, <3>1, <3>2
  <2>2. CASE data_wr /\ prog_full
    <3>1. started
      BY <1>0, <2>2 DEF Idle
    <3>2. ArmDown
      BY <1>6, <1>9, <2>2, <3>1
    <3>3. overflow_blocked'
      BY <1>4, <2>2 DEF DropNoted
    <3>. QED BY <1>1, <1>7, <3>1, <3>2, <3>3
  <2>. QED BY <1>1, <2>1, <2>2
<1>. QED BY <1>6, <1>12, <1>13, <1>14, <1>15 DEF Filling

LEMMA FeWarning ==
  ASSUME IInv, Warning, NEW event \in BOOLEAN, NEW start \in BOOLEAN, NEW falls \in BOOLEAN,
         FeTick(event, start, falls)
  PROVE  Warning'
<1>0. Types /\ Idle /\ Armed /\ Filling /\ Seen /\ Ended
  BY DEF IInv, Warning
<1>1. Filling'
  BY <1>0, FeFilling
<1>2. /\ UNCHANGED usbVars /\ UNCHANGED hostVars
      /\ (started' <=> started \/ start)
      /\ start => reg_arm /\ reg_arm_r /\ ~flushing /\ ~started
      /\ fifo' = IF wr_en THEN Append(fifo, Written) ELSE fifo
  BY FeFacts
<1>3. /\ got' = got /\ dout' = dout /\ left' = left /\ bytecnt' = bytecnt /\ finished' = finished
      /\ warned' = warned /\ overflow_pipe' = overflow_pipe /\ (HasHand' <=> HasHand)
  BY <1>2 DEF HasHand, usbVars, hostVars
<1>4. Ended'
  BY <1>0, <1>3 DEF Ended
<1>5. Seen'
  <2> SUFFICES ASSUME started' PROVE Seen'
    BY DEF Seen
  <2>1. /\ One(HasHand') = One(HasHand)
    BY <1>3 DEF One
  <2>2. start => fifo = <<>> /\ ~wr_en /\ got = <<>> /\ ~HasHand
    BY <1>0, <1>2 DEF Armed, Idle
  <2>3. /\ HasHand /\ dout # Len(got) + 1 =>
             overflow_pipe[1] /\ overflow_pipe[2] /\ (bytecnt # 0 => overflow_pipe[3])
        /\ (\E i \in 1 .. Len(got) : got[i] # i) =>
             overflow_pipe[1] /\ overflow_pipe[2] /\ overflow_pipe[3]
    BY <1>0, <1>2, <2>2 DEF Seen
  <2>4. \A i \in 1 .. Len(fifo) :
          fifo[i].age > 0 /\ fifo[i].entry # Len(got) + One(HasHand) + i => overflow_pipe[1]
    BY <1>0, <1>2, <2>2 DEF Seen
  <2>5. ASSUME NEW i \in 1 .. Len(fifo'), fifo'[i].age > 0,
               fifo'[i].entry # Len(got) + One(HasHand) + i
        PROVE  overflow_pipe[1]
    <3>1. CASE ~wr_en
      <4>1. fifo' = fifo
        BY <1>2, <3>1
      <4>. QED BY <2>4, <2>5, <4>1
    <3>2. CASE wr_en
      <4>1. fifo \in Seq(Entry(CAPTURE_LEN + 2)) /\ Written \in Entry(CAPTURE_LEN + 2)
        BY <1>0, WrittenType DEF Types
      <4>2. /\ Len(fifo') = Len(fifo) + 1 /\ fifo'[Len(fifo) + 1] = Written
            /\ \A k \in 1 .. Len(fifo) : fifo'[k] = fifo[k]
        BY <1>2, <3>2, <4>1, SeqAppend
      <4>3. i # Len(fifo) + 1
        BY <2>5, <4>2 DEF Written
      <4>4. i \in 1 .. Len(fifo)
        BY <4>1, <4>2, <4>3
      <4>. QED BY <2>4, <2>5, <4>2, <4>4
    <3>. QED BY <3>1, <3>2
  <2>6. \A i \in 1 .. Len(fifo') :
          fifo'[i].age > 0 /\ fifo'[i].entry # Len(got) + One(HasHand) + i => overflow_pipe[1]
    BY <2>5
  <2>. QED BY <1>3, <2>1, <2>3, <2>6 DEF Seen
<1>. QED BY <1>1, <1>4, <1>5 DEF Warning

LEMMA UsbFilling ==
  ASSUME IInv, Filling, NEW read \in BOOLEAN, NEW arm \in BOOLEAN, NEW disarm \in BOOLEAN,
         UsbTick(read, arm, disarm)
  PROVE  Filling'
<1>0. Types
  BY DEF IInv
<1>1. /\ setup' = setup
      /\ UNCHANGED <<enable, in_data, data_wr, wr_en, din, overflow_blocked, prog_full>>
      /\ arm => ~in_data /\ ~data_wr /\ ~wr_en
      /\ (reg_arm' <=> arm \/ (reg_arm /\ ~disarm))
      /\ (started' <=> started /\ ~arm) /\ (lost' <=> lost /\ ~arm)
      /\ count' = IF arm THEN 0 ELSE count
  BY UsbFacts
<1>2. Len(fifo') \in Nat /\ Len(fifo) \in Nat /\ Len(fifo') <= Len(fifo)
  BY FifoAfter
<1>3. arm_pipe' = arm_pipe /\ THRESHOLD' = THRESHOLD /\ THRESHOLD \in Nat
  BY <1>0, <1>1, SetupFacts DEF UsbTick, THRESHOLD
<1>4. /\ started => Len(fifo) + One(wr_en) <= count
      /\ started /\ prog_full => count >= THRESHOLD
      /\ ~ArmDown => /\ in_data => count + 2 < THRESHOLD
                     /\ data_wr => count + 1 < THRESHOLD
      /\ lost => started /\ ArmDown /\ overflow_blocked
  BY DEF Filling
<1>5. CASE arm
  BY <1>1, <1>5 DEF Filling
<1>6. CASE ~arm
  <2>1. ArmDown => ArmDown'
    BY <1>1, <1>3, <1>6 DEF ArmDown
  <2>2. count' = count /\ count \in Nat /\ One(wr_en) \in Nat /\ One(wr_en') = One(wr_en)
    BY <1>0, <1>1, <1>6 DEF Types, One
  <2>3. started' => Len(fifo') + One(wr_en') <= count'
    BY <1>1, <1>2, <1>4, <2>2
  <2>4. started' /\ prog_full' => count' >= THRESHOLD'
    BY <1>1, <1>3, <1>4, <2>2
  <2>5. ~ArmDown' => /\ in_data' => count' + 2 < THRESHOLD'
                     /\ data_wr' => count' + 1 < THRESHOLD'
    BY <1>1, <1>3, <1>4, <2>1, <2>2
  <2>6. lost' => started' /\ ArmDown' /\ overflow_blocked'
    BY <1>1, <1>4, <1>6, <2>1
  <2>. QED BY <2>3, <2>4, <2>5, <2>6 DEF Filling
<1>. QED BY <1>5, <1>6

\* What is out of its place is so because an entry was refused.
LEMMA OutOfPlace ==
  ASSUME IInv, Filling, started
  PROVE  /\ (\E i \in 1 .. Len(fifo) : fifo[i].entry # Len(got) + One(HasHand) + i)
              => overflow_blocked
         /\ HasHand /\ dout # Len(got) + 1 => overflow_blocked
         /\ (\E i \in 1 .. Len(got) : got[i] # i) => overflow_blocked
<1>1. Chain
  BY DEF IInv
<1>. QED BY <1>1 DEF Chain, Filling

LEMMA UsbSeen ==
  ASSUME IInv, Filling, Seen, Ended,
         NEW read \in BOOLEAN, NEW arm \in BOOLEAN, NEW disarm \in BOOLEAN,
         UsbTick(read, arm, disarm)
  PROVE  Seen'
<1> SUFFICES ASSUME started' PROVE Seen'
  BY DEF Seen
<1>0. Types
  BY DEF IInv
<1>1. /\ started /\ ~arm /\ got \in Seq(Nat) /\ got' \in Seq(Nat)
      /\ Taken(read) => /\ ~HasHand /\ HasHand' /\ got' = got /\ bytecnt' = 0
                        /\ fifo # <<>> /\ dout' = fifo[1].entry
      /\ ~Taken(read) => dout' = dout
      /\ HasHand' => got' = got /\ (~Taken(read) => HasHand)
      /\ \/ got' = got /\ One(HasHand') = One(HasHand) + One(Taken(read))
         \/ /\ HasHand /\ ~HasHand' /\ ~Taken(read) /\ rd_dly /\ bytecnt = 2
            /\ dout \in Nat /\ got' = Append(got, dout)
      /\ Len(got') + One(HasHand') = Len(got) + One(HasHand) + One(Taken(read))
  <2>1. got \in Seq(Nat)
    BY DEF Ended
  <2>. QED BY <2>1, UsbMoves
<1>2. /\ overflow_pipe'[1] = overflow_blocked /\ overflow_pipe'[2] = overflow_pipe[1]
      /\ overflow_pipe'[3] = overflow_pipe[2]
  BY DEF UsbTick, Pushed
<1>3. /\ \A i \in 1 .. Len(fifo) :
           fifo[i].age > 0 /\ fifo[i].entry # Len(got) + One(HasHand) + i => overflow_pipe[1]
      /\ HasHand /\ dout # Len(got) + 1 =>
           overflow_pipe[1] /\ overflow_pipe[2] /\ (bytecnt # 0 => overflow_pipe[3])
      /\ (\E i \in 1 .. Len(got) : got[i] # i) =>
           overflow_pipe[1] /\ overflow_pipe[2] /\ overflow_pipe[3]
  BY <1>1 DEF Seen
<1>4. /\ (\E i \in 1 .. Len(fifo) : fifo[i].entry # Len(got) + One(HasHand) + i)
           => overflow_blocked
      /\ HasHand /\ dout # Len(got) + 1 => overflow_blocked
      /\ (\E i \in 1 .. Len(got) : got[i] # i) => overflow_blocked
  BY <1>1, OutOfPlace
<1>5. /\ Len(fifo') = Len(Stays(read)) /\ Len(fifo') \in Nat /\ Len(fifo) \in Nat
      /\ \A i \in 1 .. Len(fifo') : fifo'[i].entry = Stays(read)[i].entry
  BY <1>1, FifoAfter
<1>6. Len(got) \in Nat /\ One(HasHand) \in Nat /\ One(Taken(read)) \in Nat
  BY <1>1 DEF One
<1>7. ASSUME NEW i \in 1 .. Len(fifo'), fifo'[i].entry # Len(got') + One(HasHand') + i
      PROVE  overflow_pipe'[1]
  <2>1. \E k \in 1 .. Len(fifo) : fifo[k].entry # Len(got) + One(HasHand) + k
    <3>1. CASE Taken(read)
      <4>1. Stays(read)[i] = fifo[i + 1] /\ i + 1 \in 1 .. Len(fifo)
        BY <1>0, <1>5, <3>1, StaysFacts
      <4>2. Len(got') + One(HasHand') + i = Len(got) + One(HasHand) + (i + 1)
        <5>1. One(Taken(read)) = 1
          BY <3>1 DEF One
        <5>2. \A l \in Nat : l = Len(got) + One(HasHand) + 1
                => l + i = Len(got) + One(HasHand) + (i + 1)
          BY <1>6
        <5>3. Len(got) + One(HasHand) + 1 \in Nat
          BY <1>6
        <5>. QED BY <1>1, <5>1, <5>2, <5>3
      <4>3. fifo'[i].entry = fifo[i + 1].entry
        BY <1>5, <4>1
      <4>. QED BY <1>7, <4>1, <4>2, <4>3
    <3>2. CASE ~Taken(read)
      <4>1. Stays(read) = fifo
        BY <1>0, <3>2, StaysFacts
      <4>2. Len(got') + One(HasHand') = Len(got) + One(HasHand)
        BY <1>1, <1>6, <3>2 DEF One
      <4>. QED BY <1>5, <1>7, <4>1, <4>2
    <3>. QED BY <3>1, <3>2
  <2>. QED BY <1>2, <1>4, <2>1
<1>8. HasHand' /\ dout' # Len(got') + 1 =>
        overflow_pipe'[1] /\ overflow_pipe'[2] /\ (bytecnt' # 0 => overflow_pipe'[3])
  <2> SUFFICES ASSUME HasHand', dout' # Len(got) + 1
               PROVE  overflow_pipe'[1] /\ overflow_pipe'[2] /\ (bytecnt' # 0 => overflow_pipe'[3])
    BY <1>1
  <2>1. CASE Taken(read)
    <3>1. 1 \in 1 .. Len(fifo) /\ fifo[1] \in Entry(CAPTURE_LEN + 2) /\ Head(fifo) = fifo[1]
      BY <1>0, <1>5, <2>1, StaysFacts
    <3>2. fifo[1].age > 0
      <4>1. ~(Head(fifo).age < FIFO_LATENCY)
        BY <2>1 DEF Taken, sniff_fifo_empty
      <4>. QED BY <3>1, <4>1, SniffFifoAssumption DEF Entry
    <3>3. fifo[1].entry # Len(got) + One(HasHand) + 1
      <4>1. One(HasHand) = 0
        BY <1>1, <2>1 DEF One
      <4>. QED BY <1>1, <1>6, <2>1, <4>1
    <3>. QED BY <1>1, <1>2, <1>3, <1>4, <2>1, <3>1, <3>2, <3>3
  <2>2. CASE ~Taken(read)
    BY <1>1, <1>2, <1>3, <1>4, <2>2
  <2>. QED BY <2>1, <2>2
<1>9. ASSUME NEW i \in 1 .. Len(got'), got'[i] # i
      PROVE  overflow_pipe'[1] /\ overflow_pipe'[2] /\ overflow_pipe'[3]
  <2>1. CASE got' = got
    BY <1>2, <1>3, <1>4, <1>9, <2>1
  <2>2. CASE HasHand /\ bytecnt = 2 /\ dout \in Nat /\ got' = Append(got, dout)
    <3>1. /\ Len(got') = Len(got) + 1 /\ got'[Len(got) + 1] = dout
          /\ \A k \in 1 .. Len(got) : got'[k] = got[k]
      BY <1>1, <2>2, SeqAppend
    <3>2. i = Len(got) + 1 \/ i \in 1 .. Len(got)
      BY <1>6, <3>1
    <3>. QED BY <1>2, <1>3, <1>4, <1>9, <2>2, <3>1, <3>2
  <2>. QED BY <1>1, <2>1, <2>2
<1>. QED BY <1>7, <1>8, <1>9 DEF Seen

LEMMA UsbEnded ==
  ASSUME IInv, Filling, Seen, Ended, Idle',
         NEW read \in BOOLEAN, NEW arm \in BOOLEAN, NEW disarm \in BOOLEAN,
         UsbTick(read, arm, disarm)
  PROVE  Ended'
<1>0. Types /\ Burst /\ Idle
  BY DEF IInv
<1>1. /\ read => ~rd_dly /\ ~arm
      /\ read /\ finished => left > 0
  <2>1. read => HostMayRead /\ ~arm
    BY DEF UsbTick, Host
  <2>. QED BY <2>1 DEF HostMayRead
<1>2. /\ bytecnt' = IF rd_dly THEN (bytecnt + 1) % 4 ELSE bytecnt
      /\ rd_dly => Receive
      /\ ~rd_dly /\ arm => got' = <<>> /\ ~finished'
      /\ ~rd_dly /\ ~arm => /\ left' = IF read /\ left = 0 THEN BURST ELSE left
                            /\ UNCHANGED <<first_byte, got, finished, warned>>
  BY HostFacts
<1>3. bytecnt \in 0 .. 3 /\ left \in Nat /\ arm => ~rd_dly
  <2>1. arm => ~rd_dly
    BY UsbFacts
  <2>. QED BY <1>0, <2>1, SetupFacts DEF Types
<1>4. /\ got \in Seq(Nat)
      /\ finished => left = 0 \/ (left = 1 /\ bytecnt = 3)
      /\ finished /\ ~warned => \A i \in 1 .. Len(got) : got[i] = i
  BY DEF Ended
<1>5. /\ got' \in Seq(Nat)
      /\ started' => \/ got' = got
                     \/ HasHand /\ rd_dly /\ bytecnt = 2 /\ dout \in Nat /\ got' = Append(got, dout)
  <2>1. CASE started'
    BY <1>4, <2>1, UsbMoves
  <2>2. CASE ~started'
    <3>1. got' = <<>>
      BY <2>2 DEF Idle
    <3>. QED BY <2>2, <3>1
  <2>. QED BY <2>1, <2>2
<1>6. finished' => left' = 0 \/ (left' = 1 /\ bytecnt' = 3)
  <2> SUFFICES ASSUME finished' PROVE left' = 0 \/ (left' = 1 /\ bytecnt' = 3)
    OBVIOUS
  <2>1. CASE ~rd_dly
    <3>1. ~arm
      BY <1>2, <2>1
    <3>2. /\ left' = IF read /\ left = 0 THEN BURST ELSE left
          /\ finished' = finished /\ bytecnt' = bytecnt
      BY <1>2, <2>1, <3>1
    <3>3. finished
      BY <3>2
    <3>4. left' = left
      BY <1>1, <1>3, <3>2, <3>3
    <3>. QED BY <1>4, <3>2, <3>3, <3>4
  <2>2. CASE rd_dly
    <3>1. /\ left' = IF bytecnt = 3 THEN left - 1 ELSE left
          /\ finished \/ (bytecnt = 2 /\ left = 1)
      BY <1>2, <2>2 DEF Receive
    <3>2. left > 0
      BY <1>0, <2>2 DEF Burst
    <3>3. (left = 1 /\ bytecnt = 3) \/ (left = 1 /\ bytecnt = 2)
      BY <1>3, <1>4, <3>1, <3>2
    <3>. QED BY <1>2, <2>2, <3>1, <3>3
  <2>. QED BY <2>1, <2>2
<1>7. finished' /\ ~warned' => \A i \in 1 .. Len(got') : got'[i] = i
  <2> SUFFICES ASSUME finished', ~warned', NEW i \in 1 .. Len(got') PROVE got'[i] = i
    OBVIOUS
  <2>1. CASE ~rd_dly
    <3>1. ~arm
      BY <1>2, <2>1
    <3>2. got' = got /\ finished' = finished /\ warned' = warned
      BY <1>2, <2>1, <3>1
    <3>3. finished /\ ~warned
      BY <3>2
    <3>. QED BY <1>4, <3>2, <3>3
  <2>2. CASE rd_dly /\ finished
    <3>1. bytecnt = 3 /\ ~warned
      <4>1. left > 0
        BY <1>0, <2>2 DEF Burst
      <4>2. ~warned
        BY <1>2, <2>2 DEF Receive
      <4>. QED BY <1>3, <1>4, <2>2, <4>1, <4>2
    <3>2. got' = got
      BY <1>2, <2>2, <3>1 DEF Receive
    <3>. QED BY <1>4, <2>2, <3>1, <3>2
  <2>3. CASE rd_dly /\ ~finished
    <3>1. bytecnt = 2 /\ ~overflow_pipe[3]
      BY <1>2, <2>3 DEF Receive
    <3>2. CASE ~started'
      <4>1. got' = <<>>
        BY <3>2 DEF Idle
      <4>. QED BY <4>1
    <3>3. CASE started'
      <4>1. started
        BY <1>4, <3>3, UsbMoves
      <4>2. /\ \A k \in 1 .. Len(got) : got[k] = k
            /\ HasHand => dout = Len(got) + 1
        BY <3>1, <4>1 DEF Seen
      <4>3. CASE got' = got
        BY <4>2, <4>3
      <4>4. CASE HasHand /\ dout \in Nat /\ got' = Append(got, dout)
        <5>1. /\ Len(got') = Len(got) + 1 /\ got'[Len(got) + 1] = dout
              /\ \A k \in 1 .. Len(got) : got'[k] = got[k]
          BY <1>4, <4>4, SeqAppend
        <5>2. i = Len(got) + 1 \/ i \in 1 .. Len(got)
          <6>1. Len(got) \in Nat
            BY <1>4
          <6>. QED BY <5>1, <6>1
        <5>. QED BY <4>2, <4>4, <5>1, <5>2
      <4>. QED BY <1>5, <3>3, <4>3, <4>4
    <3>. QED BY <3>2, <3>3
  <2>. QED BY <2>1, <2>2, <2>3
<1>. QED BY <1>5, <1>6, <1>7 DEF Ended

LEMMA WarningStutters == ASSUME Warning, UNCHANGED vars PROVE Warning'
<1>1. /\ setup' = setup /\ count' = count /\ dout' = dout /\ fifo' = fifo
      /\ left' = left /\ bytecnt' = bytecnt /\ reg_arm' = reg_arm /\ arm_pipe' = arm_pipe
      /\ empty_fifo_read' = empty_fifo_read /\ rd_dly' = rd_dly /\ finished' = finished
      /\ warned' = warned /\ lost' = lost /\ overflow_blocked' = overflow_blocked
      /\ overflow_pipe' = overflow_pipe /\ prog_full' = prog_full /\ started' = started
      /\ in_data' = in_data /\ data_wr' = data_wr /\ wr_en' = wr_en /\ got' = got
  BY DEF vars, feVars, usbVars, hostVars
<1>2. THRESHOLD' = THRESHOLD /\ (HasHand' <=> HasHand) /\ (ArmDown' <=> ArmDown)
  BY <1>1 DEF THRESHOLD, HasHand, ArmDown
<1>3. One(HasHand') = One(HasHand) /\ One(wr_en') = One(wr_en)
  BY <1>1, <1>2 DEF One
<1>4. Filling'
  BY <1>1, <1>2, <1>3 DEF Warning, Filling
<1>5. Seen'
  BY <1>1, <1>2, <1>3 DEF Warning, Seen
<1>6. Ended'
  BY <1>1 DEF Warning, Ended
<1>. QED BY <1>4, <1>5, <1>6 DEF Warning

LEMMA WarningKept == ASSUME IInv, Warning, [Next]_vars PROVE Warning'
<1>1. CASE FeStep
  <2>1. PICK event \in BOOLEAN, start \in BOOLEAN, falls \in BOOLEAN :
          FeTick(event, start, falls)
    BY <1>1 DEF FeStep
  <2>. QED BY <2>1, FeWarning
<1>2. CASE UsbStep
  <2>1. PICK read \in BOOLEAN, arm \in BOOLEAN, disarm \in BOOLEAN :
          UsbTick(read, arm, disarm)
    BY <1>2 DEF UsbStep
  <2>2. Filling /\ Seen /\ Ended
    BY DEF Warning
  <2>3. Idle'
    BY <2>1, UsbIdle
  <2>4. Filling'
    BY <2>1, <2>2, UsbFilling
  <2>5. Seen'
    BY <2>1, <2>2, UsbSeen
  <2>6. Ended'
    BY <2>1, <2>2, <2>3, UsbEnded
  <2>. QED BY <2>4, <2>5, <2>6 DEF Warning
<1>3. CASE UNCHANGED vars
  BY <1>3, WarningStutters
<1>. QED BY <1>1, <1>2, <1>3 DEF Next

(***************************************************************************)
(* overflow_blocked of reg_pw.v and the warning of read_capture_data(): a  *)
(* read that ends without "FIFO overflowed, capture stopped." has an       *)
(* unbroken beginning of the capture.  The flag of a refused entry crosses *)
(* to the host before anything stored behind it, for FIFOs of any depth,   *)
(* threshold and latency.                                                  *)
(***************************************************************************)
THEOREM OverflowIsTold == Spec => []UnwarnedIsUnbroken
<1>1. Init => Warning
  BY InitWarning
<1>2. IInv /\ Warning /\ [Next]_vars => Warning'
  BY WarningKept
<1>3. Warning => UnwarnedIsUnbroken
  <2> SUFFICES ASSUME Warning, finished, ~warned, NEW i \in DOMAIN got PROVE got[i] = i
    BY DEF UnwarnedIsUnbroken
  <2>1. got \in Seq(Nat) /\ \A k \in 1 .. Len(got) : got[k] = k
    BY DEF Warning, Ended
  <2>. QED BY <2>1
<1>. QED BY <1>1, <1>2, <1>3, Inductive, PTL DEF Spec
=============================================================================
