------------------------- MODULE StreamFifoProofs -------------------------
(***************************************************************************)
(* First the DRAM FIFO.  Its books balance, for every depth of the ring    *)
(* and of the two buffers: the reservations cover the reads under way, the *)
(* write data waits for the writes, and the pointers are level words       *)
(* apart.  Then its order: when the commands under way are numbered as     *)
(* they were issued, every slot of the ring holds the word of its number,  *)
(* and a step moves words along the FIFO without changing their order      *)
(* (RingEdge).                                                             *)
(* Then the stream FIFO over it, which is a FIFO when its DRAM words are   *)
(* as wide as its items, for every depth of its memories and of the DRAM,  *)
(* with or without the bypass: items leave in the order in which they were *)
(* accepted, each of them once and nothing else.                           *)
(***************************************************************************)
EXTENDS StreamFifo, FiniteSetTheorems, SequenceTheorems, TLAPS

Commands == [op : Ops, addr : Addresses]

\* Types as far as the balance needs them; that no word in the FIFO is NoWord
\* takes its order (Ring, below).
Types ==
    /\ level \in 0..depth /\ write_address \in Addresses /\ read_address \in Addresses
    /\ writer_fifo \in Seq(Words) /\ Len(writer_fifo) <= writer_fifo_depth
    /\ res_fifo \in 0..reader_fifo_depth
    /\ reader_fifo \in Seq(Words \cup {NoWord})
    /\ port \in Seq(Commands)
    /\ mem \in [Addresses -> Words \cup {NoWord}]

Balance == Types /\ ReadsHaveRoom /\ WritesHaveData /\ PointersAgree

-----------------------------------------------------------------------------
(* A FIFO after its oldest word was taken, and after words have arrived.    *)
LEMMA QueueEdge ==
    ASSUME NEW S, NEW q \in Seq(S), NEW arriving \in Seq(S)
    PROVE  /\ q \o arriving \in Seq(S) /\ Len(q \o arriving) = Len(q) + Len(arriving)
           /\ q # <<>> => (Tail(q) \in Seq(S) /\ Len(Tail(q)) = Len(q) - 1)
OBVIOUS

(* Counting commands.                                                       *)

(* The positions of a kind of commands are finitely many.                   *)
LEMMA KindFinite ==
    ASSUME NEW s \in Seq(Commands), NEW b \in Ops
    PROVE  IsFiniteSet(Kind(s, b)) /\ Cardinality(Kind(s, b)) \in Nat
<1>1. IsFiniteSet(1..Len(s)) BY FS_Interval
<1>2. Kind(s, b) \in SUBSET (1..Len(s)) BY DEF Kind
<1>. QED BY <1>1, <1>2, FS_Subset, FS_CardinalityType

(* A command accepted by the port is counted once, under its own kind.      *)
LEMMA CountAppend ==
    ASSUME NEW s \in Seq(Commands), NEW c \in Commands, NEW b \in Ops
    PROVE  Cardinality(Kind(s \o <<c>>, b)) = Cardinality(Kind(s, b)) + (IF c.op = b THEN 1 ELSE 0)
<1>1. IsFiniteSet(Kind(s, b)) /\ Len(s) \in Nat /\ Len(s \o <<c>>) = Len(s) + 1 BY KindFinite
<1>2. CASE c.op = b
  <2>1. Kind(s \o <<c>>, b) = Kind(s, b) \cup {Len(s) + 1} BY <1>1, <1>2 DEF Kind
  <2>2. Len(s) + 1 \notin Kind(s, b) BY <1>1 DEF Kind
  <2>. QED BY <1>1, <1>2, <2>1, <2>2, FS_AddElement
<1>3. CASE c.op # b
  <2>1. Kind(s \o <<c>>, b) = Kind(s, b) BY <1>1, <1>3 DEF Kind
  <2>. QED BY <1>3, <2>1, KindFinite
<1>. QED BY <1>2, <1>3

Without(s, p) == SubSeq(s, 1, p - 1) \o SubSeq(s, p + 1, Len(s))

(* The commands that are left keep their order.                             *)
LEMMA WithoutElements ==
    ASSUME NEW S, NEW s \in Seq(S), NEW p \in 1..Len(s)
    PROVE  /\ Without(s, p) \in Seq(S)
           /\ Len(Without(s, p)) = Len(s) - 1
           /\ \A i \in 1..(Len(s) - 1) : Without(s, p)[i] = IF i < p THEN s[i] ELSE s[i + 1]
<1>. DEFINE l == SubSeq(s, 1, p - 1)
            r == SubSeq(s, p + 1, Len(s))
<1>1. l \in Seq(S) /\ Len(l) = p - 1 /\ \A i \in 1..(p - 1) : l[i] = s[i]
  BY SMT
<1>2. r \in Seq(S) /\ Len(r) = Len(s) - p /\ \A i \in 1..(Len(s) - p) : r[i] = s[p + i]
  BY SMT
<1>3. Without(s, p) = l \o r BY DEF Without
<1>4. Len(s) \in Nat OBVIOUS
<1>. HIDE DEF l, r
<1>5. l \o r \in Seq(S) /\ Len(l \o r) = Len(s) - 1
  <2>0. l \in Seq(S) /\ r \in Seq(S) BY <1>1, <1>2
  <2>1. l \o r \in Seq(S) /\ Len(l \o r) = Len(l) + Len(r) BY <2>0, QueueEdge, Zenon
  <2>. QED BY <1>1, <1>2, <1>4, <2>1
<1>6. ASSUME NEW i \in 1..(Len(s) - 1) PROVE (l \o r)[i] = IF i < p THEN s[i] ELSE s[i + 1]
  <2>1. CASE i < p BY <1>1, <1>2, <1>4, <2>1
  <2>2. CASE ~(i < p)
    <3>1. (l \o r)[i] = r[i - (p - 1)] BY <1>1, <1>2, <1>4, <2>2
    <3>2. r[i - (p - 1)] = s[p + (i - (p - 1))] BY <1>2, <1>4, <2>2
    <3>3. p + (i - (p - 1)) = i + 1 BY <1>4
    <3>. QED BY <2>2, <3>1, <3>2, <3>3
  <2>. QED BY <2>1, <2>2
<1>. QED BY <1>3, <1>5, <1>6

(* A command performed is no longer counted, and the others are.            *)
LEMMA CountRemove ==
    ASSUME NEW s \in Seq(Commands), NEW p \in 1..Len(s), NEW b \in Ops
    PROVE  Cardinality(Kind(Without(s, p), b)) = Cardinality(Kind(s, b)) - (IF s[p].op = b THEN 1 ELSE 0)
<1>. DEFINE S == Kind(s, b) \ {p}
            f == [i \in S |-> IF i < p THEN i ELSE i - 1]
            t == Without(s, p)
            T == Kind(t, b)
<1>0. /\ t \in Seq(Commands) /\ Len(t) = Len(s) - 1 /\ Len(s) \in Nat
      /\ \A i \in 1..(Len(s) - 1) : t[i] = IF i < p THEN s[i] ELSE s[i + 1]
  <2>1. Len(s) \in Nat OBVIOUS
  <2>2. /\ t \in Seq(Commands) /\ Len(t) = Len(s) - 1
        /\ \A i \in 1..(Len(s) - 1) : t[i] = IF i < p THEN s[i] ELSE s[i + 1]
    BY WithoutElements, Zenon
  <2>. QED BY <2>1, <2>2
<1>. HIDE DEF t
<1>1. f \in [S -> T]
  <2>. SUFFICES ASSUME NEW i \in S PROVE (IF i < p THEN i ELSE i - 1) \in T
    OBVIOUS
  <2>1. i \in 1..Len(s) /\ i # p /\ s[i].op = b BY DEF Kind
  <2>2. CASE i < p
    <3>1. i \in 1..(Len(s) - 1) /\ t[i] = s[i] BY <1>0, <2>1, <2>2
    <3>. QED BY <1>0, <2>1, <2>2, <3>1 DEF Kind
  <2>3. CASE i > p
    <3>1. i - 1 \in 1..(Len(s) - 1) /\ ~(i - 1 < p) /\ (i - 1) + 1 = i BY <1>0, <2>1, <2>3
    <3>2. t[i - 1] = s[i] BY <1>0, <3>1
    <3>. QED BY <1>0, <2>1, <2>3, <3>1, <3>2 DEF Kind
  <2>. QED BY <2>1, <2>2, <2>3
<1>2. \A i, j \in S : f[i] = f[j] => i = j
  BY DEF Kind
<1>3. \A k \in T : \E i \in S : f[i] = k
  <2>. SUFFICES ASSUME NEW k \in T PROVE \E i \in S : f[i] = k
    OBVIOUS
  <2>1. k \in 1..(Len(s) - 1) /\ t[k].op = b BY <1>0 DEF Kind
  <2>2. CASE k < p
    <3>1. k \in S BY <1>0, <2>1, <2>2 DEF Kind
    <3>. QED BY <3>1, <2>2
  <2>3. CASE ~(k < p)
    <3>1. k + 1 \in S BY <1>0, <2>1, <2>3 DEF Kind
    <3>2. f[k + 1] = k BY <2>1, <2>3, <3>1
    <3>. QED BY <3>1, <3>2
  <2>. QED BY <2>2, <2>3
<1>4. f \in Bijection(S, T)
  BY <1>1, <1>2, <1>3, Zenon DEF Bijection, Injection, Surjection, IsInjective
<1>5. ExistsBijection(S, T) BY <1>4, Zenon DEF ExistsBijection
<1>6. IsFiniteSet(Kind(s, b)) /\ Cardinality(Kind(s, b)) \in Nat BY KindFinite
<1>7. IsFiniteSet(S) /\ Cardinality(S) = Cardinality(Kind(s, b)) - (IF p \in Kind(s, b) THEN 1 ELSE 0)
  <2>1. IsFiniteSet(S) /\ Cardinality(S) = IF p \in Kind(s, b) THEN Cardinality(Kind(s, b)) - 1 ELSE Cardinality(Kind(s, b))
    BY <1>6, FS_RemoveElement, Zenon
  <2>. HIDE DEF S
  <2>. QED BY <1>6, <2>1
<1>8. Cardinality(T) = Cardinality(S)
  <2>. HIDE DEF S, T
  <2>. QED BY <1>5, <1>7, FS_Bijection
<1>9. p \in Kind(s, b) <=> s[p].op = b BY DEF Kind
<1>. QED BY <1>7, <1>8, <1>9 DEF t
-----------------------------------------------------------------------------
(* The inductive invariant.                                                 *)

LEMMA BalanceInit == DramInit => Balance
<1>. SUFFICES ASSUME DramInit PROVE Balance OBVIOUS
<1>. USE DramFifoAssumption DEF DramInit
<1>1. Types BY DEF Types, Addresses
<1>2. Reads = {} /\ Writes = {} BY DEF Reads, Writes, Kind
<1>3. Cardinality({}) = 0 BY FS_EmptySet
<1>. QED BY <1>1, <1>2, <1>3 DEF Balance, ReadsHaveRoom, WritesHaveData, PointersAgree

(* The port after a clock edge: the command performed is gone, and those    *)
(* accepted are behind the others.                                          *)
LEMMA PortEdge ==
    ASSUME port \in Seq(Commands), NEW p \in Steps,
           NEW w \in Commands, w.op = "write", NEW ws \in {<<>>, <<w>>},
           NEW r \in Commands, r.op = "read", NEW rs \in {<<>>, <<r>>},
           port' = Remaining(p) \o ws \o rs
    PROVE  /\ port' \in Seq(Commands)
           /\ Cardinality(Reads) \in Nat /\ Cardinality(Writes) \in Nat
           /\ Delivers(p) => Cardinality(Reads) > 0
           /\ Fetches(p) => Cardinality(Writes) > 0
           /\ Cardinality(Reads') = Cardinality(Reads) - (IF Delivers(p) THEN 1 ELSE 0) + Len(rs)
           /\ Cardinality(Writes') = Cardinality(Writes) - (IF Fetches(p) THEN 1 ELSE 0) + Len(ws)
<1>. DEFINE q == Remaining(p)
<1>1. p = 0 \/ p \in 1..Len(port) BY DEF Steps
<1>2. ASSUME NEW s \in Seq(Commands), NEW c \in Commands, NEW cs \in {<<>>, <<c>>}, NEW b \in Ops
      PROVE  /\ s \o cs \in Seq(Commands)
             /\ Cardinality(Kind(s \o cs, b)) = Cardinality(Kind(s, b)) + (IF c.op = b THEN Len(cs) ELSE 0)
  <2>1. CASE cs = <<>>
    <3>1. s \o cs = s /\ Len(cs) = 0 BY <2>1
    <3>2. Cardinality(Kind(s, b)) \in Nat BY KindFinite
    <3>. QED BY <3>1, <3>2
  <2>2. CASE cs = <<c>>
    <3>1. s \o cs \in Seq(Commands) /\ Len(cs) = 1 BY <2>2
    <3>2. Cardinality(Kind(s \o <<c>>, b)) = Cardinality(Kind(s, b)) + (IF c.op = b THEN 1 ELSE 0)
      BY CountAppend
    <3>. QED BY <2>2, <3>1, <3>2
  <2>. QED BY <2>1, <2>2
<1>3. ASSUME NEW b \in Ops
      PROVE  /\ q \in Seq(Commands) /\ Cardinality(Kind(port, b)) \in Nat /\ Cardinality(Kind(q, b)) \in Nat
             /\ Cardinality(Kind(q, b)) = Cardinality(Kind(port, b)) - (IF p > 0 /\ port[p].op = b THEN 1 ELSE 0)
  <2>1. Cardinality(Kind(port, b)) \in Nat BY KindFinite
  <2>2. CASE p = 0
    <3>1. q = port /\ ~(p > 0) BY <2>2 DEF Remaining
    <3>. QED BY <2>1, <3>1
  <2>3. CASE p \in 1..Len(port)
    <3>1. p # 0 /\ p > 0 BY <2>3
    <3>2. q = Without(port, p) BY <3>1, Zenon DEF Remaining, Without
    <3>3. q \in Seq(Commands) BY <2>3, <3>2, WithoutElements, Zenon
    <3>4. Cardinality(Kind(Without(port, p), b)) = Cardinality(Kind(port, b)) - (IF port[p].op = b THEN 1 ELSE 0)
      BY <2>3, CountRemove
    <3>5. Cardinality(Kind(q, b)) \in Nat BY <3>3, KindFinite
    <3>. QED BY <2>1, <3>1, <3>2, <3>3, <3>4, <3>5
  <2>. QED BY <1>1, <2>2, <2>3
<1>. HIDE DEF q
<1>4. q \in Seq(Commands) BY <1>3 DEF Ops
<1>5. port' = (q \o ws) \o rs BY DEF q
<1>6. "read" \in Ops /\ "write" \in Ops /\ "read" # "write" BY DEF Ops
<1>7. /\ q \o ws \in Seq(Commands)
      /\ Cardinality(Kind(q \o ws, "read")) = Cardinality(Kind(q, "read"))
      /\ Cardinality(Kind(q \o ws, "write")) = Cardinality(Kind(q, "write")) + Len(ws)
  <2>1. /\ q \o ws \in Seq(Commands)
        /\ Cardinality(Kind(q \o ws, "read")) = Cardinality(Kind(q, "read")) + (IF w.op = "read" THEN Len(ws) ELSE 0)
        /\ Cardinality(Kind(q \o ws, "write")) = Cardinality(Kind(q, "write")) + (IF w.op = "write" THEN Len(ws) ELSE 0)
    BY <1>2, <1>4, <1>6, Zenon
  <2>2. Cardinality(Kind(q, "read")) \in Nat BY <1>3, <1>6, Zenon
  <2>. QED BY <1>6, <2>1, <2>2
<1>8. /\ port' \in Seq(Commands)
      /\ Cardinality(Kind((q \o ws) \o rs, "read")) = Cardinality(Kind(q \o ws, "read")) + Len(rs)
      /\ Cardinality(Kind((q \o ws) \o rs, "write")) = Cardinality(Kind(q \o ws, "write"))
  <2>1. Cardinality(Kind(q \o ws, "write")) \in Nat BY <1>6, <1>7, KindFinite
  <2>2. /\ (q \o ws) \o rs \in Seq(Commands)
        /\ Cardinality(Kind((q \o ws) \o rs, "read")) = Cardinality(Kind(q \o ws, "read")) + (IF r.op = "read" THEN Len(rs) ELSE 0)
        /\ Cardinality(Kind((q \o ws) \o rs, "write")) = Cardinality(Kind(q \o ws, "write")) + (IF r.op = "write" THEN Len(rs) ELSE 0)
    BY <1>2, <1>6, <1>7, Zenon
  <2>. QED BY <1>5, <1>6, <2>1, <2>2
<1>9. /\ Reads = Kind(port, "read") /\ Writes = Kind(port, "write")
      /\ Reads' = Kind((q \o ws) \o rs, "read") /\ Writes' = Kind((q \o ws) \o rs, "write")
  BY <1>5 DEF Reads, Writes, Kind
<1>10. /\ Cardinality(Reads) \in Nat /\ Cardinality(Kind(q, "read")) \in Nat
       /\ Cardinality(Kind(q, "read")) = Cardinality(Reads) - (IF Delivers(p) THEN 1 ELSE 0)
  BY <1>3, <1>6, <1>9 DEF Delivers
<1>11. /\ Cardinality(Writes) \in Nat /\ Cardinality(Kind(q, "write")) \in Nat
       /\ Cardinality(Kind(q, "write")) = Cardinality(Writes) - (IF Fetches(p) THEN 1 ELSE 0)
  BY <1>3, <1>6, <1>9 DEF Fetches
<1>12. (Delivers(p) => Cardinality(Reads) > 0) /\ (Fetches(p) => Cardinality(Writes) > 0)
  BY <1>10, <1>11
<1>. QED BY <1>7, <1>8, <1>9, <1>10, <1>11, <1>12

(* Every clock edge keeps the balance.                                      *)
LEMMA BalanceNext == Balance /\ [DramNext]_dramVars => Balance'
<1>. SUFFICES ASSUME Balance, [DramNext]_dramVars PROVE Balance'
  OBVIOUS
<1>. USE DramFifoAssumption
<1>1. CASE UNCHANGED dramVars
  BY <1>1 DEF dramVars, Balance, Types, ReadsHaveRoom, WritesHaveData, PointersAgree, Reads, Writes, Kind
<1>2. CASE DramNext
  <2>. PICK sink \in {<<>>} \cup {<<w>> : w \in Words}, source_ready \in BOOLEAN, w_ready \in BOOLEAN,
            r_ready \in BOOLEAN, p \in Steps : DramEdge(sink, source_ready, w_ready, r_ready, p)
    BY <1>2 DEF DramNext
  <2>. DEFINE wr == write(sink, w_ready)
              rd == read(r_ready)
              taken == Taken(source_ready)
              word == mem[port[p].addr]
  <2>1. wr \in BOOLEAN /\ rd \in BOOLEAN /\ taken \in BOOLEAN
    BY DEF write, read, Taken, writable, readable
  <2>. DEFINE w == [op |-> "write", addr |-> write_address]
              r == [op |-> "read", addr |-> read_address]
              ws == IF wr THEN <<w>> ELSE <<>>
              rs == IF rd THEN <<r>> ELSE <<>>
  <2>2. /\ port' \in Seq(Commands)
        /\ Cardinality(Reads) \in Nat /\ Cardinality(Writes) \in Nat
        /\ Delivers(p) => Cardinality(Reads) > 0
        /\ Fetches(p) => Cardinality(Writes) > 0
        /\ Cardinality(Reads') = Cardinality(Reads) - (IF Delivers(p) THEN 1 ELSE 0) + Len(rs)
        /\ Cardinality(Writes') = Cardinality(Writes) - (IF Fetches(p) THEN 1 ELSE 0) + Len(ws)
    <3>1. port' = Remaining(p) \o ws \o rs BY Zenon DEF DramEdge
    <3>2. port \in Seq(Commands) BY DEF Balance, Types
    <3>3. w \in Commands /\ r \in Commands BY DEF Balance, Types, Commands, Ops
    <3>4. w.op = "write" /\ r.op = "read" OBVIOUS
    <3>5. ws \in {<<>>, <<w>>} /\ rs \in {<<>>, <<r>>} OBVIOUS
    <3>. HIDE DEF w, r, ws, rs, wr, rd
    <3>. QED BY <3>1, <3>2, <3>3, <3>4, <3>5, PortEdge
  <2>3. Len(ws) = (IF wr THEN 1 ELSE 0) /\ Len(rs) = (IF rd THEN 1 ELSE 0)
    <3>. HIDE DEF wr, rd, w, r
    <3>. QED OBVIOUS
  <2>4. /\ wr => (sink # <<>> /\ level < depth /\ Len(writer_fifo) < writer_fifo_depth)
        /\ rd => (level > 0 /\ res_fifo < reader_fifo_depth)
        /\ taken => reader_fifo # <<>>
    BY DEF write, read, Taken, writable, readable
  <2>5. Delivers(p) \/ Fetches(p) => port[p].addr \in Addresses
    <3>1. Delivers(p) \/ Fetches(p) => p \in 1..Len(port) BY DEF Delivers, Fetches, Steps
    <3>2. ASSUME NEW i \in 1..Len(port) PROVE port[i].addr \in Addresses
      <4>1. port[i] \in Commands BY DEF Balance, Types
      <4>. QED BY <4>1 DEF Commands
    <3>. QED BY <3>1, <3>2
  <2>6. level' \in 0..depth /\ write_address' \in Addresses /\ read_address' \in Addresses /\ PointersAgree'
    <3>1. /\ level' = (IF wr THEN level + 1 ELSE level) - (IF rd THEN 1 ELSE 0)
          /\ write_address' = IF wr THEN inc(write_address) ELSE write_address
          /\ read_address' = IF rd THEN inc(read_address) ELSE read_address
      BY Zenon DEF DramEdge
    <3>2. level \in 0..depth /\ write_address \in 0..(depth - 1) /\ read_address \in 0..(depth - 1)
      BY DEF Balance, Types, Addresses
    <3>3. read_address + level \in {write_address, write_address + depth}
      BY DEF Balance, PointersAgree
    <3>. HIDE DEF wr, rd
    <3>4. /\ level' \in 0..depth /\ write_address' \in 0..(depth - 1) /\ read_address' \in 0..(depth - 1)
          /\ read_address' + level' \in {write_address', write_address' + depth}
      BY <2>1, <2>4, <3>1, <3>2, <3>3 DEF inc
    <3>5. level' <= depth BY <3>4
    <3>6. PointersAgree' BY <3>4, <3>5, Zenon DEF PointersAgree
    <3>. QED BY <3>4, <3>6, Zenon DEF Addresses
  <2>7. /\ writer_fifo' \in Seq(Words) /\ Len(writer_fifo') <= writer_fifo_depth
        /\ WritesHaveData'
    <3>. DEFINE rest == IF Fetches(p) /\ writer_fifo # <<>> THEN Tail(writer_fifo) ELSE writer_fifo
                accepted == wr /\ Len(writer_fifo) < writer_fifo_depth
                added == IF wr THEN sink ELSE <<>>
    <3>1. writer_fifo' = rest \o added
      <4>1. writer_fifo' = rest \o (IF accepted THEN sink ELSE <<>>) BY Zenon DEF DramEdge
      <4>2. accepted <=> wr BY <2>4
      <4>. QED BY <4>1, <4>2, Zenon
    <3>2. writer_fifo \in Seq(Words) /\ Len(writer_fifo) <= writer_fifo_depth /\ Cardinality(Writes) = Len(writer_fifo)
      BY DEF Balance, Types, WritesHaveData
    <3>3. Fetches(p) => writer_fifo # <<>>
      <4>1. Fetches(p) => Len(writer_fifo) > 0 BY <2>2, <3>2
      <4>. QED BY <4>1, <3>2
    <3>4. rest \in Seq(Words) /\ Len(rest) = Len(writer_fifo) - (IF Fetches(p) THEN 1 ELSE 0)
      <4>1. CASE Fetches(p)
        <5>1. rest = Tail(writer_fifo) BY <3>3, <4>1
        <5>. HIDE DEF rest
        <5>. QED BY <3>2, <3>3, <4>1, <5>1, QueueEdge
      <4>2. CASE ~Fetches(p)
        <5>1. rest = writer_fifo /\ Len(writer_fifo) \in Nat BY <3>2, <4>2
        <5>. HIDE DEF rest
        <5>. QED BY <3>2, <4>2, <5>1
      <4>. QED BY <4>1, <4>2
    <3>5. added \in Seq(Words) /\ Len(added) = IF wr THEN 1 ELSE 0
      <4>1. CASE wr
        <5>1. PICK word_in \in Words : sink = <<word_in>> BY <2>4, <4>1
        <5>2. <<word_in>> \in Seq(Words) /\ Len(<<word_in>>) = 1 OBVIOUS
        <5>. QED BY <4>1, <5>1, <5>2
      <4>2. CASE ~wr BY <4>2
      <4>. QED BY <4>1, <4>2
    <3>. HIDE DEF rest, added
    <3>6. rest \o added \in Seq(Words) /\ Len(rest \o added) = Len(rest) + Len(added)
      BY <3>4, <3>5, QueueEdge, Zenon
    <3>. HIDE DEF wr, rd, ws, rs
    <3>7. Len(writer_fifo') = Len(writer_fifo) - (IF Fetches(p) THEN 1 ELSE 0) + (IF wr THEN 1 ELSE 0)
      BY <3>1, <3>4, <3>5, <3>6
    <3>8. Len(writer_fifo) \in Nat BY <3>2
    <3>9. Len(writer_fifo') <= writer_fifo_depth
      <4>1. wr => Len(writer_fifo) + 1 <= writer_fifo_depth BY <2>4, <3>8
      <4>2. CASE wr BY <3>7, <3>8, <4>1, <4>2
      <4>3. CASE ~wr BY <3>2, <3>7, <3>8, <4>3
      <4>. QED BY <4>2, <4>3
    <3>10. Cardinality(Writes') = Len(writer_fifo')
      <4>1. Cardinality(Writes') = Len(writer_fifo) - (IF Fetches(p) THEN 1 ELSE 0) + (IF wr THEN 1 ELSE 0)
        BY <2>2, <2>3, <3>2
      <4>. QED BY <3>7, <4>1
    <3>. QED BY <3>1, <3>6, <3>9, <3>10 DEF WritesHaveData
  <2>8. reader_fifo' \in Seq(Words \cup {NoWord}) /\ res_fifo' \in 0..reader_fifo_depth /\ ReadsHaveRoom'
    <3>. DEFINE room == Len(reader_fifo) < reader_fifo_depth
                rest == IF taken THEN Tail(reader_fifo) ELSE reader_fifo
                added == IF Delivers(p) /\ room THEN <<word>> ELSE <<>>
    <3>1. reader_fifo' = rest \o added BY Zenon DEF DramEdge
    <3>2. /\ reader_fifo \in Seq(Words \cup {NoWord}) /\ res_fifo \in 0..reader_fifo_depth
          /\ Cardinality(Reads) + Len(reader_fifo) = res_fifo /\ Len(reader_fifo) \in Nat
      BY DEF Balance, Types, ReadsHaveRoom
    <3>3. Delivers(p) => room
      BY <2>2, <3>2
    <3>4. taken => Len(reader_fifo) > 0 BY <2>4, <3>2
    <3>6. Delivers(p) => word \in Words \cup {NoWord}
      BY <2>5 DEF Balance, Types
    <3>7. added \in Seq(Words \cup {NoWord}) /\ Len(added) = IF Delivers(p) THEN 1 ELSE 0
      <4>. HIDE DEF word
      <4>. QED BY <3>3, <3>6
    <3>8. res_fifo' = (IF rd THEN res_fifo + 1 ELSE res_fifo) - (IF taken THEN 1 ELSE 0)
      <4>1. res_fifo' = (IF rd THEN res_fifo + 1 ELSE res_fifo) - (IF taken /\ res_fifo > 0 THEN 1 ELSE 0)
        BY Zenon DEF DramEdge
      <4>2. taken => res_fifo > 0 BY <2>2, <3>2, <3>4
      <4>. QED BY <4>1, <4>2
    <3>5. rest \in Seq(Words \cup {NoWord}) /\ Len(rest) = Len(reader_fifo) - (IF taken THEN 1 ELSE 0)
      <4>1. CASE taken
        <5>1. rest = Tail(reader_fifo) BY <4>1
        <5>. HIDE DEF rest
        <5>. QED BY <2>4, <3>2, <4>1, <5>1, QueueEdge
      <4>2. CASE ~taken
        <5>1. rest = reader_fifo BY <4>2
        <5>. HIDE DEF rest
        <5>. QED BY <3>2, <4>2, <5>1
      <4>. QED BY <4>1, <4>2
    <3>. HIDE DEF rest, added
    <3>9. rest \o added \in Seq(Words \cup {NoWord}) /\ Len(rest \o added) = Len(rest) + Len(added)
      BY <3>5, <3>7, QueueEdge, Zenon
    <3>. HIDE DEF wr, rd, ws, rs, taken, room
    <3>10. Len(reader_fifo') = Len(reader_fifo) - (IF taken THEN 1 ELSE 0) + (IF Delivers(p) THEN 1 ELSE 0)
      BY <3>1, <3>5, <3>7, <3>9
    <3>11. Cardinality(Reads') + Len(reader_fifo') = res_fifo'
      <4>. DEFINE d == IF Delivers(p) THEN 1 ELSE 0
                  i == IF rd THEN 1 ELSE 0
                  t == IF taken THEN 1 ELSE 0
      <4>1. d \in Int /\ i \in Int /\ t \in Int OBVIOUS
      <4>2. Cardinality(Reads') = Cardinality(Reads) - d + i BY <2>2, <2>3
      <4>3. res_fifo' = res_fifo + i - t BY <3>2, <3>8
      <4>4. Len(reader_fifo') = Len(reader_fifo) - t + d BY <3>10
      <4>5. Cardinality(Reads) \in Nat /\ Len(reader_fifo) \in Nat /\ Cardinality(Reads) + Len(reader_fifo) = res_fifo
        BY <2>2, <3>2
      <4>. HIDE DEF d, i, t
      <4>. QED BY <4>1, <4>2, <4>3, <4>4, <4>5
    <3>12. res_fifo' \in 0..reader_fifo_depth
      BY <2>1, <2>2, <2>4, <3>2, <3>4, <3>8
    <3>. QED BY <3>1, <3>9, <3>11, <3>12 DEF ReadsHaveRoom
  <2>9. mem' \in [Addresses -> Words \cup {NoWord}]
    <3>. DEFINE fetched == IF writer_fifo = <<>> THEN NoWord ELSE Head(writer_fifo)
    <3>1. fetched \in Words \cup {NoWord} BY DEF Balance, Types
    <3>2. mem' = IF Fetches(p) THEN [mem EXCEPT ![port[p].addr] = fetched] ELSE mem
      BY Zenon DEF DramEdge
    <3>. HIDE DEF fetched
    <3>. QED BY <3>1, <3>2 DEF Balance, Types
  <2>. QED BY <2>2, <2>6, <2>7, <2>8, <2>9 DEF Balance, Types
<1>. QED BY <1>1, <1>2

(* The balance holds at every clock edge: the reads under way have their    *)
(* reservations, the writes their data, and the pointers agree with level.  *)
LEMMA Balanced == DramSpec => []Balance
<1>. QED BY BalanceInit, BalanceNext, PTL DEF DramSpec

(* No read data is lost, whatever the depth of the reader's FIFO and        *)
(* however late the port delivers: fifo.sink.ready, which the port does not *)
(* look at, is high whenever data arrives.                                  *)
THEOREM ReadDataKept == DramSpec => []ReadsHaveRoom
<1>1. Balance => ReadsHaveRoom BY DEF Balance
<1>. QED BY <1>1, Balanced, PTL

(* The port always finds the data of the write it performs in the writer's  *)
(* FIFO: wdata.valid, which the port does not look at, is high.             *)
THEOREM WriteDataReady == DramSpec => []WritesHaveData
<1>1. Balance => WritesHaveData BY DEF Balance
<1>. QED BY <1>1, Balanced, PTL

(* The ring's pointers and its level agree for ever, for every depth, a     *)
(* power of two or not: _inc wraps where level says it must.                *)
THEOREM PointersConsistent == DramSpec => []PointersAgree
<1>1. Balance => PointersAgree BY DEF Balance
<1>. QED BY <1>1, Balanced, PTL

-----------------------------------------------------------------------------
(* The ring.  Words and commands are numbered from the beginning; the word  *)
(* with number x is written to and read from Slot(x).                       *)

Slot(x) == x % depth

LEMMA Quotient ==
    ASSUME NEW a \in Nat, NEW d \in Nat \ {0}
    PROVE  \E q \in Nat, r \in Nat : r < d /\ a = d * q + r /\ a % d = r
OBVIOUS

LEMMA Remainder ==
    ASSUME NEW d \in Nat \ {0}, NEW q \in Int, NEW r \in Nat, r < d
    PROVE  (d * q + r) % d = r
OBVIOUS

(* The slots follow each other as _inc does, and come again after a round.  *)
LEMMA Slots ==
    ASSUME NEW x \in Nat
    PROVE  /\ Slot(x) \in Addresses
           /\ Slot(x + 1) = inc(Slot(x))
           /\ Slot(x + depth) = Slot(x)
<1>0. depth \in Nat \ {0} BY DramFifoAssumption
<1>1. PICK q \in Nat, r \in Nat : r < depth /\ x = depth * q + r /\ x % depth = r BY <1>0, Quotient
<1>2. Slot(x) = r /\ r \in Addresses BY <1>0, <1>1 DEF Slot, Addresses
<1>3. Slot(x + 1) = inc(r)
  <2>1. CASE r = depth - 1
    <3>1. x + 1 = depth * (q + 1) + 0 /\ q + 1 \in Int
      <4>1. depth * (q + 1) = depth * q + depth BY <1>0
      <4>. QED BY <1>0, <1>1, <2>1, <4>1
    <3>2. (depth * (q + 1) + 0) % depth = 0 BY <1>0, <3>1, Remainder
    <3>. QED BY <2>1, <3>1, <3>2 DEF Slot, inc
  <2>2. CASE r # depth - 1
    <3>1. PICK t \in Nat : t = r + 1 /\ t < depth /\ x + 1 = depth * q + t
      <4>1. r + 1 \in Nat /\ r + 1 < depth /\ x + 1 = depth * q + (r + 1) BY <1>0, <1>1, <2>2
      <4>. QED BY <4>1
    <3>2. (depth * q + t) % depth = t BY <1>0, <1>1, <3>1, Remainder
    <3>. QED BY <2>2, <3>1, <3>2 DEF Slot, inc
  <2>. QED BY <2>1, <2>2
<1>4. Slot(x + depth) = r
  <2>1. x + depth = depth * (q + 1) + r /\ q + 1 \in Int
    <3>1. depth * (q + 1) = depth * q + depth BY <1>0
    <3>. QED BY <1>0, <1>1, <3>1
  <2>2. (depth * (q + 1) + r) % depth = r BY <1>0, <1>1, <2>1, Remainder
  <2>. QED BY <2>1, <2>2 DEF Slot
<1>. QED BY <1>2, <1>3, <1>4

(* Two words less than a round apart have two slots.                        *)
LEMMA SlotsApart ==
    ASSUME NEW x \in Nat, NEW y \in Nat, x < y, y < x + depth
    PROVE  Slot(x) # Slot(y)
<1>. SUFFICES ASSUME Slot(x) = Slot(y) PROVE FALSE OBVIOUS
<1>0. depth \in Nat \ {0} BY DramFifoAssumption
<1>1. PICK q \in Nat, r \in Nat : r < depth /\ x = depth * q + r /\ x % depth = r BY <1>0, Quotient
<1>2. PICK n \in Nat, s \in Nat : s < depth /\ y = depth * n + s /\ y % depth = s BY <1>0, Quotient
<1>3. y = depth * n + r BY <1>1, <1>2 DEF Slot
<1>4. depth * q < depth * n /\ depth * n < depth * q + depth BY <1>0, <1>1, <1>3
<1>5. CASE n <= q
  <2>1. PICK k \in Nat : q = n + k
    <3>1. q - n \in Nat /\ q = n + (q - n) BY <1>5
    <3>. QED BY <3>1
  <2>2. depth * q = depth * n + depth * k /\ depth * k \in Nat BY <1>0, <2>1
  <2>. QED BY <1>0, <1>4, <2>2
<1>6. CASE q + 1 <= n
  <2>1. PICK k \in Nat : n = q + 1 + k
    <3>1. n - q - 1 \in Nat /\ n = q + 1 + (n - q - 1) BY <1>6
    <3>. QED BY <3>1
  <2>2. depth * n = depth * q + depth + depth * k /\ depth * k \in Nat /\ depth * q \in Nat BY <1>0, <2>1
  <2>. QED BY <1>0, <1>4, <2>2
<1>. QED BY <1>5, <1>6

(* Counting back from an address of the ring.                               *)
LEMMA SlotBack ==
    ASSUME NEW x \in Nat, NEW y \in Nat, NEW n \in Nat, y + n \in Nat, x = y + n, NEW k \in Nat
    PROVE  (Slot(x) - n + k) % depth = Slot(y + k)
<1>0. depth \in Nat \ {0} BY DramFifoAssumption
<1>1. PICK q \in Nat, r \in Nat : r < depth /\ x = depth * q + r /\ x % depth = r BY <1>0, Quotient
<1>2. PICK m \in Nat, s \in Nat : s < depth /\ y + k = depth * m + s /\ (y + k) % depth = s
  BY <1>0, Quotient
<1>3. r - n + k = depth * (m - q) + s /\ m - q \in Int
  <2>1. depth * (m - q) = depth * m - depth * q BY <1>0
  <2>2. depth * m \in Nat /\ depth * q \in Nat BY <1>0
  <2>. QED BY <1>0, <1>1, <1>2, <2>1, <2>2
<1>4. (depth * (m - q) + s) % depth = s BY <1>0, <1>2, <1>3, Remainder
<1>. QED BY <1>1, <1>2, <1>3, <1>4 DEF Slot
-----------------------------------------------------------------------------
(* The commands under way are numbered: those of one kind are in order and  *)
(* complete, a read comes after the write of its word, and a write after    *)
(* the read of the word it replaces.                                        *)
Ranges(s, f, r0, r1, w0, w1) ==
    \A i \in 1..Len(s) :
        /\ s[i].addr = Slot(f[i])
        /\ s[i].op = "read" => r0 <= f[i] /\ f[i] < r1
        /\ s[i].op = "write" => w0 <= f[i] /\ f[i] < w1
Increasing(s, f) == \A i, j \in 1..Len(s) : i < j /\ s[i].op = s[j].op => f[i] < f[j]
Complete(s, f, op, first, next) ==
    \A x \in Nat : first <= x /\ x < next => \E i \in 1..Len(s) : s[i].op = op /\ f[i] = x
Sequenced(s, f) ==
    \A i, j \in 1..Len(s) : s[i].op = "write" /\ s[j].op = "read" =>
        /\ f[i] = f[j] => i < j
        /\ f[i] = f[j] + depth => j < i
Numbered(s, f, r0, r1, w0, w1) ==
    /\ s \in Seq(Commands) /\ f \in Seq(Nat) /\ Len(f) = Len(s)
    /\ Ranges(s, f, r0, r1, w0, w1) /\ Increasing(s, f) /\ Sequenced(s, f)
    /\ Complete(s, f, "read", r0, r1) /\ Complete(s, f, "write", w0, w1)

\* Reads r0 to r1 - 1 and writes w0 to w1 - 1 are under way: the ring's level
\* is that of the commands issued, and at most depth words are in the DRAM.
Window(r0, r1, w0, w1) ==
    /\ r0 \in Nat /\ r1 \in Nat /\ w0 \in Nat /\ w1 \in Nat
    /\ r0 <= r1 /\ w0 <= w1 /\ r1 <= w1 /\ w1 <= r1 + depth
    /\ r0 <= w0 /\ w0 <= r0 + depth

Free(s, p) == \A e \in 1..(p - 1) : s[e].op # s[p].op /\ s[e].addr # s[p].addr

(* A command is one of two.                                                 *)
LEMMA CommandTyped ==
    ASSUME NEW s \in Seq(Commands), NEW i \in 1..Len(s)
    PROVE  s[i].op \in {"read", "write"} /\ s[i].addr \in Addresses
<1>1. s[i] \in Commands OBVIOUS
<1>. QED BY <1>1 DEF Commands, Ops

(* The read that is performed is the oldest, and its word is in the DRAM.   *)
LEMMA ReadPerformed ==
    ASSUME NEW s, NEW f, NEW r0, NEW r1, NEW w0, NEW w1,
           Window(r0, r1, w0, w1), Numbered(s, f, r0, r1, w0, w1),
           NEW p \in 1..Len(s), Free(s, p), s[p].op = "read"
    PROVE  f[p] = r0 /\ r0 < r1 /\ r0 < w0 /\ s[p].addr = Slot(r0)
<1>0. s \in Seq(Commands) /\ f \in Seq(Nat) /\ Len(f) = Len(s) /\ Len(s) \in Nat BY DEF Numbered
<1>1. f[p] \in Nat /\ r0 <= f[p] /\ f[p] < r1 /\ s[p].addr = Slot(f[p])
  BY <1>0 DEF Numbered, Ranges
<1>2. r0 \in Nat /\ r1 \in Nat /\ w0 \in Nat /\ w1 \in Nat /\ r0 <= w0 /\ r1 <= w1
  BY DEF Window
<1>3. f[p] = r0
  <2>1. PICK i \in 1..Len(s) : s[i].op = "read" /\ f[i] = r0
    <3>1. Complete(s, f, "read", r0, r1) BY DEF Numbered
    <3>2. r0 \in Nat /\ r0 <= r0 /\ r0 < r1 BY <1>1, <1>2
    <3>. QED BY <3>1, <3>2, Zenon DEF Complete
  <2>2. ~(i < p) BY <2>1, <1>0 DEF Free
  <2>3. p < i => f[p] < f[i]
    <3>1. Increasing(s, f) BY DEF Numbered
    <3>. QED BY <2>1, <3>1 DEF Increasing
  <2>. QED BY <1>0, <1>1, <1>2, <2>1, <2>2, <2>3
<1>4. r0 < w0
  <2>. SUFFICES ASSUME r0 = w0 PROVE FALSE BY <1>2
  <2>1. PICK i \in 1..Len(s) : s[i].op = "write" /\ f[i] = r0
    <3>1. w0 <= r0 /\ r0 < w1 BY <1>1, <1>2
    <3>. QED BY <1>2, <3>1 DEF Numbered, Complete
  <2>2. i < p BY <1>3, <2>1 DEF Numbered, Sequenced
  <2>3. s[i].addr = s[p].addr BY <1>1, <1>3, <2>1 DEF Numbered, Ranges
  <2>. QED BY <1>0, <2>2, <2>3 DEF Free
<1>. QED BY <1>1, <1>2, <1>3, <1>4

(* The write that is performed is the oldest, and its slot is free.         *)
LEMMA WritePerformed ==
    ASSUME NEW s, NEW f, NEW r0, NEW r1, NEW w0, NEW w1,
           Window(r0, r1, w0, w1), Numbered(s, f, r0, r1, w0, w1),
           NEW p \in 1..Len(s), Free(s, p), s[p].op = "write"
    PROVE  f[p] = w0 /\ w0 < w1 /\ w0 < r0 + depth /\ s[p].addr = Slot(w0)
<1>0. s \in Seq(Commands) /\ f \in Seq(Nat) /\ Len(f) = Len(s) /\ Len(s) \in Nat /\ depth \in Nat \ {0}
  BY DramFifoAssumption DEF Numbered
<1>1. f[p] \in Nat /\ w0 <= f[p] /\ f[p] < w1 /\ s[p].addr = Slot(f[p])
  BY <1>0 DEF Numbered, Ranges
<1>2. r0 \in Nat /\ r1 \in Nat /\ w0 \in Nat /\ w1 \in Nat /\ w0 <= r0 + depth /\ w1 <= r1 + depth
  BY DEF Window
<1>3. f[p] = w0
  <2>1. PICK i \in 1..Len(s) : s[i].op = "write" /\ f[i] = w0
    <3>1. Complete(s, f, "write", w0, w1) BY DEF Numbered
    <3>2. w0 \in Nat /\ w0 <= w0 /\ w0 < w1 BY <1>1, <1>2
    <3>. QED BY <3>1, <3>2, Zenon DEF Complete
  <2>2. ~(i < p) BY <2>1, <1>0 DEF Free
  <2>3. p < i => f[p] < f[i]
    <3>1. Increasing(s, f) BY DEF Numbered
    <3>. QED BY <2>1, <3>1 DEF Increasing
  <2>. QED BY <1>0, <1>1, <1>2, <2>1, <2>2, <2>3
<1>4. w0 < r0 + depth
  <2>0. depth \in Nat BY DramFifoAssumption
  <2>. SUFFICES ASSUME w0 = r0 + depth PROVE FALSE BY <1>2, <2>0
  <2>1. r0 < r1 BY <1>0, <1>1, <1>2
  <2>2. PICK j \in 1..Len(s) : s[j].op = "read" /\ f[j] = r0
    <3>1. Complete(s, f, "read", r0, r1) /\ r0 <= r0 BY <1>2 DEF Numbered
    <3>. QED BY <1>2, <2>1, <3>1 DEF Complete
  <2>3. j < p BY <1>3, <2>2 DEF Numbered, Sequenced
  <2>4. s[j].addr = Slot(r0) /\ s[p].addr = Slot(r0 + depth) BY <1>1, <1>3, <2>2 DEF Numbered, Ranges
  <2>5. Slot(r0 + depth) = Slot(r0) BY <1>2, Slots
  <2>. QED BY <1>0, <2>3, <2>4, <2>5 DEF Free
<1>. QED BY <1>1, <1>2, <1>3, <1>4

\* What follows a position that is left out moves down by one.
Original(p, i) == IF i < p THEN i ELSE i + 1

Matched(s, f, p, t, g, n) ==
    /\ t \in Seq(Commands) /\ g \in Seq(Nat) /\ Len(t) = n /\ Len(g) = n
    /\ \A i \in 1..n : /\ Original(p, i) \in 1..Len(s) /\ Original(p, i) # p
                       /\ t[i] = s[Original(p, i)] /\ g[i] = f[Original(p, i)]
    /\ \A j \in 1..Len(s) : j # p => \E i \in 1..n : Original(p, i) = j
    /\ \A i, j \in 1..n : i < j <=> Original(p, i) < Original(p, j)

LEMMA WithoutBoth ==
    ASSUME NEW s \in Seq(Commands), NEW f \in Seq(Nat), Len(f) = Len(s), NEW p \in 1..Len(s)
    PROVE  Matched(s, f, p, Without(s, p), Without(f, p), Len(s) - 1)
<1>0. Len(s) \in Nat /\ p \in Nat OBVIOUS
<1>1. /\ Without(s, p) \in Seq(Commands) /\ Len(Without(s, p)) = Len(s) - 1
      /\ \A i \in 1..(Len(s) - 1) : Without(s, p)[i] = IF i < p THEN s[i] ELSE s[i + 1]
  BY WithoutElements, Zenon
<1>2. /\ Without(f, p) \in Seq(Nat) /\ Len(Without(f, p)) = Len(s) - 1
      /\ \A i \in 1..(Len(s) - 1) : Without(f, p)[i] = IF i < p THEN f[i] ELSE f[i + 1]
  <2>1. p \in 1..Len(f) OBVIOUS
  <2>2. /\ Without(f, p) \in Seq(Nat) /\ Len(Without(f, p)) = Len(f) - 1
        /\ \A i \in 1..(Len(f) - 1) : Without(f, p)[i] = IF i < p THEN f[i] ELSE f[i + 1]
    BY <2>1, WithoutElements, Zenon
  <2>. QED BY <2>2, Zenon
<1>3. \A i \in 1..(Len(s) - 1) : Original(p, i) \in 1..Len(s) /\ Original(p, i) # p BY <1>0 DEF Original
<1>4. \A i \in 1..(Len(s) - 1) :
         Without(s, p)[i] = s[Original(p, i)] /\ Without(f, p)[i] = f[Original(p, i)]
  BY <1>1, <1>2, Zenon DEF Original
<1>5. ASSUME NEW j \in 1..Len(s), j # p PROVE \E i \in 1..(Len(s) - 1) : Original(p, i) = j
  <2>1. CASE j < p
    <3>1. j \in 1..(Len(s) - 1) /\ Original(p, j) = j BY <1>0, <2>1 DEF Original
    <3>. QED BY <3>1
  <2>2. CASE p < j
    <3>1. j - 1 \in 1..(Len(s) - 1) /\ Original(p, j - 1) = j BY <1>0, <2>2 DEF Original
    <3>. QED BY <3>1
  <2>. QED BY <1>0, <1>5, <2>1, <2>2
<1>6. \A i, j \in 1..(Len(s) - 1) : i < j <=> Original(p, i) < Original(p, j) BY <1>0 DEF Original
<1>. QED BY <1>1, <1>2, <1>3, <1>4, <1>5, <1>6, Zenon DEF Matched

(* The oldest command of a kind is performed: the others keep their         *)
(* numbers.                                                                 *)
LEMMA NumberedWithout ==
    ASSUME NEW s, NEW f, NEW r0 \in Nat, NEW r1 \in Nat, NEW w0 \in Nat, NEW w1 \in Nat,
           Numbered(s, f, r0, r1, w0, w1),
           NEW p \in 1..Len(s), NEW q0 \in Nat, NEW v0 \in Nat,
           \/ s[p].op = "read" /\ f[p] = r0 /\ q0 = r0 + 1 /\ v0 = w0
           \/ s[p].op = "write" /\ f[p] = w0 /\ q0 = r0 /\ v0 = w0 + 1
    PROVE  Numbered(Without(s, p), Without(f, p), q0, r1, v0, w1)
<1>. DEFINE t == Without(s, p)
            g == Without(f, p)
            n == Len(s) - 1
<1>0. s \in Seq(Commands) /\ f \in Seq(Nat) /\ Len(f) = Len(s) /\ Len(s) \in Nat BY DEF Numbered
<1>10. Matched(s, f, p, t, g, n) BY <1>0, WithoutBoth
<1>. HIDE DEF t, g, n
<1>1. /\ t \in Seq(Commands) /\ g \in Seq(Nat) /\ Len(t) = n /\ Len(g) = n
      /\ \A i \in 1..n : /\ Original(p, i) \in 1..Len(s) /\ Original(p, i) # p
                         /\ t[i] = s[Original(p, i)] /\ g[i] = f[Original(p, i)]
      /\ \A j \in 1..Len(s) : j # p => \E i \in 1..n : Original(p, i) = j
      /\ \A i, j \in 1..n : i < j <=> Original(p, i) < Original(p, j)
  BY <1>10 DEF Matched
<1>2. /\ Ranges(s, f, r0, r1, w0, w1) /\ Increasing(s, f) /\ Sequenced(s, f)
      /\ Complete(s, f, "read", r0, r1) /\ Complete(s, f, "write", w0, w1)
  BY DEF Numbered
<1>3. \A j \in 1..Len(s) : s[j].op = s[p].op /\ j # p => f[p] < f[j]
  <2>. SUFFICES ASSUME NEW j \in 1..Len(s), s[j].op = s[p].op, j # p PROVE f[p] < f[j]
    OBVIOUS
  <2>1. f[j] \in Nat /\ f[p] \in Nat BY <1>0
  <2>2. p < j \/ j < p BY <1>0
  <2>3. p < j => f[p] < f[j] BY <1>2 DEF Increasing
  <2>4. j < p => f[j] < f[p] BY <1>2 DEF Increasing
  <2>5. ~(f[j] < f[p])
    <3>1. s[p].op = "read" => r0 <= f[j] /\ f[p] = r0 BY <1>2 DEF Ranges
    <3>2. s[p].op = "write" => w0 <= f[j] /\ f[p] = w0 BY <1>2 DEF Ranges
    <3>. QED BY <2>1, <3>1, <3>2
  <2>. QED BY <2>2, <2>3, <2>4, <2>5
<1>4. Ranges(t, g, q0, r1, v0, w1)
  <2>. SUFFICES ASSUME NEW i \in 1..n
                PROVE /\ t[i].addr = Slot(g[i])
                      /\ t[i].op = "read" => q0 <= g[i] /\ g[i] < r1
                      /\ t[i].op = "write" => v0 <= g[i] /\ g[i] < w1
    BY <1>1 DEF Ranges
  <2>. DEFINE u == Original(p, i)
  <2>1. u \in 1..Len(s) /\ u # p /\ t[i] = s[u] /\ g[i] = f[u] BY <1>1
  <2>. HIDE DEF u
  <2>2. /\ s[u].addr = Slot(f[u])
        /\ s[u].op = "read" => r0 <= f[u] /\ f[u] < r1
        /\ s[u].op = "write" => w0 <= f[u] /\ f[u] < w1
    BY <1>2, <2>1 DEF Ranges
  <2>3. s[u].op = s[p].op => f[p] < f[u] BY <1>3, <2>1
  <2>4. f[u] \in Nat BY <1>0, <2>1
  <2>. QED BY <2>1, <2>2, <2>3, <2>4
<1>5. Increasing(t, g)
  <2>. SUFFICES ASSUME NEW i \in 1..n, NEW j \in 1..n, i < j, t[i].op = t[j].op PROVE g[i] < g[j]
    BY <1>1 DEF Increasing
  <2>1. Original(p, i) < Original(p, j) /\ Original(p, i) \in 1..Len(s) /\ Original(p, j) \in 1..Len(s) BY <1>1
  <2>2. t[i] = s[Original(p, i)] /\ g[i] = f[Original(p, i)] /\ t[j] = s[Original(p, j)] /\ g[j] = f[Original(p, j)]
    BY <1>1
  <2>3. f[Original(p, i)] < f[Original(p, j)] BY <1>2, <2>1, <2>2 DEF Increasing
  <2>. QED BY <2>2, <2>3
<1>6. Sequenced(t, g)
  <2>. SUFFICES ASSUME NEW i \in 1..n, NEW j \in 1..n, t[i].op = "write", t[j].op = "read"
                PROVE (g[i] = g[j] => i < j) /\ (g[i] = g[j] + depth => j < i)
    BY <1>1 DEF Sequenced
  <2>1. /\ f[Original(p, i)] = f[Original(p, j)] => Original(p, i) < Original(p, j)
        /\ f[Original(p, i)] = f[Original(p, j)] + depth => Original(p, j) < Original(p, i)
    BY <1>1, <1>2 DEF Sequenced
  <2>2. (Original(p, i) < Original(p, j) => i < j) /\ (Original(p, j) < Original(p, i) => j < i) BY <1>1
  <2>3. g[i] = f[Original(p, i)] /\ g[j] = f[Original(p, j)] BY <1>1
  <2>. QED BY <2>1, <2>2, <2>3
<1>7. ASSUME NEW op, NEW first \in Nat, NEW next \in Nat, NEW last \in Nat,
             Complete(s, f, op, first, last),
             IF s[p].op = op THEN f[p] = first /\ next = first + 1 ELSE next = first
      PROVE  Complete(t, g, op, next, last)
  <2>. SUFFICES ASSUME NEW x \in Nat, next <= x, x < last
                PROVE \E i \in 1..n : t[i].op = op /\ g[i] = x
    BY <1>1 DEF Complete
  <2>1. first <= x BY <1>7
  <2>2. PICK j \in 1..Len(s) : s[j].op = op /\ f[j] = x BY <1>7, <2>1 DEF Complete
  <2>3. j # p BY <1>7, <2>2
  <2>4. PICK i \in 1..n : Original(p, i) = j BY <1>1, <2>3
  <2>. QED BY <1>1, <2>2, <2>4
<1>8. Complete(t, g, "read", q0, r1) BY <1>2, <1>7
<1>9. Complete(t, g, "write", v0, w1) BY <1>2, <1>7
<1>11. Numbered(t, g, q0, r1, v0, w1) BY <1>1, <1>4, <1>5, <1>6, <1>8, <1>9 DEF Numbered
<1>. QED BY <1>11 DEF t, g

(* The places of a sequence and the one behind it.                          *)
LEMMA NextPlace ==
    ASSUME NEW m \in Nat
    PROVE  /\ m + 1 \in Nat /\ m + 1 \in 1..(m + 1)
           /\ \A i \in 1..(m + 1) : i = m + 1 \/ i \in 1..m
           /\ \A i \in 1..m : i \in 1..(m + 1) /\ i < m + 1 /\ ~(m + 1 < i)
OBVIOUS

(* A command is issued: it has the next number of its kind.                 *)
LEMMA NumberedAppend ==
    ASSUME NEW s, NEW f, NEW r0 \in Nat, NEW r1 \in Nat, NEW w0 \in Nat, NEW w1 \in Nat,
           Numbered(s, f, r0, r1, w0, w1), r0 <= r1, w0 <= w1,
           NEW c \in Commands, NEW x \in Nat, c.addr = Slot(x), NEW q1 \in Nat, NEW v1 \in Nat,
           \/ c.op = "read" /\ x = r1 /\ q1 = r1 + 1 /\ v1 = w1 /\ w1 <= r1 + depth
           \/ c.op = "write" /\ x = w1 /\ q1 = r1 /\ v1 = w1 + 1 /\ r1 <= w1
    PROVE  Numbered(s \o <<c>>, f \o <<x>>, r0, q1, w0, v1)
<1>. DEFINE t == s \o <<c>>
            g == f \o <<x>>
            n == Len(s) + 1
<1>0. /\ s \in Seq(Commands) /\ f \in Seq(Nat) /\ Len(f) = Len(s) /\ Len(s) \in Nat
      /\ depth \in Nat \ {0}
  BY DramFifoAssumption DEF Numbered
<1>1. /\ t \in Seq(Commands) /\ Len(t) = n /\ t[n] = c /\ \A i \in 1..Len(s) : t[i] = s[i]
      /\ g \in Seq(Nat) /\ Len(g) = n /\ g[n] = x /\ \A i \in 1..Len(s) : g[i] = f[i]
  BY <1>0
<1>2. /\ n \in Nat /\ n \in 1..n /\ \A i \in 1..n : i = n \/ i \in 1..Len(s)
      /\ \A i \in 1..Len(s) : i \in 1..n /\ i < n /\ ~(n < i)
  BY <1>0, NextPlace, Zenon
<1>. HIDE DEF t, g, n
<1>3. /\ Ranges(s, f, r0, r1, w0, w1) /\ Increasing(s, f) /\ Sequenced(s, f)
      /\ Complete(s, f, "read", r0, r1) /\ Complete(s, f, "write", w0, w1)
  BY DEF Numbered
<1>4. \A i \in 1..Len(s) : f[i] \in Nat /\ (s[i].op = c.op => f[i] < x)
  BY <1>0, <1>3 DEF Ranges
<1>5. Ranges(t, g, r0, q1, w0, v1)
  <2>. SUFFICES ASSUME NEW i \in 1..n
                PROVE /\ t[i].addr = Slot(g[i])
                      /\ t[i].op = "read" => r0 <= g[i] /\ g[i] < q1
                      /\ t[i].op = "write" => w0 <= g[i] /\ g[i] < v1
    BY <1>1 DEF Ranges
  <2>1. CASE i = n BY <1>1, <2>1
  <2>2. CASE i \in 1..Len(s)
    <3>1. /\ s[i].addr = Slot(f[i]) /\ f[i] \in Nat
          /\ s[i].op = "read" => r0 <= f[i] /\ f[i] < r1
          /\ s[i].op = "write" => w0 <= f[i] /\ f[i] < w1
      BY <1>3, <1>4, <2>2 DEF Ranges
    <3>2. t[i] = s[i] /\ g[i] = f[i] BY <1>1, <2>2
    <3>. QED BY <3>1, <3>2
  <2>. QED BY <1>2, <2>1, <2>2
<1>6. Increasing(t, g)
  <2>. SUFFICES ASSUME NEW i \in 1..n, NEW j \in 1..n, i < j, t[i].op = t[j].op PROVE g[i] < g[j]
    BY <1>1 DEF Increasing
  <2>1. i \in 1..Len(s) BY <1>0, <1>2 DEF n
  <2>2. CASE j = n BY <1>1, <1>4, <2>1, <2>2
  <2>3. CASE j \in 1..Len(s) BY <1>1, <1>3, <2>1, <2>3 DEF Increasing
  <2>. QED BY <1>2, <2>2, <2>3
<1>7. Sequenced(t, g)
  <2>. SUFFICES ASSUME NEW i \in 1..n, NEW j \in 1..n, t[i].op = "write", t[j].op = "read"
                PROVE (g[i] = g[j] => i < j) /\ (g[i] = g[j] + depth => j < i)
    BY <1>1 DEF Sequenced
  <2>1. CASE i \in 1..Len(s) /\ j \in 1..Len(s) BY <1>1, <1>3, <2>1 DEF Sequenced
  <2>2. CASE i \in 1..Len(s) /\ j = n
    <3>1. c.op = "read" /\ g[j] = x /\ x = r1 /\ w1 <= r1 + depth BY <1>1, <2>2
    <3>2. g[i] = f[i] /\ f[i] \in Nat /\ f[i] < w1 BY <1>1, <1>3, <1>4, <2>2 DEF Ranges
    <3>. QED BY <1>0, <1>2, <2>2, <3>1, <3>2
  <2>3. CASE i = n /\ j \in 1..Len(s)
    <3>1. c.op = "write" /\ g[i] = x /\ x = w1 /\ r1 <= w1 BY <1>1, <2>3
    <3>2. g[j] = f[j] /\ f[j] \in Nat /\ f[j] < r1 BY <1>1, <1>3, <1>4, <2>3 DEF Ranges
    <3>. QED BY <1>0, <1>2, <2>3, <3>1, <3>2
  <2>4. ~(i = n /\ j = n) BY <1>1
  <2>. QED BY <1>2, <2>1, <2>2, <2>3, <2>4
<1>8. ASSUME NEW op, NEW first \in Nat, NEW next \in Nat, NEW last \in Nat,
             Complete(s, f, op, first, last),
             IF c.op = op THEN x = last /\ next = last + 1 ELSE next = last
      PROVE  Complete(t, g, op, first, next)
  <2>. SUFFICES ASSUME NEW y \in Nat, first <= y, y < next
                PROVE \E i \in 1..n : t[i].op = op /\ g[i] = y
    BY <1>1 DEF Complete
  <2>1. CASE y < last
    <3>1. PICK j \in 1..Len(s) : s[j].op = op /\ f[j] = y BY <1>8, <2>1 DEF Complete
    <3>. QED BY <1>1, <1>2, <3>1
  <2>2. CASE ~(y < last)
    <3>1. c.op = op /\ y = x BY <1>8, <2>2
    <3>. QED BY <1>1, <1>2, <3>1
  <2>. QED BY <2>1, <2>2
<1>9. Complete(t, g, "read", r0, q1) BY <1>3, <1>8
<1>10. Complete(t, g, "write", w0, v1) BY <1>3, <1>8
<1>11. Numbered(t, g, r0, q1, w0, v1) BY <1>1, <1>5, <1>6, <1>7, <1>9, <1>10 DEF Numbered
<1>. QED BY <1>11 DEF t, g
-----------------------------------------------------------------------------
(* The words in the FIFO.                                                   *)

Stored == Words \cup {NoWord}

\* Words a to b - 1, which are in the DRAM.
Middle(m, a, b) == [k \in 1..(b - a) |-> m[Slot(a + k - 1)]]

LEMMA MiddleType ==
    ASSUME NEW m \in [Addresses -> Stored], NEW a \in Nat, NEW b \in Nat, a <= b
    PROVE  Middle(m, a, b) \in Seq(Stored)
<1>1. \A k \in 1..(b - a) : a + k - 1 \in Nat /\ m[Slot(a + k - 1)] \in Stored BY Slots
<1>2. b - a \in Nat OBVIOUS
<1>. QED BY <1>1, <1>2 DEF Middle

(* A word is written behind the others; its slot held none of them.         *)
LEMMA MiddleGrows ==
    ASSUME NEW m \in [Addresses -> Stored], NEW v \in Stored, NEW a \in Nat, NEW b \in Nat,
           a <= b, b < a + depth
    PROVE  /\ Middle(m, a, b) \in Seq(Stored)
           /\ Middle([m EXCEPT ![Slot(b)] = v], a, b + 1) = Middle(m, a, b) \o <<v>>
<1>. DEFINE m2 == [m EXCEPT ![Slot(b)] = v]
            n == b - a
<1>0. n \in Nat /\ Slot(b) \in Addresses BY Slots
<1>1. \A x \in Nat : Slot(x) \in Addresses BY Slots
<1>2. \A k \in 1..n : a + k - 1 \in Nat /\ a + k - 1 < b /\ b < a + k - 1 + depth BY <1>0, DramFifoAssumption
<1>3. \A k \in 1..n : Slot(a + k - 1) # Slot(b) BY <1>2, SlotsApart
<1>4. \A k \in 1..n : m2[Slot(a + k - 1)] = m[Slot(a + k - 1)] BY <1>1, <1>2, <1>3
<1>5. m2[Slot(b)] = v BY <1>0
<1>6. Middle(m, a, b) = [k \in 1..n |-> m[Slot(a + k - 1)]] BY DEF Middle
<1>7. \A k \in 1..n : m[Slot(a + k - 1)] \in Stored BY <1>1, <1>2
<1>8. Middle(m, a, b) \in Seq(Stored) /\ Len(Middle(m, a, b)) = n
  BY <1>0, <1>6, <1>7
<1>9. Middle(m2, a, b + 1) = [k \in 1..(n + 1) |-> m2[Slot(a + k - 1)]]
  BY <1>0 DEF Middle
<1>. HIDE DEF m2
<1>10. \A k \in 1..(n + 1) : (Middle(m, a, b) \o <<v>>)[k] = m2[Slot(a + k - 1)]
  <2>. SUFFICES ASSUME NEW k \in 1..(n + 1)
                PROVE (Middle(m, a, b) \o <<v>>)[k] = m2[Slot(a + k - 1)]
    OBVIOUS
  <2>1. CASE k = n + 1
    <3>1. a + k - 1 = b BY <2>1
    <3>2. (Middle(m, a, b) \o <<v>>)[k] = v BY <1>0, <1>8, <2>1
    <3>. QED BY <1>5, <3>1, <3>2
  <2>2. CASE k # n + 1
    <3>1. k \in 1..n BY <1>0, <2>2
    <3>2. (Middle(m, a, b) \o <<v>>)[k] = Middle(m, a, b)[k] BY <1>0, <1>8, <3>1
    <3>3. Middle(m, a, b)[k] = m[Slot(a + k - 1)] BY <1>6, <3>1
    <3>. QED BY <1>4, <3>1, <3>2, <3>3
  <2>. QED BY <2>1, <2>2
<1>11. Middle(m, a, b) \o <<v>> = [k \in 1..(n + 1) |-> (Middle(m, a, b) \o <<v>>)[k]]
  BY <1>0, <1>8
<1>12. Middle(m2, a, b + 1) = Middle(m, a, b) \o <<v>> BY <1>9, <1>10, <1>11
<1>. QED BY <1>8, <1>12 DEF m2

(* The oldest word is read.                                                 *)
LEMMA MiddleShrinks ==
    ASSUME NEW m \in [Addresses -> Stored], NEW a \in Nat, NEW b \in Nat, a < b
    PROVE  /\ Middle(m, a, b) \in Seq(Stored) /\ Middle(m, a + 1, b) \in Seq(Stored)
           /\ m[Slot(a)] \in Stored
           /\ Middle(m, a, b) = <<m[Slot(a)]>> \o Middle(m, a + 1, b)
<1>. DEFINE n == b - a
            h == m[Slot(a)]
            t == Middle(m, a + 1, b)
<1>0. n \in Nat /\ n - 1 \in Nat /\ b - (a + 1) = n - 1 OBVIOUS
<1>1. \A x \in Nat : m[Slot(x)] \in Stored BY Slots
<1>2. t = [k \in 1..(n - 1) |-> m[Slot((a + 1) + k - 1)]] BY <1>0 DEF Middle
<1>3. \A k \in 1..(n - 1) : (a + 1) + k - 1 = a + (k + 1) - 1 /\ (a + 1) + k - 1 \in Nat OBVIOUS
<1>4. t \in Seq(Stored) /\ Len(t) = n - 1 BY <1>0, <1>1, <1>2, <1>3
<1>5. h \in Stored BY <1>1
<1>6. Middle(m, a, b) = [k \in 1..n |-> m[Slot(a + k - 1)]] BY DEF Middle
<1>7. \A k \in 1..n : a + k - 1 \in Nat OBVIOUS
<1>8. Middle(m, a, b) \in Seq(Stored) BY <1>0, <1>1, <1>6, <1>7
<1>. HIDE DEF h, t
<1>9. \A k \in 1..n : (<<h>> \o t)[k] = m[Slot(a + k - 1)]
  <2>. SUFFICES ASSUME NEW k \in 1..n PROVE (<<h>> \o t)[k] = m[Slot(a + k - 1)]
    OBVIOUS
  <2>1. CASE k = 1
    <3>1. (<<h>> \o t)[k] = h /\ a + k - 1 = a BY <1>4, <2>1
    <3>. QED BY <3>1 DEF h
  <2>2. CASE k # 1
    <3>1. k - 1 \in 1..(n - 1) BY <1>0, <2>2
    <3>2. (<<h>> \o t)[k] = t[k - 1] BY <1>0, <1>4, <2>2
    <3>3. t[k - 1] = m[Slot((a + 1) + (k - 1) - 1)] BY <1>2, <3>1
    <3>4. (a + 1) + (k - 1) - 1 = a + k - 1 OBVIOUS
    <3>. QED BY <3>2, <3>3, <3>4
  <2>. QED BY <2>1, <2>2
<1>10. Len(<<h>> \o t) = n /\ <<h>> \o t = [k \in 1..n |-> (<<h>> \o t)[k]] BY <1>0, <1>4, <1>5
<1>11. Middle(m, a, b) = <<h>> \o t BY <1>6, <1>9, <1>10
<1>. QED BY <1>4, <1>5, <1>8, <1>11 DEF h, t
-----------------------------------------------------------------------------
(* One clock edge of the ring.                                              *)

Join(p, q) == p \o q

(* Joining queues keeps their type, is associative, and the empty queue     *)
(* adds nothing.                                                            *)
LEMMA Joined ==
    ASSUME NEW S
    PROVE  /\ \A p, q \in Seq(S) : Join(p, q) \in Seq(S)
           /\ \A p, q, r \in Seq(S) : Join(Join(p, q), r) = Join(p, Join(q, r))
           /\ \A q \in Seq(S) : Join(q, <<>>) = q /\ Join(<<>>, q) = q
<1>1. ASSUME NEW p \in Seq(S), NEW q \in Seq(S), NEW r \in Seq(S)
      PROVE  Join(Join(p, q), r) = Join(p, Join(q, r))
  BY ConcatAssociative DEF Join
<1>2. ASSUME NEW p \in Seq(S), NEW q \in Seq(S) PROVE Join(p, q) \in Seq(S)
  BY DEF Join
<1>3. ASSUME NEW q \in Seq(S) PROVE Join(q, <<>>) = q /\ Join(<<>>, q) = q
  BY ConcatEmptySeq DEF Join
<1>. QED BY <1>1, <1>2, <1>3, Zenon

(* The oldest of a queue, and the others.                                   *)
LEMMA JoinedHead ==
    ASSUME NEW S
    PROVE  \A p, q \in Seq(S) : p # <<>> =>
               /\ Head(p) \in S /\ Tail(p) \in Seq(S) /\ <<Head(p)>> \in Seq(S)
               /\ p = Join(<<Head(p)>>, Tail(p))
               /\ Join(p, q) # <<>> /\ Head(Join(p, q)) = Head(p) /\ Tail(Join(p, q)) = Join(Tail(p), q)
<1>. SUFFICES ASSUME NEW p \in Seq(S), NEW q \in Seq(S), p # <<>>
              PROVE /\ Head(p) \in S /\ Tail(p) \in Seq(S) /\ <<Head(p)>> \in Seq(S)
                    /\ p = <<Head(p)>> \o Tail(p)
                    /\ p \o q # <<>> /\ Head(p \o q) = Head(p) /\ Tail(p \o q) = Tail(p) \o q
  BY DEF Join
<1>1. Head(p) \in S /\ Tail(p) \in Seq(S) /\ <<Head(p)>> \in Seq(S) OBVIOUS
<1>2. p = <<Head(p)>> \o Tail(p) OBVIOUS
<1>3. p \o q # <<>> /\ Head(p \o q) = Head(p) OBVIOUS
<1>4. Tail(p \o q) = Tail(p) \o q OBVIOUS
<1>. QED BY <1>1, <1>2, <1>3, <1>4

\* Words r1 to w1 - 1 are the level words of the ring.
Held(f, r0, r1, w0, w1) ==
    /\ Window(r0, r1, w0, w1) /\ Numbered(port, f, r0, r1, w0, w1)
    /\ reading = r1 - r0 /\ Len(writer_fifo) = w1 - w0 /\ level = w1 - r1
    /\ read_address = Slot(r1) /\ write_address = Slot(w1)

Ring == Balance /\ \E f, r0, r1, w0, w1 : Held(f, r0, r1, w0, w1)

\* The words in the FIFO, by their numbers.
Laid(r0, w0) ==
    /\ Middle(mem, r0, w0) \in Seq(Stored)
    /\ DramContents = Join(reader_fifo, Join(Middle(mem, r0, w0), writer_fifo))

LaidOut == \A f, r0, r1, w0, w1 : Types /\ Held(f, r0, r1, w0, w1) => Laid(r0, w0)

LEMMA Layout == LaidOut
<1>. SUFFICES ASSUME Types, NEW f, NEW r0, NEW r1, NEW w0, NEW w1, Held(f, r0, r1, w0, w1)
              PROVE  Laid(r0, w0)
  BY DEF LaidOut
<1>1. r0 \in Nat /\ r1 \in Nat /\ w0 \in Nat /\ w1 \in Nat /\ r0 <= r1 /\ r0 <= w0
  BY DEF Held, Window
<1>2. reading = r1 - r0 /\ stored = w0 - r0 /\ read_address = Slot(r1)
  BY <1>1 DEF Held, stored
<1>3. PICK n \in Nat : n = r1 - r0 /\ r1 = r0 + n BY <1>1
<1>4. ASSUME NEW k \in 1..(w0 - r0)
      PROVE  (read_address - reading + k - 1) % depth = Slot(r0 + k - 1)
  <2>1. PICK j \in Nat : j = k - 1 BY <1>1
  <2>2. (Slot(r1) - n + j) % depth = Slot(r0 + j) 
    <3>1. r0 + n \in Nat BY <1>1
    <3>. QED BY <1>1, <1>3, <2>1, <3>1, SlotBack
  <2>3. Slot(r1) \in Int BY <1>1, Slots DEF Addresses
  <2>4. read_address - reading + k - 1 = Slot(r1) - n + j /\ r0 + k - 1 = r0 + j
    BY <1>1, <1>2, <1>3, <2>1, <2>3
  <2>. QED BY <2>2, <2>4
<1>5. [k \in 1..stored |-> mem[(read_address - reading + k - 1) % depth]] = Middle(mem, r0, w0)
  BY <1>2, <1>4 DEF Middle
<1>6. Middle(mem, r0, w0) \in Seq(Stored)
  <2>1. mem \in [Addresses -> Stored] BY DEF Types, Stored
  <2>. QED BY <1>1, <2>1, MiddleType
<1>7. reader_fifo \in Seq(Stored) /\ writer_fifo \in Seq(Stored) BY DEF Types, Stored
<1>8. DramContents = Join(Join(reader_fifo, Middle(mem, r0, w0)), writer_fifo)
  BY <1>5, Zenon DEF DramContents, Join
<1>9. Join(Join(reader_fifo, Middle(mem, r0, w0)), writer_fifo)
        = Join(reader_fifo, Join(Middle(mem, r0, w0), writer_fifo))
  <2>1. \A x, y, z \in Seq(Stored) : Join(Join(x, y), z) = Join(x, Join(y, z))
    BY Joined, Zenon
  <2>. QED BY <1>6, <1>7, <2>1
<1>. QED BY <1>6, <1>8, <1>9 DEF Laid

(* What performing the command at position p changes: reads q0 to r1 - 1    *)
(* and writes v0 to w1 - 1 are left.                                        *)
Performs(p, r0, r1, w0, w1, q0, v0) ==
    \/ ~Delivers(p) /\ ~Fetches(p) /\ q0 = r0 /\ v0 = w0
    \/ Delivers(p) /\ ~Fetches(p) /\ q0 = r0 + 1 /\ v0 = w0 /\ r0 < r1 /\ r0 < w0 /\ port[p].addr = Slot(r0)
    \/ Fetches(p) /\ ~Delivers(p) /\ q0 = r0 /\ v0 = w0 + 1 /\ w0 < w1 /\ w0 < r0 + depth /\ port[p].addr = Slot(w0)

LEMMA Performed ==
    ASSUME NEW f, NEW r0, NEW r1, NEW w0, NEW w1,
           Window(r0, r1, w0, w1), Numbered(port, f, r0, r1, w0, w1), NEW p \in Steps
    PROVE  \E g, q0, v0 : /\ Performs(p, r0, r1, w0, w1, q0, v0)
                          /\ Window(q0, r1, v0, w1) /\ Numbered(Remaining(p), g, q0, r1, v0, w1)
<1>0. port \in Seq(Commands) /\ Len(port) \in Nat BY DEF Numbered
<1>1. r0 \in Nat /\ r1 \in Nat /\ w0 \in Nat /\ w1 \in Nat BY DEF Window
<1>2. CASE p = 0
  <2>1. Remaining(p) = port /\ ~Delivers(p) /\ ~Fetches(p) BY <1>2 DEF Remaining, Delivers, Fetches
  <2>. QED BY <2>1 DEF Performs
<1>3. CASE p \in 1..Len(port)
  <2>1. p > 0 /\ p # 0 /\ Free(port, p)
    <3>1. p > 0 /\ p # 0 BY <1>0, <1>3
    <3>. QED BY <3>1 DEF Steps, Performable, Free
  <2>2. Remaining(p) = Without(port, p) BY <2>1, Zenon DEF Remaining, Without
  <2>3. port[p].op \in {"read", "write"} BY <1>0, <1>3, CommandTyped
  <2>4. CASE port[p].op = "read"
    <3>1. f[p] = r0 /\ r0 < r1 /\ r0 < w0 /\ port[p].addr = Slot(r0) BY <1>3, <2>1, <2>4, ReadPerformed
    <3>2. PICK q0 \in Nat : q0 = r0 + 1 BY <1>1
    <3>3. Numbered(Without(port, p), Without(f, p), q0, r1, w0, w1)
      BY <1>1, <1>3, <2>4, <3>1, <3>2, NumberedWithout
    <3>4. Window(q0, r1, w0, w1) BY <1>1, <3>1, <3>2, DramFifoAssumption DEF Window
    <3>5. Delivers(p) /\ ~Fetches(p) BY <2>1, <2>4 DEF Delivers, Fetches
    <3>. QED BY <2>2, <3>1, <3>2, <3>3, <3>4, <3>5 DEF Performs
  <2>5. CASE port[p].op = "write"
    <3>1. f[p] = w0 /\ w0 < w1 /\ w0 < r0 + depth /\ port[p].addr = Slot(w0)
      BY <1>3, <2>1, <2>5, WritePerformed
    <3>2. PICK v0 \in Nat : v0 = w0 + 1 BY <1>1
    <3>3. Numbered(Without(port, p), Without(f, p), r0, r1, v0, w1)
      BY <1>1, <1>3, <2>5, <3>1, <3>2, NumberedWithout
    <3>4. Window(r0, r1, v0, w1) BY <1>1, <3>1, <3>2, DramFifoAssumption DEF Window
    <3>5. Fetches(p) /\ ~Delivers(p) BY <2>1, <2>5 DEF Delivers, Fetches
    <3>. QED BY <2>2, <3>1, <3>2, <3>3, <3>4, <3>5 DEF Performs
  <2>. QED BY <2>3, <2>4, <2>5
<1>. QED BY <1>2, <1>3 DEF Steps

(* The commands issued have the next numbers.                               *)
LEMMA Issued ==
    ASSUME NEW s, NEW g, NEW r0, NEW r1, NEW w0, NEW w1,
           Window(r0, r1, w0, w1), Numbered(s, g, r0, r1, w0, w1),
           NEW wr \in BOOLEAN, NEW rd \in BOOLEAN, wr => w1 < r1 + depth, rd => r1 < w1,
           NEW w \in Commands, w.op = "write", w.addr = Slot(w1),
           NEW r \in Commands, r.op = "read", r.addr = Slot(r1),
           NEW q1, q1 = IF rd THEN r1 + 1 ELSE r1, NEW v1, v1 = IF wr THEN w1 + 1 ELSE w1
    PROVE  /\ Window(r0, q1, w0, v1)
           /\ \E h : Numbered(s \o (IF wr THEN <<w>> ELSE <<>>) \o (IF rd THEN <<r>> ELSE <<>>), h, r0, q1, w0, v1)
<1>. DEFINE t == s \o (IF wr THEN <<w>> ELSE <<>>)
<1>1. /\ r0 \in Nat /\ r1 \in Nat /\ w0 \in Nat /\ w1 \in Nat /\ q1 \in Nat /\ v1 \in Nat
      /\ r0 <= r1 /\ w0 <= w1 /\ r1 <= w1 /\ w1 <= r1 + depth /\ depth \in Nat
  BY DramFifoAssumption DEF Window
<1>2. w0 <= v1 /\ r1 <= v1 /\ v1 <= r1 + depth BY <1>1
<1>3. Window(r0, q1, w0, v1) BY <1>1 DEF Window
<1>4. PICK h : Numbered(t, h, r0, r1, w0, v1)
  <2>1. CASE wr
    <3>1. v1 = w1 + 1 BY <2>1
    <3>2. Numbered(s \o <<w>>, g \o <<w1>>, r0, r1, w0, v1) BY <1>1, <3>1, NumberedAppend
    <3>. QED BY <2>1, <3>2
  <2>2. CASE ~wr
    <3>1. t = s BY <2>2 DEF Numbered
    <3>. QED BY <2>2, <3>1
  <2>. QED BY <2>1, <2>2
<1>. HIDE DEF t
<1>5. \E u : Numbered(t \o (IF rd THEN <<r>> ELSE <<>>), u, r0, q1, w0, v1)
  <2>1. CASE rd
    <3>1. q1 = r1 + 1 BY <2>1
    <3>2. Numbered(t \o <<r>>, h \o <<r1>>, r0, q1, w0, v1) BY <1>1, <1>2, <1>4, <3>1, NumberedAppend
    <3>. QED BY <2>1, <3>2
  <2>2. CASE ~rd
    <3>1. t \o <<>> = t BY <1>4 DEF Numbered
    <3>. QED BY <1>4, <2>2, <3>1
  <2>. QED BY <2>1, <2>2
<1>. QED BY <1>3, <1>5 DEF t

\* The word delivered in this cycle, and the words that are not fetched in it.
Arriving(p) == IF Delivers(p) THEN <<mem[port[p].addr]>> ELSE <<>>
Unfetched(p) == IF Fetches(p) THEN Tail(writer_fifo) ELSE writer_fifo

Stores(p) ==
    mem' = IF Fetches(p) THEN [mem EXCEPT ![port[p].addr] =
                                 IF writer_fifo = <<>> THEN NoWord ELSE Head(writer_fifo)] ELSE mem
Moved(p, r0, w0, q0, v0) ==
    /\ Arriving(p) \in Seq(Stored) /\ Middle(mem', q0, v0) \in Seq(Stored) /\ Unfetched(p) \in Seq(Words)
    /\ Join(Arriving(p), Join(Middle(mem', q0, v0), Unfetched(p))) = Join(Middle(mem, r0, w0), writer_fifo)

(* The words that are neither delivered nor fetched in this cycle stay      *)
(* between those that are and those that are not yet in the DRAM.           *)
LEMMA WordsMove ==
    ASSUME Types, NEW p,
           NEW r0 \in Nat, NEW r1 \in Nat, NEW w0 \in Nat, NEW w1 \in Nat, NEW q0 \in Nat, NEW v0 \in Nat,
           r0 <= w0, Performs(p, r0, r1, w0, w1, q0, v0), Fetches(p) => writer_fifo # <<>>, Stores(p)
    PROVE  Moved(p, r0, w0, q0, v0)
<1>. DEFINE delivered == Arriving(p)
            rest == Unfetched(p)
<1>1. /\ mem' = (IF Fetches(p) THEN [mem EXCEPT ![port[p].addr] =
                                    IF writer_fifo = <<>> THEN NoWord ELSE Head(writer_fifo)] ELSE mem)
      /\ delivered = (IF Delivers(p) THEN <<mem[port[p].addr]>> ELSE <<>>)
      /\ rest = (IF Fetches(p) THEN Tail(writer_fifo) ELSE writer_fifo)
  BY Zenon DEF Arriving, Unfetched, Stores
<1>. SUFFICES /\ delivered \in Seq(Stored) /\ Middle(mem', q0, v0) \in Seq(Stored) /\ rest \in Seq(Words)
              /\ Join(delivered, Join(Middle(mem', q0, v0), rest)) = Join(Middle(mem, r0, w0), writer_fifo)
  BY DEF Moved
<1>. HIDE DEF delivered, rest
<1>0. /\ \A x, y \in Seq(Stored) : Join(x, y) \in Seq(Stored)
      /\ \A x, y, z \in Seq(Stored) : Join(Join(x, y), z) = Join(x, Join(y, z))
      /\ \A x \in Seq(Stored) : Join(x, <<>>) = x /\ Join(<<>>, x) = x
  BY Joined, Zenon
<1>2. mem \in [Addresses -> Stored] /\ writer_fifo \in Seq(Words) /\ writer_fifo \in Seq(Stored)
  BY DEF Types, Stored
<1>3. CASE ~Delivers(p) /\ ~Fetches(p)
  <2>1. q0 = r0 /\ v0 = w0 /\ mem' = mem /\ delivered = <<>> /\ rest = writer_fifo
    BY <1>1, <1>3 DEF Performs
  <2>2. Middle(mem, r0, w0) \in Seq(Stored) BY <1>2, MiddleType
  <2>3. Join(Middle(mem, r0, w0), writer_fifo) \in Seq(Stored) BY <1>2, <2>2, <1>0, Zenon
  <2>4. Join(<<>>, Join(Middle(mem, r0, w0), writer_fifo)) = Join(Middle(mem, r0, w0), writer_fifo)
    BY <2>3, <1>0, Zenon
  <2>5. <<>> \in Seq(Stored) OBVIOUS
  <2>. QED BY <1>2, <2>1, <2>2, <2>4, <2>5
<1>4. CASE Delivers(p) /\ ~Fetches(p)
  <2>1. /\ q0 = r0 + 1 /\ v0 = w0 /\ r0 < w0 /\ mem' = mem /\ rest = writer_fifo
        /\ delivered = <<mem[Slot(r0)]>>
    BY <1>1, <1>4 DEF Performs
  <2>2. /\ Middle(mem, r0, w0) \in Seq(Stored) /\ Middle(mem, q0, w0) \in Seq(Stored)
        /\ mem[Slot(r0)] \in Stored /\ Middle(mem, r0, w0) = Join(delivered, Middle(mem, q0, w0))
    <3>1. /\ Middle(mem, r0, w0) \in Seq(Stored) /\ Middle(mem, r0 + 1, w0) \in Seq(Stored)
          /\ mem[Slot(r0)] \in Stored
          /\ Middle(mem, r0, w0) = <<mem[Slot(r0)]>> \o Middle(mem, r0 + 1, w0)
      BY <1>2, <2>1, MiddleShrinks
    <3>. QED BY <2>1, <3>1, Zenon DEF Join
  <2>3. delivered \in Seq(Stored)
    <3>1. <<mem[Slot(r0)]>> \in Seq(Stored) BY <2>2
    <3>. QED BY <2>1, <3>1
  <2>4. Join(Join(delivered, Middle(mem, q0, w0)), writer_fifo)
          = Join(delivered, Join(Middle(mem, q0, w0), writer_fifo))
    BY <1>2, <2>2, <2>3, <1>0, Zenon
  <2>5. Middle(mem', q0, v0) = Middle(mem, q0, w0) BY <2>1
  <2>. QED BY <1>2, <2>1, <2>2, <2>3, <2>4, <2>5
<1>5. CASE Fetches(p) /\ ~Delivers(p)
  <2>1. /\ q0 = r0 /\ v0 = w0 + 1 /\ w0 < r0 + depth /\ delivered = <<>> /\ rest = Tail(writer_fifo)
        /\ mem' = [mem EXCEPT ![Slot(w0)] = Head(writer_fifo)]
    BY <1>1, <1>5 DEF Performs
  <2>2. /\ Head(writer_fifo) \in Words /\ Tail(writer_fifo) \in Seq(Words) /\ <<Head(writer_fifo)>> \in Seq(Words)
        /\ writer_fifo = Join(<<Head(writer_fifo)>>, Tail(writer_fifo))
    BY <1>2, <1>5, JoinedHead
  <2>3. /\ Head(writer_fifo) \in Stored /\ Tail(writer_fifo) \in Seq(Stored)
        /\ <<Head(writer_fifo)>> \in Seq(Stored)
    BY <2>2 DEF Stored
  <2>4. /\ Middle(mem, r0, w0) \in Seq(Stored)
        /\ Middle([mem EXCEPT ![Slot(w0)] = Head(writer_fifo)], r0, w0 + 1)
             = Join(Middle(mem, r0, w0), <<Head(writer_fifo)>>)
    BY <1>2, <2>1, <2>3, MiddleGrows DEF Join
  <2>5. Middle(mem', q0, v0) = Join(Middle(mem, r0, w0), <<Head(writer_fifo)>>) BY <2>1, <2>4
  <2>6. Middle(mem', q0, v0) \in Seq(Stored)
    <3>1. Join(Middle(mem, r0, w0), <<Head(writer_fifo)>>) \in Seq(Stored) BY <2>3, <2>4, <1>0, Zenon
    <3>. QED BY <2>5, <3>1, Zenon
  <2>7. Join(Join(Middle(mem, r0, w0), <<Head(writer_fifo)>>), Tail(writer_fifo))
          = Join(Middle(mem, r0, w0), Join(<<Head(writer_fifo)>>, Tail(writer_fifo)))
    BY <2>3, <2>4, <1>0, Zenon
  <2>8. Join(Middle(mem', q0, v0), rest) = Join(Middle(mem, r0, w0), writer_fifo)
    BY <2>1, <2>2, <2>5, <2>7, Zenon
  <2>9. Join(Middle(mem', q0, v0), rest) \in Seq(Stored) BY <2>1, <2>3, <2>6, <1>0, Zenon
  <2>10. Join(<<>>, Join(Middle(mem', q0, v0), rest)) = Join(Middle(mem', q0, v0), rest)
    BY <2>9, <1>0, Zenon
  <2>11. <<>> \in Seq(Stored) OBVIOUS
  <2>. QED BY <2>1, <2>2, <2>6, <2>8, <2>10, <2>11
<1>. QED BY <1>3, <1>4, <1>5 DEF Performs

(* The two queues of the FIFO after a clock edge.                           *)
LEMMA QueuesEdge ==
    ASSUME Balance, NEW sink \in {<<>>} \cup {<<w>> : w \in Words}, NEW source_ready \in BOOLEAN,
           NEW w_ready \in BOOLEAN, NEW r_ready \in BOOLEAN, NEW p \in Steps,
           DramEdge(sink, source_ready, w_ready, r_ready, p)
    PROVE  /\ Fetches(p) => writer_fifo # <<>>
           /\ Taken(source_ready) => reader_fifo # <<>> /\ res_fifo > 0
           /\ writer_fifo' = Join(Unfetched(p),
                                  IF write(sink, w_ready) THEN sink ELSE <<>>)
           /\ reader_fifo' = Join(IF Taken(source_ready) THEN Tail(reader_fifo) ELSE reader_fifo,
                                  Arriving(p))
           /\ res_fifo' = res_fifo + (IF read(r_ready) THEN 1 ELSE 0) - (IF Taken(source_ready) THEN 1 ELSE 0)
<1>1. /\ Cardinality(Reads) \in Nat /\ Cardinality(Writes) \in Nat
      /\ Delivers(p) => Cardinality(Reads) > 0
      /\ Fetches(p) => Cardinality(Writes) > 0
  <2>. DEFINE w == [op |-> "write", addr |-> write_address]
              r == [op |-> "read", addr |-> read_address]
              ws == IF write(sink, w_ready) THEN <<w>> ELSE <<>>
              rs == IF read(r_ready) THEN <<r>> ELSE <<>>
  <2>1. port' = Remaining(p) \o ws \o rs BY Zenon DEF DramEdge
  <2>2. port \in Seq(Commands) BY DEF Balance, Types
  <2>3. w \in Commands /\ r \in Commands BY DEF Balance, Types, Commands, Ops
  <2>4. w.op = "write" /\ r.op = "read" OBVIOUS
  <2>5. ws \in {<<>>, <<w>>} /\ rs \in {<<>>, <<r>>} OBVIOUS
  <2>. HIDE DEF w, r, ws, rs
  <2>. QED BY <2>1, <2>2, <2>3, <2>4, <2>5, PortEdge
<1>2. /\ writer_fifo \in Seq(Words) /\ Cardinality(Writes) = Len(writer_fifo)
      /\ reader_fifo \in Seq(Words \cup {NoWord}) /\ Len(reader_fifo) \in Nat
      /\ res_fifo \in 0..reader_fifo_depth /\ Cardinality(Reads) + Len(reader_fifo) = res_fifo
  BY DEF Balance, Types, WritesHaveData, ReadsHaveRoom
<1>3. Fetches(p) => writer_fifo # <<>>
  <2>1. Fetches(p) => Len(writer_fifo) > 0 BY <1>1, <1>2
  <2>. QED BY <1>2, <2>1
<1>4. Taken(source_ready) => reader_fifo # <<>> /\ res_fifo > 0
  <2>1. Taken(source_ready) => reader_fifo # <<>> BY DEF Taken
  <2>2. reader_fifo # <<>> => Len(reader_fifo) > 0 BY <1>2
  <2>. QED BY <1>1, <1>2, <2>1, <2>2
<1>5. Delivers(p) => Len(reader_fifo) < reader_fifo_depth BY <1>1, <1>2, DramFifoAssumption
<1>6. write(sink, w_ready) => Len(writer_fifo) < writer_fifo_depth BY DEF write
<1>7. /\ writer_fifo' = (IF Fetches(p) /\ writer_fifo # <<>> THEN Tail(writer_fifo) ELSE writer_fifo)
                \o (IF write(sink, w_ready) /\ Len(writer_fifo) < writer_fifo_depth THEN sink ELSE <<>>)
      /\ reader_fifo' = (IF Taken(source_ready) THEN Tail(reader_fifo) ELSE reader_fifo)
                \o (IF Delivers(p) /\ Len(reader_fifo) < reader_fifo_depth
                    THEN <<mem[port[p].addr]>> ELSE <<>>)
      /\ res_fifo' = (IF read(r_ready) THEN res_fifo + 1 ELSE res_fifo)
                       - (IF Taken(source_ready) /\ res_fifo > 0 THEN 1 ELSE 0)
  BY Zenon DEF DramEdge
<1>8. writer_fifo' = Join(Unfetched(p),
                          IF write(sink, w_ready) THEN sink ELSE <<>>)
  BY <1>3, <1>6, <1>7, Zenon DEF Join, Unfetched
<1>9. reader_fifo' = Join(IF Taken(source_ready) THEN Tail(reader_fifo) ELSE reader_fifo,
                          Arriving(p))
  BY <1>5, <1>7, Zenon DEF Join, Arriving
<1>10. res_fifo' = res_fifo + (IF read(r_ready) THEN 1 ELSE 0) - (IF Taken(source_ready) THEN 1 ELSE 0)
  BY <1>2, <1>4, <1>7
<1>. QED BY <1>3, <1>4, <1>8, <1>9, <1>10

(* A clock edge performs a command, and issues up to two; what is under way *)
(* stays numbered.                                                          *)
LEMMA NumbersEdge ==
    ASSUME Balance, Balance', NEW sink \in {<<>>} \cup {<<w>> : w \in Words}, NEW source_ready \in BOOLEAN,
           NEW w_ready \in BOOLEAN, NEW r_ready \in BOOLEAN, NEW p \in Steps,
           DramEdge(sink, source_ready, w_ready, r_ready, p),
           NEW f, NEW r0, NEW r1, NEW w0, NEW w1, Held(f, r0, r1, w0, w1)
    PROVE  \E g, q0, q1, v0, v1 :
               /\ Performs(p, r0, r1, w0, w1, q0, v0)
               /\ q1 = (IF read(r_ready) THEN r1 + 1 ELSE r1)
               /\ v1 = (IF write(sink, w_ready) THEN w1 + 1 ELSE w1)
               /\ Window(q0, q1, v0, v1) /\ Numbered(port', g, q0, q1, v0, v1)
<1>. DEFINE wr == write(sink, w_ready)
            rd == read(r_ready)
            w == [op |-> "write", addr |-> write_address]
            r == [op |-> "read", addr |-> read_address]
            q1 == IF rd THEN r1 + 1 ELSE r1
            v1 == IF wr THEN w1 + 1 ELSE w1
<1>1. /\ Window(r0, r1, w0, w1) /\ Numbered(port, f, r0, r1, w0, w1)
      /\ level = w1 - r1 /\ read_address = Slot(r1) /\ write_address = Slot(w1)
  BY DEF Held
<1>2. r1 \in Nat /\ w1 \in Nat /\ depth \in Nat /\ r1 <= w1 BY <1>1, DramFifoAssumption DEF Window
<1>3. wr \in BOOLEAN /\ rd \in BOOLEAN BY DEF write, read, writable, readable
<1>4. (wr => w1 < r1 + depth) /\ (rd => r1 < w1)
  <2>1. (wr => level < depth) /\ (rd => level > 0) BY DEF write, read, writable, readable
  <2>. HIDE DEF wr, rd
  <2>. QED BY <1>1, <1>2, <2>1
<1>5. w \in Commands /\ w.op = "write" /\ w.addr = Slot(w1) BY <1>1, <1>2, Slots DEF Commands, Ops
<1>6. r \in Commands /\ r.op = "read" /\ r.addr = Slot(r1) BY <1>1, <1>2, Slots DEF Commands, Ops
<1>7. port' = Remaining(p) \o (IF wr THEN <<w>> ELSE <<>>) \o (IF rd THEN <<r>> ELSE <<>>)
  BY Zenon DEF DramEdge
<1>8. PICK g, q0, v0 : /\ Performs(p, r0, r1, w0, w1, q0, v0)
                       /\ Window(q0, r1, v0, w1) /\ Numbered(Remaining(p), g, q0, r1, v0, w1)
  BY <1>1, Performed
<1>. HIDE DEF wr, rd, w, r
<1>9. /\ Window(q0, q1, v0, v1)
      /\ \E h : Numbered(Remaining(p) \o (IF wr THEN <<w>> ELSE <<>>) \o (IF rd THEN <<r>> ELSE <<>>),
                         h, q0, q1, v0, v1)
  BY <1>3, <1>4, <1>5, <1>6, <1>8, Issued
<1>10. PICK h : Numbered(port', h, q0, q1, v0, v1) BY <1>7, <1>9
<1>. QED BY <1>8, <1>9, <1>10 DEF wr, rd

(* A clock edge of the ring, seen from outside: the oldest word leaves when *)
(* the source is ready, and the word accepted is behind the others.         *)
LEMMA RingEdge ==
    ASSUME Ring, NEW sink \in {<<>>} \cup {<<w>> : w \in Words}, NEW source_ready \in BOOLEAN,
           NEW w_ready \in BOOLEAN, NEW r_ready \in BOOLEAN, NEW p \in Steps,
           DramEdge(sink, source_ready, w_ready, r_ready, p)
    PROVE  /\ Ring' /\ DramContents \in Seq(Stored)
           /\ Taken(source_ready) =>
                  reader_fifo # <<>> /\ DramContents # <<>> /\ Head(DramContents) = Head(reader_fifo)
           /\ DramContents' = Join(IF Taken(source_ready) THEN Tail(DramContents) ELSE DramContents,
                                   IF write(sink, w_ready) THEN sink ELSE <<>>)
<1>. DEFINE wr == write(sink, w_ready)
            rd == read(r_ready)
            taken == Taken(source_ready)
            delivered == Arriving(p)
            rest == Unfetched(p)
            kept == IF taken THEN Tail(reader_fifo) ELSE reader_fifo
            added == IF wr THEN sink ELSE <<>>
<1>0. /\ \A x, y \in Seq(Stored) : Join(x, y) \in Seq(Stored)
      /\ \A x, y, z \in Seq(Stored) : Join(Join(x, y), z) = Join(x, Join(y, z))
      /\ \A x, y \in Seq(Stored) : x # <<>> =>
             /\ Head(x) \in Stored /\ Tail(x) \in Seq(Stored) /\ <<Head(x)>> \in Seq(Stored)
             /\ x = Join(<<Head(x)>>, Tail(x))
             /\ Join(x, y) # <<>> /\ Head(Join(x, y)) = Head(x) /\ Tail(Join(x, y)) = Join(Tail(x), y)
  <2>1. /\ \A x, y \in Seq(Stored) : Join(x, y) \in Seq(Stored)
        /\ \A x, y, z \in Seq(Stored) : Join(Join(x, y), z) = Join(x, Join(y, z))
    BY Joined, Zenon
  <2>. QED BY <2>1, JoinedHead, Zenon
<1>1. Balance /\ Balance'
  <2>1. Balance BY DEF Ring
  <2>2. DramNext BY DEF DramNext
  <2>. QED BY <2>1, <2>2, BalanceNext
<1>2. Types /\ Types' BY <1>1 DEF Balance
<1>3. PICK f, r0, r1, w0, w1 : Held(f, r0, r1, w0, w1) BY DEF Ring
<1>4. PICK g, q0, q1, v0, v1 :
               /\ Performs(p, r0, r1, w0, w1, q0, v0)
               /\ q1 = (IF rd THEN r1 + 1 ELSE r1)
               /\ v1 = (IF wr THEN w1 + 1 ELSE w1)
               /\ Window(q0, q1, v0, v1) /\ Numbered(port', g, q0, q1, v0, v1)
  BY <1>1, <1>3, NumbersEdge
<1>5. /\ r0 \in Nat /\ r1 \in Nat /\ w0 \in Nat /\ w1 \in Nat /\ q0 \in Nat /\ v0 \in Nat
      /\ r0 <= w0
  BY <1>3, <1>4 DEF Held, Window
<1>6. /\ Fetches(p) => writer_fifo # <<>>
      /\ taken => reader_fifo # <<>> /\ res_fifo > 0
      /\ writer_fifo' = Join(rest, added)
      /\ reader_fifo' = Join(kept, delivered)
      /\ res_fifo' = res_fifo + (IF rd THEN 1 ELSE 0) - (IF taken THEN 1 ELSE 0)
  BY <1>1, QueuesEdge
<1>7. /\ level' = (IF wr THEN level + 1 ELSE level) - (IF rd THEN 1 ELSE 0)
      /\ write_address' = (IF wr THEN inc(write_address) ELSE write_address)
      /\ read_address' = IF rd THEN inc(read_address) ELSE read_address
  BY Zenon DEF DramEdge
<1>8. /\ delivered \in Seq(Stored) /\ Middle(mem', q0, v0) \in Seq(Stored) /\ rest \in Seq(Words)
      /\ Join(delivered, Join(Middle(mem', q0, v0), rest)) = Join(Middle(mem, r0, w0), writer_fifo)
  <2>1. Performs(p, r0, r1, w0, w1, q0, v0) BY <1>4
  <2>2. Fetches(p) => writer_fifo # <<>> BY <1>6
  <2>3. Stores(p) BY Zenon DEF DramEdge, Stores
  <2>4. Moved(p, r0, w0, q0, v0) BY <1>2, <1>5, <2>1, <2>2, <2>3, WordsMove
  <2>. QED BY <2>4 DEF Moved
<1>9. /\ reader_fifo \in Seq(Stored) /\ kept \in Seq(Stored) /\ rest \in Seq(Stored)
      /\ writer_fifo \in Seq(Stored) /\ writer_fifo \in Seq(Words)
  <2>1. reader_fifo \in Seq(Stored) /\ writer_fifo \in Seq(Words) /\ writer_fifo \in Seq(Stored)
    BY <1>2 DEF Types, Stored
  <2>2. kept \in Seq(Stored)
    <3>1. CASE taken
      <4>1. Tail(reader_fifo) \in Seq(Stored) BY <1>0, <1>6, <2>1, <3>1
      <4>. QED BY <3>1, <4>1
    <3>2. CASE ~taken BY <2>1, <3>2
    <3>. QED BY <3>1, <3>2
  <2>3. rest \in Seq(Stored)
    <3>. HIDE DEF rest
    <3>. QED BY <1>8 DEF Stored
  <2>. QED BY <2>1, <2>2, <2>3
<1>10. /\ added \in Seq(Words) /\ added \in Seq(Stored) /\ Len(added) = IF wr THEN 1 ELSE 0
  <2>1. CASE wr
    <3>1. sink # <<>> BY <2>1 DEF write
    <3>2. PICK word \in Words : sink = <<word>> BY <3>1
    <3>3. <<word>> \in Seq(Words) /\ <<word>> \in Seq(Stored) /\ Len(<<word>>) = 1 BY <3>2 DEF Stored
    <3>. QED BY <2>1, <3>2, <3>3
  <2>2. CASE ~wr BY <2>2
  <2>. QED BY <2>1, <2>2
<1>11. DramContents = Join(reader_fifo, Join(Middle(mem, r0, w0), writer_fifo))
       /\ Middle(mem, r0, w0) \in Seq(Stored)
  BY <1>2, <1>3, Layout DEF LaidOut, Laid
<1>12. Held(g, q0, q1, v0, v1)'
  <2>1. read_address' = Slot(q1) /\ write_address' = Slot(v1)
    <3>1. read_address = Slot(r1) /\ write_address = Slot(w1) BY <1>3 DEF Held
    <3>2. Slot(r1 + 1) = inc(Slot(r1)) /\ Slot(w1 + 1) = inc(Slot(w1)) BY <1>5, Slots
    <3>. QED BY <1>4, <1>7, <3>1, <3>2
  <2>2. level' = v1 - q1
    <3>1. level = w1 - r1 BY <1>3 DEF Held
    <3>. HIDE DEF wr, rd
    <3>. QED BY <1>4, <1>5, <1>7, <3>1
  <2>3. Len(writer_fifo') = v1 - v0
    <3>1. Len(writer_fifo) = w1 - w0 BY <1>3 DEF Held
    <3>2. Len(rest) = w1 - v0
      <4>1. CASE Fetches(p)
        <5>1. v0 = w0 + 1 BY <1>4, <4>1 DEF Performs
        <5>2. Len(Tail(writer_fifo)) = Len(writer_fifo) - 1 BY <1>6, <1>9, <4>1
        <5>3. rest = Tail(writer_fifo) BY <4>1 DEF Unfetched
        <5>. QED BY <1>5, <3>1, <5>1, <5>2, <5>3
      <4>2. CASE ~Fetches(p)
        <5>1. v0 = w0 BY <1>4, <4>2 DEF Performs
        <5>2. rest = writer_fifo BY <4>2 DEF Unfetched
        <5>. QED BY <3>1, <5>1, <5>2
      <4>. QED BY <4>1, <4>2
    <3>. HIDE DEF rest, added
    <3>3. Len(writer_fifo') = Len(rest) + Len(added)
      <4>1. Len(rest \o added) = Len(rest) + Len(added)
        BY <1>8, <1>10, QueueEdge, Zenon
      <4>. QED BY <1>6, <4>1 DEF Join
    <3>. HIDE DEF wr
    <3>. QED BY <1>4, <1>5, <1>10, <3>2, <3>3
  <2>4. reading' = q1 - q0
    <3>1. res_fifo - Len(reader_fifo) = r1 - r0 BY <1>3 DEF Held, reading
    <3>2. PICK d \in 0..1 : d = (IF Delivers(p) THEN 1 ELSE 0) /\ q0 = r0 + d
      BY <1>4, <1>5 DEF Performs
    <3>3. Len(kept) = Len(reader_fifo) - (IF taken THEN 1 ELSE 0) /\ Len(kept) \in Nat
      <4>1. CASE taken
        <5>1. Len(Tail(reader_fifo)) = Len(reader_fifo) - 1 BY <1>6, <1>9, <4>1
        <5>. QED BY <1>9, <4>1, <5>1
      <4>2. CASE ~taken BY <1>9, <4>2
      <4>. QED BY <4>1, <4>2
    <3>4. Len(delivered) = d BY <3>2 DEF Arriving
    <3>. HIDE DEF kept, delivered
    <3>5. Len(reader_fifo') = Len(kept) + Len(delivered)
      <4>1. Len(kept \o delivered) = Len(kept) + Len(delivered) BY <1>8, <1>9
      <4>. QED BY <1>6, <4>1 DEF Join
    <3>6. res_fifo \in Int /\ Len(reader_fifo) \in Int BY <1>2, <1>9 DEF Types
    <3>. HIDE DEF rd, taken
    <3>7. reading' = res_fifo' - Len(reader_fifo') BY DEF reading
    <3>8. PICK i \in 0..1, t \in 0..1 : /\ i = (IF rd THEN 1 ELSE 0) /\ q1 = r1 + i
                                        /\ t = IF taken THEN 1 ELSE 0
      BY <1>4, <1>5
    <3>9. res_fifo' = res_fifo + i - t /\ Len(reader_fifo') = Len(reader_fifo) - t + d
      BY <1>6, <3>3, <3>4, <3>5, <3>8
    <3>. QED BY <1>5, <3>1, <3>2, <3>6, <3>7, <3>8, <3>9
  <2>. QED BY <1>4, <2>1, <2>2, <2>3, <2>4 DEF Held
<1>13. DramContents' = Join(reader_fifo', Join(Middle(mem', q0, v0), writer_fifo'))
  <2>1. LaidOut' BY Layout, PTL
  <2>2. Laid(q0, v0)' BY <1>2, <1>12, <2>1 DEF LaidOut
  <2>. QED BY <2>2 DEF Laid
<1>14. Ring' BY <1>1, <1>12 DEF Ring
<1>. HIDE DEF wr, rd, delivered, rest, added
<1>. DEFINE inner == Join(Middle(mem, r0, w0), writer_fifo)
            after == Middle(mem', q0, v0)
<1>15. inner \in Seq(Stored) BY <1>0, <1>9, <1>11
<1>16. Join(after, writer_fifo') = Join(Join(after, rest), added) /\ Join(after, rest) \in Seq(Stored)
  BY <1>0, <1>6, <1>8, <1>9, <1>10
<1>17. Join(reader_fifo', Join(after, writer_fifo')) = Join(Join(kept, inner), added)
  <2>. HIDE DEF kept, inner, after
  <2>1. after \in Seq(Stored) /\ Join(delivered, Join(after, rest)) = inner BY <1>8 DEF inner, after
  <2>2. Join(delivered, Join(Join(after, rest), added)) = Join(inner, added)
    BY <1>0, <1>8, <1>10, <1>16, <2>1
  <2>3. Join(Join(after, rest), added) \in Seq(Stored) BY <1>0, <1>10, <1>16
  <2>4. Join(Join(kept, delivered), Join(Join(after, rest), added))
          = Join(kept, Join(delivered, Join(Join(after, rest), added)))
    BY <1>0, <1>8, <1>9, <2>3
  <2>5. Join(kept, Join(inner, added)) = Join(Join(kept, inner), added)
    BY <1>0, <1>9, <1>10, <1>15
  <2>. QED BY <1>6, <1>16, <2>2, <2>4, <2>5
<1>18. DramContents = Join(reader_fifo, inner) /\ DramContents \in Seq(Stored)
  BY <1>0, <1>9, <1>11, <1>15
<1>19. taken => /\ DramContents # <<>> /\ Head(DramContents) = Head(reader_fifo)
                /\ Tail(DramContents) = Join(Tail(reader_fifo), inner)
  <2>. SUFFICES ASSUME taken
                PROVE  /\ DramContents # <<>> /\ Head(DramContents) = Head(reader_fifo)
                       /\ Tail(DramContents) = Join(Tail(reader_fifo), inner)
    OBVIOUS
  <2>1. reader_fifo # <<>> BY <1>6
  <2>2. reader_fifo \in Seq(Stored) BY <1>9
  <2>. HIDE DEF inner, kept, taken
  <2>3. /\ Join(reader_fifo, inner) # <<>> /\ Head(Join(reader_fifo, inner)) = Head(reader_fifo)
        /\ Tail(Join(reader_fifo, inner)) = Join(Tail(reader_fifo), inner)
    BY <1>0, <1>15, <2>1, <2>2, Zenon
  <2>. QED BY <1>18, <2>3
<1>20. Join(kept, inner) = IF taken THEN Tail(DramContents) ELSE DramContents
  <2>. HIDE DEF inner, taken
  <2>. QED BY <1>18, <1>19
<1>21. DramContents' = Join(IF taken THEN Tail(DramContents) ELSE DramContents, added)
  BY <1>13, <1>17, <1>20
<1>. QED BY <1>6, <1>14, <1>18, <1>19, <1>21 DEF added, wr

(* When nothing is counted nothing is there.                                *)
LEMMA RingEmpty == Ring /\ level = 0 /\ res_fifo = 0 => DramContents = <<>>
<1>. SUFFICES ASSUME Ring, level = 0, res_fifo = 0 PROVE DramContents = <<>>
  OBVIOUS
<1>1. PICK f, r0, r1, w0, w1 : Held(f, r0, r1, w0, w1) BY DEF Ring
<1>2. Types /\ ReadsHaveRoom BY DEF Ring, Balance
<1>3. Cardinality(Reads) \in Nat
  BY <1>2, KindFinite DEF Types, Reads, Ops
<1>4. reader_fifo = <<>> /\ Len(reader_fifo) = 0
  <2>1. Len(reader_fifo) \in Nat /\ reader_fifo \in Seq(Words \cup {NoWord}) BY <1>2 DEF Types
  <2>2. Len(reader_fifo) = 0 BY <1>2, <1>3, <2>1 DEF ReadsHaveRoom
  <2>. QED BY <2>1, <2>2
<1>5. /\ r0 \in Nat /\ r1 \in Nat /\ w0 \in Nat /\ w1 \in Nat /\ r0 <= w0 /\ w0 <= w1
      /\ reading = r1 - r0 /\ Len(writer_fifo) = w1 - w0 /\ level = w1 - r1
  BY <1>1 DEF Held, Window
<1>6. reading = 0
  <2>1. reading = res_fifo - Len(reader_fifo) BY DEF reading
  <2>. QED BY <1>4, <2>1
<1>7. Len(writer_fifo) = 0 /\ w0 = r0 BY <1>5, <1>6
<1>8. writer_fifo = <<>> BY <1>2, <1>7 DEF Types
<1>9. DramContents = Join(reader_fifo, Join(Middle(mem, r0, w0), writer_fifo)) BY <1>1, <1>2, Layout DEF LaidOut, Laid
<1>10. Middle(mem, r0, w0) = <<>> BY <1>5, <1>7 DEF Middle
<1>. QED BY <1>4, <1>8, <1>9, <1>10 DEF Join

LEMMA RingInit == DramInit => Ring
<1>. SUFFICES ASSUME DramInit PROVE Ring
  OBVIOUS
<1>1. Balance BY BalanceInit
<1>2. Slot(0) = 0 BY DramFifoAssumption DEF Slot
<1>3. Window(0, 0, 0, 0) BY DramFifoAssumption DEF Window
<1>4. Numbered(port, <<>>, 0, 0, 0, 0)
  <2>1. port = <<>> /\ Len(port) = 0 BY DEF DramInit
  <2>2. port \in Seq(Commands) /\ <<>> \in Seq(Nat) /\ Len(<<>>) = 0 BY <2>1
  <2>3. Ranges(port, <<>>, 0, 0, 0, 0) /\ Increasing(port, <<>>) /\ Sequenced(port, <<>>)
    BY <2>1 DEF Ranges, Increasing, Sequenced
  <2>4. Complete(port, <<>>, "read", 0, 0) /\ Complete(port, <<>>, "write", 0, 0)
    BY DEF Complete
  <2>. QED BY <2>1, <2>2, <2>3, <2>4 DEF Numbered
<1>5. Held(<<>>, 0, 0, 0, 0)
  <2>1. /\ level = 0 /\ res_fifo = 0 /\ reader_fifo = <<>> /\ writer_fifo = <<>>
        /\ read_address = 0 /\ write_address = 0
    BY DEF DramInit
  <2>2. reading = res_fifo - Len(reader_fifo) BY DEF reading
  <2>3. Len(reader_fifo) = 0 /\ Len(writer_fifo) = 0 BY <2>1
  <2>4. 0 - 0 = 0 OBVIOUS
  <2>5. reading = 0 - 0 BY <2>1, <2>2, <2>3, Zenon
  <2>. QED BY <1>2, <1>3, <1>4, <2>1, <2>3, <2>4, <2>5, Zenon DEF Held
<1>. QED BY <1>1, <1>5 DEF Ring

-----------------------------------------------------------------------------
(* The stream FIFO between equal widths.                                    *)

\* dram_cnt counts the words in the DRAM and in the reader, and must not
\* wrap.  Without the second conjunct Ordered fails.
Counts == data_width_ratio = 1 /\ depth + reader_fifo_depth < cnt_modulus

Values == Items \cup {w[1] : w \in Stored}

\* The counters when the converters are wires.
Straight == [first : BOOLEAN, cnt : Nat, inc_mod : {0}, dec_mod : {0},
             flush_count : {0}, flush_output : {0}, flush_total : {0}]

\* Nothing is collected or given in part.
Wires ==
    /\ with_bypass \in BOOLEAN /\ sent \in Items
    /\ pre_fifo \in Seq(Items) /\ post_fifo \in Seq(Values)
    /\ parts = <<>> /\ strobe_all = FALSE /\ mux = 0
    /\ dram \in Straight

\* dram_cnt is the number of words in the DRAM and in the reader, and the
\* bypass is taken only when there are none.
Counted ==
    /\ fsm \in {"BYPASS", "DRAM"} /\ (~with_bypass => fsm = "DRAM")
    /\ with_bypass /\ fsm = "BYPASS" => level = 0 /\ res_fifo = 0
    /\ with_bypass /\ fsm = "DRAM" => dram.cnt = level + res_fifo

Inv == Ring /\ Wires /\ Counted

-----------------------------------------------------------------------------
(* The items of words.                                                      *)

\* The first item of each word.
Firsts(words) == [i \in 1..Len(words) |-> words[i][1]]

LEMMA FlatFirsts ==
    ASSUME data_width_ratio = 1, NEW words \in Seq(Stored)
    PROVE  Flat(words) = Firsts(words)
<1>1. Len(words) \in Nat OBVIOUS
<1>2. ASSUME NEW i \in 1..Len(words)
      PROVE  ((i - 1) \div 1) + 1 = i /\ ((i - 1) % 1) + 1 = 1
  <2>1. PICK k \in Nat : k = i - 1 BY <1>1
  <2>2. k \div 1 = k /\ k % 1 = 0 OBVIOUS
  <2>. QED BY <1>1, <2>1, <2>2
<1>3. Len(words) * 1 = Len(words) BY <1>1
<1>4. Flat(words) = [i \in 1..(Len(words) * 1) |-> words[((i - 1) \div 1) + 1][((i - 1) % 1) + 1]]
  BY Zenon DEF Flat
<1>5. Flat(words) = [i \in 1..Len(words) |-> words[((i - 1) \div 1) + 1][((i - 1) % 1) + 1]]
  BY <1>3, <1>4, Zenon
<1>. QED BY <1>2, <1>5, Zenon DEF Firsts

(* The items of a queue of words.                                           *)
LEMMA FirstsQueue ==
    /\ Firsts(<<>>) = <<>>
    /\ \A words \in Seq(Stored) :
          /\ Firsts(words) \in Seq(Values)
          /\ words # <<>> => Firsts(words) = Join(<<Head(words)[1]>>, Firsts(Tail(words)))
    /\ \A words \in Seq(Stored), w \in Stored :
          Firsts(Join(words, <<w>>)) = Join(Firsts(words), <<w[1]>>)
<1>1. Firsts(<<>>) = <<>> BY DEF Firsts
<1>2. ASSUME NEW words \in Seq(Stored) PROVE Firsts(words) \in Seq(Values)
  <2>1. \A i \in 1..Len(words) : words[i][1] \in Values BY DEF Values
  <2>2. Len(words) \in Nat OBVIOUS
  <2>. QED BY <2>1, <2>2 DEF Firsts
<1>3. ASSUME NEW words \in Seq(Stored), words # <<>>
      PROVE  Firsts(words) = Join(<<Head(words)[1]>>, Firsts(Tail(words)))
  <2>. DEFINE n == Len(words)
              h == Head(words)[1]
              t == Firsts(Tail(words))
  <2>1. n \in Nat /\ n > 0 /\ Tail(words) \in Seq(Stored) /\ Len(Tail(words)) = n - 1
        /\ Head(words) = words[1] /\ \A i \in 1..(n - 1) : Tail(words)[i] = words[i + 1]
    BY <1>3
  <2>2. t \in Seq(Values) BY <1>2, <2>1
  <2>3. Len(t) = n - 1 /\ \A i \in 1..(n - 1) : t[i] = words[i + 1][1]
    BY <2>1 DEF Firsts
  <2>. HIDE DEF t
  <2>4. h \in Values BY <2>1 DEF Values
  <2>. HIDE DEF h, n
  <2>5. /\ <<h>> \o t \in Seq(Values) /\ Len(<<h>> \o t) = n
        /\ (<<h>> \o t)[1] = h
    BY <2>1, <2>2, <2>3, <2>4
  <2>6. ASSUME NEW i \in 1..n PROVE (<<h>> \o t)[i] = words[i][1]
    <3>1. CASE i = 1 BY <2>1, <2>5, <3>1 DEF h
    <3>2. CASE i # 1
      <4>1. i \in 2..n /\ i - 1 \in 1..(n - 1) /\ (i - 1) + 1 = i BY <2>1, <3>2
      <4>2. (<<h>> \o t)[i] = t[i - 1] BY <2>1, <2>2, <2>3, <4>1
      <4>. QED BY <2>3, <4>1, <4>2
    <3>. QED BY <3>1, <3>2
  <2>7. <<h>> \o t = [i \in 1..n |-> (<<h>> \o t)[i]] BY <2>5
  <2>8. <<h>> \o t = Firsts(words) BY <2>6, <2>7, Zenon DEF Firsts, n
  <2>. QED BY <2>8 DEF Join, h, t
<1>4. ASSUME NEW words \in Seq(Stored), NEW w \in Stored
      PROVE  Firsts(Join(words, <<w>>)) = Join(Firsts(words), <<w[1]>>)
  <2>. DEFINE n == Len(words)
              f == Firsts(words)
              v == w[1]
  <2>1. /\ n \in Nat /\ words \o <<w>> \in Seq(Stored) /\ Len(words \o <<w>>) = n + 1
        /\ (words \o <<w>>)[n + 1] = w /\ \A i \in 1..n : (words \o <<w>>)[i] = words[i]
    OBVIOUS
  <2>2. f \in Seq(Values) /\ Len(f) = n /\ \A i \in 1..n : f[i] = words[i][1]
    BY <1>2, <2>1 DEF Firsts
  <2>3. v \in Values BY DEF Values
  <2>. HIDE DEF f, v, n
  <2>4. /\ Len(f \o <<v>>) = n + 1 /\ f \o <<v>> = [i \in 1..(n + 1) |-> (f \o <<v>>)[i]]
        /\ (f \o <<v>>)[n + 1] = v /\ \A i \in 1..n : (f \o <<v>>)[i] = f[i]
    BY <2>1, <2>2, <2>3
  <2>5. ASSUME NEW i \in 1..(n + 1) PROVE (f \o <<v>>)[i] = (words \o <<w>>)[i][1]
    <3>1. i = n + 1 \/ i \in 1..n BY <2>1
    <3>. QED BY <2>1, <2>2, <2>4, <3>1 DEF v
  <2>6. f \o <<v>> = Firsts(words \o <<w>>) BY <2>1, <2>4, <2>5, Zenon DEF Firsts
  <2>. QED BY <2>6 DEF Join, f, v
<1>. QED BY <1>1, <1>2, <1>3, <1>4

\* What Contents is when the converters are wires.
Line == Join(post_fifo, Join(Firsts(DramContents), pre_fifo))
Shown == Counts /\ Inv => Contents = Line

LEMMA ContentsShown == Shown
<1>. SUFFICES ASSUME Counts, Inv
              PROVE  Contents = Join(post_fifo, Join(Firsts(DramContents), pre_fifo))
  BY DEF Shown, Line
<1>. DEFINE packed == Flat(DramContents) \o parts
<1>1. data_width_ratio = 1 /\ parts = <<>> /\ mux = 0 BY DEF Counts, Inv, Wires
<1>2. DramContents \in Seq(Stored)
  <2>1. Types BY DEF Inv, Ring, Balance
  <2>2. PICK f, r0, r1, w0, w1 : Held(f, r0, r1, w0, w1) BY DEF Inv, Ring
  <2>3. Laid(r0, w0) BY <2>1, <2>2, Layout DEF LaidOut
  <2>4. reader_fifo \in Seq(Stored) /\ writer_fifo \in Seq(Stored) BY <2>1 DEF Types, Stored
  <2>5. \A x, y \in Seq(Stored) : Join(x, y) \in Seq(Stored) BY Joined, Zenon
  <2>. QED BY <2>3, <2>4, <2>5 DEF Laid
<1>3. Flat(DramContents) = Firsts(DramContents) /\ Firsts(DramContents) \in Seq(Values)
  BY <1>1, <1>2, FlatFirsts, FirstsQueue
<1>4. packed = Firsts(DramContents) /\ packed \in Seq(Values)
  BY <1>1, <1>3, ConcatEmptySeq
<1>5. Contents = post_fifo \o SubSeq(packed, 0 + 1, Len(packed)) \o pre_fifo
  BY <1>1, Zenon DEF Contents, identity
<1>. HIDE DEF packed
<1>6. SubSeq(packed, 0 + 1, Len(packed)) = packed
  BY <1>4
<1>7. post_fifo \in Seq(Values) /\ pre_fifo \in Seq(Values) BY DEF Inv, Wires, Values
<1>8. Contents = Join(Join(post_fifo, packed), pre_fifo) BY <1>5, <1>6, Zenon DEF Join
<1>9. Join(Join(post_fifo, packed), pre_fifo) = Join(post_fifo, Join(packed, pre_fifo))
  <2>1. \A x, y, z \in Seq(Values) : Join(Join(x, y), z) = Join(x, Join(y, z))
    BY Joined, Zenon
  <2>. QED BY <1>4, <1>7, <2>1
<1>. QED BY <1>4, <1>8, <1>9

-----------------------------------------------------------------------------
(* A clock edge.                                                            *)

(* An item goes from pre_fifo to the DRAM FIFO when the DRAM FIFO accepts   *)
(* it.                                                                      *)
LEMMA SinkSignals ==
    ASSUME Counts, Inv, NEW c \in Inputs
    PROVE  /\ c.w \in BOOLEAN /\ c.r \in BOOLEAN /\ c.p \in Steps /\ c.valid \in BOOLEAN /\ c.ready \in BOOLEAN
           /\ identity /\ ~pumping /\ ~dropping
           /\ offered \in {<<>>} \cup {<<w>> : w \in Words}
           /\ write(offered, c.w) =>
                  dram_store /\ ~bypassed /\ pre_fifo # <<>> /\ offered = << <<Head(pre_fifo)>> >>
           /\ Loads(c) <=> write(offered, c.w)
           /\ pre_source_valid /\ pre_source_ready(c) <=> write(offered, c.w)
           /\ PreTaken(c) <=> bypassed \/ write(offered, c.w)
           /\ bypassed => pre_fifo # <<>>
<1>1. data_width_ratio = 1 /\ strobe_all = FALSE /\ pre_fifo \in Seq(Items)
  BY DEF Counts, Inv, Wires
<1>2. identity /\ ~pumping /\ ~dropping BY <1>1 DEF identity, pumping, dropping
<1>3. dram_store => ~bypassed BY DEF dram_store, bypassed, dram_bypass
<1>4. pre_sink_valid <=> dram_store /\ pre_fifo # <<>> BY <1>2 DEF pre_sink_valid
<1>5. /\ pre_source_ready(c) = write(offered, c.w) /\ pre_sink_ready(c) = write(offered, c.w)
      /\ Loads(c) <=> pre_sink_valid /\ write(offered, c.w)
      /\ PreTaken(c) <=> bypassed \/ (dram_store /\ Loads(c))
  BY <1>2, Zenon DEF pre_source_ready, pre_sink_ready, Loads, PreTaken
<1>6. write(offered, c.w) => offered # <<>> BY DEF write
<1>7. c.w \in BOOLEAN /\ c.r \in BOOLEAN /\ c.p \in Steps /\ c.valid \in BOOLEAN /\ c.ready \in BOOLEAN
  BY DEF Inputs
<1>8. bypassed => pre_fifo # <<>> BY DEF bypassed
<1>9. CASE pre_sink_valid
  <2>1. pre_word = <<Head(pre_fifo)>> BY <1>2, <1>4, <1>9, Zenon DEF pre_word, pre_sink_data
  <2>2. pre_source_valid BY <2>1 DEF pre_source_valid
  <2>3. offered = << <<Head(pre_fifo)>> >> BY <2>1, <2>2, Zenon DEF offered
  <2>4. <<Head(pre_fifo)>> \in Words
    <3>1. Head(pre_fifo) \in Items BY <1>1, <1>4, <1>9
    <3>2. Words = [1..1 -> Items \cup {Pad}] BY <1>1, StreamFifoAssumption DEF ItemWords
    <3>. QED BY <3>1, <3>2
  <2>. QED BY <1>2, <1>3, <1>4, <1>5, <1>7, <1>8, <1>9, <2>2, <2>3, <2>4
<1>10. CASE ~pre_sink_valid
  <2>1. pre_word = <<>> BY <1>1, <1>2, <1>10, Zenon DEF pre_word
  <2>2. ~pre_source_valid BY <2>1 DEF pre_source_valid
  <2>3. offered = <<>> BY <2>2, Zenon DEF offered
  <2>. QED BY <1>2, <1>4, <1>5, <1>6, <1>7, <1>8, <1>10, <2>2, <2>3
<1>. QED BY <1>9, <1>10

(* An item goes from the DRAM FIFO to post_fifo when the DRAM FIFO gives    *)
(* its word.                                                                *)
LEMMA SourceSignals ==
    ASSUME Counts, Inv, reader_fifo # <<>> => res_fifo > 0
    PROVE  /\ post_sink_ready \in BOOLEAN
           /\ Gives <=> Taken(post_sink_ready)
           /\ post_sink_valid /\ post_sink_ready <=> Taken(post_sink_ready)
           /\ Taken(post_sink_ready) => post_item = Head(reader_fifo)[1] /\ ~bypassed
<1>1. data_width_ratio = 1 /\ mux = 0 BY DEF Counts, Inv, Wires
<1>2. ~pumping /\ ~dropping BY <1>1 DEF identity, pumping, dropping
<1>3. post_sink_ready <=> post_source_ready BY <1>1 DEF post_sink_ready
<1>4. post_sink_ready \in BOOLEAN BY DEF post_sink_ready, post_source_ready
<1>5. post_source_ready => ~bypassed BY <1>2 DEF post_source_ready, bypassed
<1>6. post_sink_valid <=> reader_fifo # <<>> BY <1>2 DEF post_sink_valid, source_valid
<1>7. Taken(post_sink_ready) <=> reader_fifo # <<>> /\ post_sink_ready BY DEF Taken
<1>8. post_item = Head(reader_fifo)[1]
  <2>1. mux + 1 = 1 BY <1>1
  <2>. QED BY <1>2, <2>1, Zenon DEF post_item, source_data
<1>. QED BY <1>3, <1>4, <1>5, <1>6, <1>7, <1>8 DEF Gives

(* Words are reserved in the reader before they are there.                  *)
LEMMA Reserved == Ring => (reader_fifo # <<>> => res_fifo > 0)
<1>. SUFFICES ASSUME Ring, reader_fifo # <<>> PROVE res_fifo > 0
  OBVIOUS
<1>1. Types /\ ReadsHaveRoom BY DEF Ring, Balance
<1>2. Cardinality(Reads) \in Nat BY <1>1, KindFinite DEF Types, Reads, Ops
<1>3. Len(reader_fifo) \in Nat \ {0} BY <1>1 DEF Types
<1>. QED BY <1>1, <1>2, <1>3 DEF ReadsHaveRoom

(* Moving the border between queues that follow each other moves nothing.   *)
LEMMA Shift ==
    ASSUME NEW S, NEW kept \in Seq(S), NEW g \in Seq(S), NEW f \in Seq(S), NEW l \in Seq(S),
           NEW rest \in Seq(S), NEW new \in Seq(S)
    PROVE  Join(Join(kept, g), Join(Join(f, l), Join(rest, new)))
             = Join(Join(kept, Join(Join(g, f), Join(l, rest))), new)
<1>1. /\ \A x, y \in Seq(S) : Join(x, y) \in Seq(S)
      /\ \A x, y, z \in Seq(S) : Join(Join(x, y), z) = Join(x, Join(y, z))
  BY Joined, Zenon
<1>2. Join(Join(f, l), Join(rest, new)) = Join(f, Join(l, Join(rest, new))) BY <1>1
<1>3. Join(Join(kept, g), Join(f, Join(l, Join(rest, new))))
        = Join(kept, Join(g, Join(f, Join(l, Join(rest, new)))))
  BY <1>1
<1>4. Join(Join(g, f), Join(l, rest)) = Join(g, Join(f, Join(l, rest))) BY <1>1
<1>5. Join(Join(g, Join(f, Join(l, rest))), new) = Join(g, Join(f, Join(l, Join(rest, new))))
  <2>1. Join(Join(l, rest), new) = Join(l, Join(rest, new)) BY <1>1
  <2>2. Join(Join(f, Join(l, rest)), new) = Join(f, Join(Join(l, rest), new)) BY <1>1
  <2>3. Join(Join(g, Join(f, Join(l, rest))), new) = Join(g, Join(Join(f, Join(l, rest)), new)) BY <1>1
  <2>. QED BY <2>1, <2>2, <2>3
<1>6. Join(Join(kept, Join(g, Join(f, Join(l, rest)))), new)
        = Join(kept, Join(Join(g, Join(f, Join(l, rest))), new))
  BY <1>1
<1>. QED BY <1>2, <1>3, <1>4, <1>5, <1>6

\* One cycle of a queue of items.
Passes(q, r) == \E new \in {<<>>} \cup {<<i>> : i \in Items} :
    \/ r = Join(q, new) /\ out' = NoItem
    \/ q # <<>> /\ out' = Head(q) /\ r = Join(Tail(q), new)

(* The registers outside the FSM: the three queues pass their items on.     *)
LEMMA FlowEdge ==
    ASSUME Counts, Inv, NEW c \in Inputs, Flow(c)
    PROVE  /\ Ring' /\ with_bypass' = with_bypass /\ sent' \in Items
           /\ pre_fifo' \in Seq(Items) /\ post_fifo' \in Seq(Values)
           /\ parts' = <<>> /\ strobe_all' = FALSE /\ mux' = 0
           /\ Passes(Line, Line')
<1>. DEFINE wr == write(offered, c.w)
            taken == Taken(post_sink_ready)
            puts == c.valid /\ Len(pre_fifo) < pre_fifo_depth
            gets == c.ready /\ post_fifo # <<>>
            new == IF puts THEN <<sent>> ELSE <<>>
            kept == IF gets THEN Tail(post_fifo) ELSE post_fifo
            item == <<Head(pre_fifo)>>
            g == IF bypassed THEN item ELSE IF taken THEN <<Head(reader_fifo)[1]>> ELSE <<>>
            l == IF wr THEN item ELSE <<>>
            rest == IF bypassed \/ wr THEN Tail(pre_fifo) ELSE pre_fifo
            words == IF taken THEN Tail(DramContents) ELSE DramContents
<1>1. /\ c.w \in BOOLEAN /\ c.r \in BOOLEAN /\ c.p \in Steps
      /\ identity /\ ~pumping /\ ~dropping
      /\ offered \in {<<>>} \cup {<<w>> : w \in Words}
      /\ wr => dram_store /\ ~bypassed /\ pre_fifo # <<>> /\ offered = << <<Head(pre_fifo)>> >>
      /\ PreTaken(c) <=> bypassed \/ wr
      /\ bypassed => pre_fifo # <<>>
  BY SinkSignals
<1>2. reader_fifo # <<>> => res_fifo > 0 BY Reserved DEF Inv
<1>3. /\ post_sink_ready \in BOOLEAN /\ (Gives <=> taken)
      /\ taken => post_item = Head(reader_fifo)[1] /\ ~bypassed
  BY <1>2, SourceSignals
<1>4. DramEdge(offered, post_sink_ready, c.w, c.r, c.p) BY Zenon DEF Flow
<1>5. /\ Ring' /\ DramContents \in Seq(Stored)
      /\ taken => reader_fifo # <<>> /\ DramContents # <<>> /\ Head(DramContents) = Head(reader_fifo)
      /\ DramContents' = Join(words, IF wr THEN offered ELSE <<>>)
  BY <1>1, <1>3, <1>4, RingEdge DEF Inv
<1>6. /\ pre_fifo \in Seq(Items) /\ post_fifo \in Seq(Values) /\ sent \in Items
      /\ data_width_ratio = 1 /\ mux = 0 /\ parts = <<>> /\ strobe_all = FALSE
  BY DEF Inv, Wires, Counts
<1>7. /\ pre_fifo' = (IF PreTaken(c) THEN Tail(pre_fifo) ELSE pre_fifo) \o new
      /\ sent' = (IF puts THEN (sent + 1) % NItems ELSE sent)
      /\ post_fifo' = kept \o (IF bypassed THEN item ELSE <<>>)
                           \o (IF Gives /\ ~dropping THEN <<post_item>> ELSE <<>>)
      /\ out' = (IF gets THEN Head(post_fifo) ELSE NoItem)
      /\ parts' = parts /\ strobe_all' = strobe_all /\ with_bypass' = with_bypass
      /\ mux' = IF Gives THEN Up(mux) ELSE mux
  BY <1>1, Zenon DEF Flow
<1>8. mux' = 0
  <2>1. Up(mux) = 0 BY <1>6 DEF Up
  <2>. QED BY <1>6, <1>7, <2>1
<1>9. sent' \in Items
  <2>1. NItems \in Nat \ {0} BY StreamFifoAssumption
  <2>2. (sent + 1) % NItems \in 0..(NItems - 1) BY <1>6, <2>1 DEF Items
  <2>. QED BY <1>6, <1>7, <2>2 DEF Items
<1>10. new \in Seq(Items) /\ new \in {<<>>} \cup {<<i>> : i \in Items} BY <1>6
<1>11. /\ \A x, y \in Seq(Values) : Join(x, y) \in Seq(Values)
       /\ \A x, y, z \in Seq(Values) : Join(Join(x, y), z) = Join(x, Join(y, z))
       /\ \A x \in Seq(Values) : Join(x, <<>>) = x /\ Join(<<>>, x) = x
  BY Joined, Zenon
<1>12. \A x, y \in Seq(Values) : x # <<>> =>
          /\ Head(x) \in Values /\ Tail(x) \in Seq(Values) /\ <<Head(x)>> \in Seq(Values)
          /\ x = Join(<<Head(x)>>, Tail(x))
          /\ Join(x, y) # <<>> /\ Head(Join(x, y)) = Head(x) /\ Tail(Join(x, y)) = Join(Tail(x), y)
  BY JoinedHead, Zenon
<1>13. pre_fifo \in Seq(Values) /\ new \in Seq(Values) /\ <<>> \in Seq(Values)
  <2>1. pre_fifo \in Seq(Values) BY <1>6 DEF Values
  <2>2. new \in Seq(Values)
    <3>. HIDE DEF new
    <3>. QED BY <1>10 DEF Values
  <2>. QED BY <2>1, <2>2
<1>. HIDE DEF new, puts, wr, taken, item
<1>14. rest \in Seq(Items) /\ rest \in Seq(Values) /\ pre_fifo' = Join(rest, new)
  <2>1. pre_fifo # <<>> => Tail(pre_fifo) \in Seq(Items) BY <1>6
  <2>2. rest \in Seq(Items) BY <1>1, <1>6, <2>1
  <2>3. pre_fifo' = rest \o new BY <1>1, <1>7
  <2>. HIDE DEF rest
  <2>4. rest \in Seq(Values) BY <2>2 DEF Values
  <2>. QED BY <2>2, <2>3, <2>4 DEF Join
<1>15. kept \in Seq(Values) BY <1>6, <1>12
<1>16. pre_fifo # <<>> => item \in Seq(Values) BY <1>12, <1>13 DEF item
<1>17. taken => Head(reader_fifo) \in Stored /\ <<Head(reader_fifo)[1]>> \in Seq(Values)
  <2>1. taken => Head(reader_fifo) \in Stored BY <1>5
  <2>2. ASSUME NEW w \in Stored PROVE <<w[1]>> \in Seq(Values)
    <3>1. w[1] \in Values BY DEF Values
    <3>. QED BY <3>1
  <2>. QED BY <2>1, <2>2
<1>18. g \in Seq(Values) /\ l \in Seq(Values)
  BY <1>1, <1>13, <1>16, <1>17
<1>19. post_fifo' = Join(kept, g) /\ post_fifo' \in Seq(Values)
  <2>. DEFINE b == IF bypassed THEN item ELSE <<>>
              t == IF taken THEN <<Head(reader_fifo)[1]>> ELSE <<>>
  <2>1. b \in Seq(Values) /\ t \in Seq(Values) BY <1>1, <1>13, <1>16, <1>17
  <2>2. post_fifo' = Join(Join(kept, b), t) BY <1>1, <1>3, <1>7, Zenon DEF Join
  <2>3. g = Join(b, t)
    <3>1. Join(item, <<>>) = item \/ ~bypassed BY <1>1, <1>11, <1>16
    <3>2. Join(<<>>, t) = t BY <1>11, <2>1
    <3>. HIDE DEF t
    <3>3. CASE bypassed
      <4>1. t = <<>> BY <1>3, <3>3 DEF t
      <4>. QED BY <3>1, <3>3, <4>1
    <3>4. CASE ~bypassed
      <4>1. g = t BY <3>4 DEF t
      <4>. QED BY <3>2, <3>4, <4>1
    <3>. QED BY <3>3, <3>4
  <2>. HIDE DEF b, t, g, kept
  <2>4. Join(Join(kept, b), t) = Join(kept, Join(b, t)) BY <1>11, <1>15, <2>1
  <2>5. Join(kept, g) \in Seq(Values) BY <1>11, <1>15, <1>18
  <2>. QED BY <2>2, <2>3, <2>4, <2>5
<1>20. words \in Seq(Stored) /\ Firsts(words) \in Seq(Values)
  <2>1. taken => Tail(DramContents) \in Seq(Stored) BY <1>5
  <2>2. words \in Seq(Stored) BY <1>5, <2>1
  <2>. HIDE DEF words
  <2>. QED BY <2>2, FirstsQueue
<1>21. Firsts(DramContents)' = Join(Firsts(words), l)
  <2>. HIDE DEF words
  <2>1. Firsts(DramContents)' = Firsts(DramContents') BY DEF Firsts
  <2>2. CASE wr
    <3>1. DramContents' = Join(words, << item >>) /\ l = item BY <1>1, <1>5, <2>2 DEF item
    <3>2. item \in Stored
      <4>1. PICK w \in Words : offered = <<w>> BY <1>1, <2>2
      <4>2. item = w BY <1>1, <2>2, <4>1 DEF item
      <4>. QED BY <4>2 DEF Stored
    <3>3. Firsts(Join(words, <<item>>)) = Join(Firsts(words), <<item[1]>>)
      BY <1>20, <3>2, FirstsQueue
    <3>4. <<item[1]>> = item BY DEF item
    <3>. QED BY <2>1, <3>1, <3>3, <3>4
  <2>3. CASE ~wr
    <3>1. DramContents' = Join(words, <<>>) /\ l = <<>> BY <1>5, <2>3
    <3>2. Join(words, <<>>) = words BY <1>20, Joined, Zenon
    <3>3. Join(Firsts(words), <<>>) = Firsts(words) BY <1>11, <1>20
    <3>. QED BY <2>1, <3>1, <3>2, <3>3
  <2>. QED BY <2>2, <2>3
<1>. DEFINE inside == Join(Firsts(DramContents), pre_fifo)
<1>22. Firsts(DramContents) \in Seq(Values) /\ inside \in Seq(Values)
  BY <1>5, <1>11, <1>13, FirstsQueue
<1>23. Line' = Join(Join(kept, Join(Join(g, Firsts(words)), Join(l, rest))), new)
  <2>. HIDE DEF kept, g, l, rest, words
  <2>1. Line' = Join(Join(kept, g), Join(Join(Firsts(words), l), Join(rest, new)))
    BY <1>14, <1>19, <1>21 DEF Line, Join
  <2>. QED BY <2>1, <1>13, <1>14, <1>15, <1>18, <1>20, Shift
<1>24. Join(Join(g, Firsts(words)), Join(l, rest)) = inside
  <2>1. CASE bypassed
    <3>1. DramContents = <<>> /\ Firsts(DramContents) = <<>>
      <4>1. with_bypass /\ fsm = "BYPASS"
        BY <2>1 DEF bypassed, dram_bypass, Inv, Counted, Wires
      <4>2. level = 0 /\ res_fifo = 0 BY <4>1 DEF Inv, Counted
      <4>3. DramContents = <<>> BY <4>2, RingEmpty DEF Inv
      <4>. QED BY <4>3, FirstsQueue
    <3>2. ~wr /\ ~taken BY <1>1, <1>3, <2>1
    <3>3. g = item /\ l = <<>> /\ rest = Tail(pre_fifo) /\ Firsts(words) = <<>>
      BY <2>1, <3>1, <3>2
    <3>4. pre_fifo = Join(item, Tail(pre_fifo)) /\ Tail(pre_fifo) \in Seq(Values) /\ item \in Seq(Values)
      BY <1>1, <1>12, <1>13, <2>1 DEF item
    <3>5. Join(item, <<>>) = item /\ Join(<<>>, Tail(pre_fifo)) = Tail(pre_fifo)
          /\ Join(<<>>, pre_fifo) = pre_fifo
      BY <1>11, <1>13, <3>4
    <3>. QED BY <3>1, <3>3, <3>4, <3>5
  <2>2. CASE ~bypassed
    <3>1. Join(g, Firsts(words)) = Firsts(DramContents)
      <4>1. CASE taken
        <5>1. Firsts(DramContents) = Join(<<Head(DramContents)[1]>>, Firsts(Tail(DramContents)))
          BY <1>5, <4>1, FirstsQueue
        <5>2. g = <<Head(DramContents)[1]>> /\ words = Tail(DramContents) BY <1>5, <2>2, <4>1
        <5>. QED BY <5>1, <5>2
      <4>2. CASE ~taken
        <5>1. g = <<>> /\ words = DramContents BY <2>2, <4>2
        <5>. QED BY <1>11, <1>22, <5>1
      <4>. QED BY <4>1, <4>2
    <3>2. Join(l, rest) = pre_fifo
      <4>1. CASE wr
        <5>1. l = item /\ rest = Tail(pre_fifo) BY <4>1
        <5>2. pre_fifo = Join(item, Tail(pre_fifo)) BY <1>1, <1>12, <1>13, <4>1 DEF item
        <5>. QED BY <5>1, <5>2
      <4>2. CASE ~wr
        <5>1. l = <<>> /\ rest = pre_fifo BY <2>2, <4>2
        <5>. QED BY <1>11, <1>13, <5>1
      <4>. QED BY <4>1, <4>2
    <3>. QED BY <3>1, <3>2
  <2>. QED BY <2>1, <2>2
<1>25. Passes(Line, Line')
  <2>0. Line = Join(post_fifo, inside) BY DEF Line
  <2>1. Line' = Join(Join(kept, inside), new) BY <1>23, <1>24
  <2>. HIDE DEF inside
  <2>2. CASE gets
    <3>1. Line # <<>> /\ Head(Line) = Head(post_fifo) /\ Tail(Line) = Join(Tail(post_fifo), inside)
      BY <1>6, <1>12, <1>22, <2>0, <2>2
    <3>2. out' = Head(Line) /\ Line' = Join(Tail(Line), new) BY <1>7, <2>1, <2>2, <3>1
    <3>. QED BY <1>10, <3>1, <3>2 DEF Passes
  <2>3. CASE ~gets
    <3>1. out' = NoItem /\ Line' = Join(Line, new) BY <1>7, <2>0, <2>1, <2>3
    <3>. QED BY <1>10, <3>1 DEF Passes
  <2>. QED BY <2>2, <2>3
<1>26. parts' = <<>> /\ strobe_all' = FALSE /\ with_bypass' = with_bypass BY <1>6, <1>7
<1>27. pre_fifo' \in Seq(Items)
  <2>. HIDE DEF rest
  <2>1. rest \o new \in Seq(Items) BY <1>10, <1>14
  <2>. QED BY <1>14, <2>1 DEF Join
<1>. QED BY <1>5, <1>8, <1>9, <1>19, <1>25, <1>26, <1>27, Zenon

(* dram_cnt counts.                                                         *)
LEMMA CountModulus ==
    ASSUME NEW m \in Nat \ {0}, NEW n \in Nat, NEW i \in 0..1, NEW d \in 0..1, n + i - d \in 0..(m - 1)
    PROVE  (n + i + (IF d = 1 THEN m - 1 ELSE 0)) % m = n + i - d
<1>1. PICK r \in Nat : r = n + i - d /\ r < m OBVIOUS
<1>2. CASE d = 0
  <2>1. n + i + 0 = m * 0 + r BY <1>1, <1>2
  <2>2. (m * 0 + r) % m = r BY <1>1, Remainder
  <2>. QED BY <1>1, <1>2, <2>1, <2>2
<1>3. CASE d = 1
  <2>1. n + i + (m - 1) = m * 1 + r BY <1>1, <1>3
  <2>2. (m * 1 + r) % m = r BY <1>1, Remainder
  <2>. QED BY <1>1, <1>3, <2>1, <2>2
<1>. QED BY <1>2, <1>3

(* All the words there may be can be counted.                               *)
LEMMA WordsCounted ==
    ASSUME NEW d \in Nat, NEW r \in Nat, NEW m \in Nat, d + r < m, NEW x \in 0..d, NEW y \in 0..r
    PROVE  x + y \in 0..(m - 1)
OBVIOUS

(* The FSM knows how many words are in the DRAM and in the reader, and      *)
(* changes to bypass and back when there are none.                          *)
LEMMA CountedEdge ==
    ASSUME Counts, Inv, NEW c \in Inputs, Flow(c), Ring',
           Bypass \/ Dram(c) \/ Pump \/ Drain
    PROVE  Counted' /\ dram' \in Straight
<1>. DEFINE wr == write(offered, c.w)
            rd == read(c.r)
            taken == Taken(post_sink_ready)
<1>1. /\ c.w \in BOOLEAN /\ c.r \in BOOLEAN /\ c.p \in Steps /\ identity
      /\ offered \in {<<>>} \cup {<<w>> : w \in Words}
      /\ wr => dram_store
      /\ pre_source_valid /\ pre_source_ready(c) <=> wr
  BY SinkSignals
<1>2. reader_fifo # <<>> => res_fifo > 0 BY Reserved DEF Inv
<1>3. post_sink_ready \in BOOLEAN /\ (post_sink_valid /\ post_sink_ready <=> taken)
  BY <1>2, SourceSignals
<1>4. DramEdge(offered, post_sink_ready, c.w, c.r, c.p) BY Zenon DEF Flow
<1>5. /\ level' = (IF wr THEN level + 1 ELSE level) - (IF rd THEN 1 ELSE 0)
      /\ res_fifo' = res_fifo + (IF rd THEN 1 ELSE 0) - (IF taken THEN 1 ELSE 0)
      /\ taken => res_fifo > 0
  <2>1. Balance BY DEF Inv, Ring
  <2>2. /\ res_fifo' = res_fifo + (IF rd THEN 1 ELSE 0) - (IF taken THEN 1 ELSE 0)
        /\ taken => res_fifo > 0
    BY <1>1, <1>3, <1>4, <2>1, QueuesEdge
  <2>3. level' = (IF wr THEN level + 1 ELSE level) - (IF rd THEN 1 ELSE 0) BY <1>4, Zenon DEF DramEdge
  <2>. QED BY <2>2, <2>3
<1>6. /\ level \in 0..depth /\ res_fifo \in 0..reader_fifo_depth
      /\ level' \in 0..depth /\ res_fifo' \in 0..reader_fifo_depth
      /\ depth \in Nat /\ reader_fifo_depth \in Nat /\ cnt_modulus \in Nat \ {0}
      /\ depth + reader_fifo_depth < cnt_modulus
  <2>1. Types /\ Types' BY DEF Inv, Ring, Balance
  <2>. QED BY <2>1, DramFifoAssumption, StreamFifoAssumption DEF Types, Counts
<1>7. rd => level > 0 BY DEF read, readable
<1>8. /\ fsm \in {"BYPASS", "DRAM"} /\ (~with_bypass => fsm = "DRAM")
      /\ with_bypass /\ fsm = "BYPASS" => level = 0 /\ res_fifo = 0
      /\ with_bypass /\ fsm = "DRAM" => dram.cnt = level + res_fifo
      /\ with_bypass \in BOOLEAN /\ dram \in Straight /\ with_bypass' = with_bypass
  <2>1. with_bypass' = with_bypass BY Zenon DEF Flow
  <2>. QED BY <2>1 DEF Inv, Counted, Wires
<1>9. dram_store <=> fsm = "DRAM" /\ (with_bypass => ~dram_empty) BY DEF dram_store
<1>. HIDE DEF wr, rd, taken
<1>10. level = 0 /\ res_fifo = 0 /\ ~dram_store => level' = 0 /\ res_fifo' = 0
  BY <1>1, <1>5, <1>7
<1>11. ResetCounters \in Straight /\ [ResetCounters EXCEPT !.first = TRUE] \in Straight
       /\ [ResetCounters EXCEPT !.first = TRUE].cnt = 0
  BY DEF ResetCounters, Straight
<1>12. CASE Bypass
  <2>1. fsm = "BYPASS" /\ with_bypass /\ level' = 0 /\ res_fifo' = 0
    BY <1>8, <1>9, <1>10, <1>12 DEF Bypass
  <2>2. CASE dram_store_threshold
    <3>1. fsm' = "DRAM" /\ dram' = [ResetCounters EXCEPT !.first = TRUE] BY <1>12, <2>2 DEF Bypass
    <3>2. dram'.cnt = level' + res_fifo' BY <1>11, <2>1, <3>1
    <3>. QED BY <1>11, <3>1, <3>2 DEF Counted
  <2>3. CASE ~dram_store_threshold
    <3>1. fsm' = "BYPASS" /\ dram' = dram BY <1>12, <2>1, <2>3 DEF Bypass
    <3>. QED BY <1>8, <2>1, <3>1 DEF Counted
  <2>. QED BY <2>2, <2>3
<1>13. CASE Dram(c) /\ ~with_bypass
  <2>1. fsm = "DRAM" /\ fsm' = fsm /\ dram' = dram BY <1>13 DEF Dram
  <2>. QED BY <1>8, <1>13, <2>1 DEF Counted
<1>14. CASE Dram(c) /\ with_bypass
  <2>. DEFINE dram_inc == pre_source_valid /\ pre_source_ready(c)
              dram_dec == post_sink_valid /\ post_sink_ready
              total == dram.cnt + (IF dram_inc THEN 1 ELSE 0) + (IF dram_dec THEN cnt_modulus - 1 ELSE 0)
              counted == [dram EXCEPT
                    !.first = @ /\ ~dram_inc,
                    !.cnt = (@ + (IF dram_inc THEN 1 ELSE 0)
                               + (IF dram_dec THEN cnt_modulus - 1 ELSE 0)) % cnt_modulus,
                    !.inc_mod = IF Loads(c) /\ ~identity THEN Up(@) ELSE @,
                    !.dec_mod = IF Gives /\ ~identity THEN Up(@) ELSE @]
  <2>1. /\ fsm = "DRAM"
        /\ IF dram_empty
           THEN /\ fsm' = IF dram.dec_mod # 0 THEN "DRAIN_POSTCONVERTER"
                          ELSE IF dram.inc_mod = 0 THEN "BYPASS" ELSE "PUMP_PRECONVERTER"
                /\ dram' = [counted EXCEPT !.flush_count = dram.inc_mod,
                                           !.flush_output = 0, !.flush_total = 0]
           ELSE fsm' = fsm /\ dram' = counted
    BY <1>14, Zenon DEF Dram
  <2>2. dram.cnt = level + res_fifo /\ dram.cnt \in Nat /\ dram.inc_mod = 0 /\ dram.dec_mod = 0
    BY <1>8, <1>14, <2>1 DEF Straight
  <2>3. counted \in Straight /\ counted.cnt = total % cnt_modulus
    <3>1. total \in Nat BY <1>6, <2>2
    <3>2. total % cnt_modulus \in Nat BY <1>6, <3>1
    <3>3. counted = [dram EXCEPT !.first = dram.first /\ ~dram_inc, !.cnt = total % cnt_modulus,
                                 !.inc_mod = dram.inc_mod, !.dec_mod = dram.dec_mod]
      BY <1>1
    <3>4. PICK b \in BOOLEAN : b = (dram.first /\ ~dram_inc) OBVIOUS
    <3>. HIDE DEF total, counted
    <3>. QED BY <1>8, <2>2, <3>2, <3>3, <3>4 DEF Straight
  <2>4. CASE dram_empty
    <3>1. level = 0 /\ res_fifo = 0 /\ ~dram_store BY <1>6, <1>9, <1>14, <2>2, <2>4 DEF dram_empty
    <3>2. level' = 0 /\ res_fifo' = 0 BY <1>10, <3>1
    <3>3. fsm' = "BYPASS" BY <2>1, <2>2, <2>4
    <3>4. dram' = [counted EXCEPT !.flush_count = 0, !.flush_output = 0, !.flush_total = 0]
      BY <2>1, <2>2, <2>4
    <3>5. dram' \in Straight
      <4>. HIDE DEF counted
      <4>. QED BY <2>3, <3>4 DEF Straight
    <3>. QED BY <1>8, <1>14, <3>2, <3>3, <3>5 DEF Counted
  <2>5. CASE ~dram_empty
    <3>1. fsm' = "DRAM" /\ dram' = counted BY <2>1, <2>5
    <3>. HIDE DEF counted, total, dram_inc, dram_dec
    <3>2. PICK i \in 0..1, d \in 0..1 : /\ i = (IF wr THEN 1 ELSE 0) /\ d = (IF taken THEN 1 ELSE 0)
      OBVIOUS
    <3>3. level' + res_fifo' = level + res_fifo + i - d BY <1>5, <1>6, <3>2
    <3>4. level' + res_fifo' \in 0..(cnt_modulus - 1)
      <4>1. /\ level' \in 0..depth /\ res_fifo' \in 0..reader_fifo_depth
            /\ depth \in Nat /\ reader_fifo_depth \in Nat /\ cnt_modulus \in Nat
            /\ depth + reader_fifo_depth < cnt_modulus
        BY <1>6
      <4>. QED BY <4>1, WordsCounted, Zenon
    <3>5. total = level + res_fifo + i + (IF d = 1 THEN cnt_modulus - 1 ELSE 0)
      BY <1>1, <1>3, <2>2, <3>2 DEF total, dram_inc, dram_dec
    <3>6. PICK n \in Nat : n = level + res_fifo BY <1>6
    <3>7. (n + i + (IF d = 1 THEN cnt_modulus - 1 ELSE 0)) % cnt_modulus = n + i - d
      <4>1. n + i - d \in 0..(cnt_modulus - 1) BY <3>3, <3>4, <3>6
      <4>2. cnt_modulus \in Nat \ {0} /\ n \in Nat /\ i \in 0..1 /\ d \in 0..1 BY <1>6, <3>2, <3>6
      <4>. QED BY <4>1, <4>2, CountModulus, Zenon
    <3>8. counted.cnt = level' + res_fifo' BY <2>3, <3>3, <3>5, <3>6, <3>7
    <3>. QED BY <1>8, <1>14, <2>3, <3>1, <3>8 DEF Counted
  <2>. QED BY <2>4, <2>5
<1>15. ~Pump /\ ~Drain BY <1>8 DEF Pump, Drain
<1>. QED BY <1>8, <1>12, <1>13, <1>14, <1>15

-----------------------------------------------------------------------------
(* Theorems.                                                                *)

LEMMA InvInit == Counts /\ Init => Inv /\ Line = <<>>
<1>. SUFFICES ASSUME Counts, Init PROVE Inv /\ Line = <<>>
  OBVIOUS
<1>1. Ring BY RingInit DEF Init
<1>2. level = 0 /\ res_fifo = 0 BY DEF Init, DramInit
<1>3. Wires
  <2>1. with_bypass \in BOOLEAN /\ sent \in Items BY StreamFifoAssumption DEF Init, Items
  <2>2. pre_fifo = <<>> /\ post_fifo = <<>> /\ parts = <<>> /\ strobe_all = FALSE /\ mux = 0 BY DEF Init
  <2>3. dram \in Straight BY DEF Init, ResetCounters, Straight
  <2>. QED BY <2>1, <2>2, <2>3 DEF Wires
<1>4. Counted
  <2>1. fsm = (IF with_bypass THEN "BYPASS" ELSE "DRAM") BY DEF Init
  <2>. QED BY <1>2, <1>3, <2>1 DEF Counted, Wires
<1>5. DramContents = <<>> BY <1>1, <1>2, RingEmpty
<1>6. Firsts(DramContents) = <<>> BY <1>5, FirstsQueue
<1>7. Line = <<>> BY <1>6 DEF Line, Join, Init
<1>. QED BY <1>1, <1>3, <1>4, <1>7 DEF Inv

LEMMA InvNext == Counts /\ Inv /\ Next => Inv' /\ Passes(Line, Line')
<1>. SUFFICES ASSUME Counts, Inv, Next PROVE Inv' /\ Passes(Line, Line')
  OBVIOUS
<1>1. PICK c \in Inputs : Flow(c) /\ (Bypass \/ Dram(c) \/ Pump \/ Drain)
  BY Zenon DEF Next
<1>2. /\ Ring' /\ with_bypass' = with_bypass /\ sent' \in Items
      /\ pre_fifo' \in Seq(Items) /\ post_fifo' \in Seq(Values)
      /\ parts' = <<>> /\ strobe_all' = FALSE /\ mux' = 0
      /\ Passes(Line, Line')
  BY <1>1, FlowEdge
<1>3. Counted' /\ dram' \in Straight BY <1>1, <1>2, CountedEdge
<1>4. with_bypass' \in BOOLEAN BY <1>2 DEF Inv, Wires
<1>. QED BY <1>2, <1>3, <1>4 DEF Inv, Wires

LEMMA InvStutter == Inv /\ UNCHANGED vars => Inv' /\ Line' = Line
<1>. SUFFICES ASSUME Inv, UNCHANGED vars PROVE Inv' /\ Line' = Line
  OBVIOUS
<1>1. UNCHANGED dramVars BY DEF vars, dramVars
<1>2. Balance' BY <1>1, BalanceNext DEF Inv, Ring
<1>3. PICK f, r0, r1, w0, w1 : Held(f, r0, r1, w0, w1) BY DEF Inv, Ring
<1>4. Held(f, r0, r1, w0, w1)' BY <1>1, <1>3 DEF Held, reading, dramVars
<1>5. Ring' BY <1>2, <1>4 DEF Ring
<1>6. Wires' BY DEF Inv, Wires, vars
<1>7. Counted' BY DEF Inv, Counted, vars
<1>8. DramContents' = DramContents BY <1>1 DEF DramContents, stored, reading, dramVars
<1>9. Line' = Line BY <1>8 DEF Line, Join, Firsts, vars
<1>. QED BY <1>5, <1>6, <1>7, <1>9 DEF Inv

(* The stream FIFO implements a queue: the items leave it in the order in   *)
(* which they were accepted, each of them once and nothing else, whatever   *)
(* the port's delays, whenever the FIFO goes from bypass to DRAM and back.  *)
THEOREM StaysInOrder ==
    ASSUME data_width_ratio = 1, depth + reader_fifo_depth < cnt_modulus
    PROVE  Spec => Ordered
<1>0. Counts BY DEF Counts
<1>1. Init => Inv /\ Queue!Init
  <2>. SUFFICES ASSUME Init PROVE Inv /\ Queue!Init
    OBVIOUS
  <2>1. Inv /\ Line = <<>> BY <1>0, InvInit
  <2>2. Contents = Line BY <1>0, <2>1, ContentsShown DEF Shown
  <2>. QED BY <2>1, <2>2 DEF Queue!Init, Init
<1>2. Inv /\ [Next]_vars => Inv' /\ [Queue!Next]_<<Contents, out>>
  <2>. SUFFICES ASSUME Inv, [Next]_vars PROVE Inv' /\ [Queue!Next]_<<Contents, out>>
    OBVIOUS
  <2>1. Contents = Line BY <1>0, ContentsShown DEF Shown
  <2>2. Shown' BY ContentsShown, PTL
  <2>3. Counts' BY <1>0 DEF Counts
  <2>4. CASE Next
    <3>1. Inv' /\ Passes(Line, Line') BY <1>0, <2>4, InvNext
    <3>2. Contents' = Line' BY <2>2, <2>3, <3>1 DEF Shown
    <3>3. PICK new \in {<<>>} \cup {<<i>> : i \in Items} :
             \/ Contents' = Contents \o new /\ out' = NoItem
             \/ Contents # <<>> /\ out' = Head(Contents) /\ Contents' = Tail(Contents) \o new
      BY <2>1, <3>1, <3>2 DEF Passes, Join
    <3>4. Queue!Wait(new) \/ Queue!Perform(new) BY <3>3 DEF Queue!Wait, Queue!Perform
    <3>. QED BY <3>1, <3>3, <3>4 DEF Queue!Next, Queue!Arrivals
  <2>5. CASE UNCHANGED vars
    <3>1. Inv' /\ Line' = Line BY <2>5, InvStutter
    <3>2. Contents' = Line' BY <2>2, <2>3, <3>1 DEF Shown
    <3>3. out' = out BY <2>5 DEF vars
    <3>. QED BY <2>1, <3>1, <3>2, <3>3
  <2>. QED BY <2>4, <2>5
<1>. QED BY <1>1, <1>2, PTL DEF Spec, Ordered, Queue!Spec

(* Between equal widths the bypass overtakes nothing: the FIFO goes from    *)
(* DRAM to bypass only when no word is left in the DRAM FIFO.  With a       *)
(* conversion it does not hold.                                             *)
THEOREM SwitchesEmpty ==
    ASSUME data_width_ratio = 1, depth + reader_fifo_depth < cnt_modulus
    PROVE  Spec => LeavesDramEmpty
<1>0. Counts BY DEF Counts
<1>1. Init => Inv BY <1>0, InvInit
<1>2. Inv /\ [Next]_vars => Inv' /\ [fsm = "DRAM" /\ fsm' = "BYPASS" => PathEmpty']_vars
  <2>. SUFFICES ASSUME Inv, [Next]_vars
                PROVE  Inv' /\ [fsm = "DRAM" /\ fsm' = "BYPASS" => PathEmpty']_vars
    OBVIOUS
  <2>1. Inv' BY <1>0, InvNext, InvStutter
  <2>2. fsm' = "BYPASS" => level' = 0 /\ res_fifo' = 0 /\ Ring' /\ parts' = <<>> /\ mux' = 0
    BY <2>1 DEF Inv, Counted, Wires
  <2>3. (Ring /\ level = 0 /\ res_fifo = 0 => DramContents = <<>>)' BY RingEmpty, PTL
  <2>4. fsm' = "BYPASS" => PathEmpty' BY <2>2, <2>3 DEF PathEmpty
  <2>. QED BY <2>1, <2>4
<1>. QED BY <1>1, <1>2, PTL DEF Spec, LeavesDramEmpty
=============================================================================
