--------------------------- MODULE FrontendProofs ---------------------------
(***************************************************************************)
(* What the bridges of a native port owe it: the data of every write that  *)
(* is under way, and room for every word that was asked for.  The port     *)
(* waits for neither.  It counts what is under way (Writes, Reads); each   *)
(* bridge is shown to keep its books about these counts (DmaBooks, ...).   *)
(***************************************************************************)
EXTENDS Frontends, FiniteSetTheorems, SequenceTheorems, TLAPS

-----------------------------------------------------------------------------
(* Queues of commands, of any type, and how many of them are writes.        *)
Queue(q) == \E S : q \in Seq(S)
Is(c, op) == IF op = "write" THEN c.we ELSE ~c.we
Kind(q, op) == {k \in 1..Len(q) : Is(q[k], op)}
Count(q, op) == Cardinality(Kind(q, op))

(* A queue after its first entry was taken, and after others arrived.       *)
LEMMA QueueMoves ==
    /\ Queue(<<>>) /\ \A x : Queue(<<x>>) /\ Len(<<x>>) = 1 /\ <<x>> # <<>> /\ Head(<<x>>) = x
    /\ \A q : Queue(q) => /\ Len(q) \in Nat /\ (q = <<>> <=> Len(q) = 0)
                          /\ q # <<>> => Queue(Tail(q)) /\ Len(Tail(q)) = Len(q) - 1
    /\ \A q, r : Queue(q) /\ Queue(r) => Queue(q \o r) /\ Len(q \o r) = Len(q) + Len(r)
<1>1. Queue(<<>>)
  <2>1. <<>> \in Seq({}) OBVIOUS
  <2>. QED BY <2>1 DEF Queue
<1>2. ASSUME NEW x PROVE Queue(<<x>>) /\ Len(<<x>>) = 1 /\ <<x>> # <<>> /\ Head(<<x>>) = x
  <2>1. <<x>> \in Seq({x}) OBVIOUS
  <2>2. Len(<<x>>) = 1 /\ <<x>> # <<>> /\ Head(<<x>>) = x BY <2>1
  <2>3. Queue(<<x>>) BY <2>1 DEF Queue
  <2>. QED BY <2>2, <2>3
<1>3. ASSUME NEW q, Queue(q)
      PROVE  /\ Len(q) \in Nat /\ (q = <<>> <=> Len(q) = 0)
             /\ q # <<>> => Queue(Tail(q)) /\ Len(Tail(q)) = Len(q) - 1
  <2>1. PICK S : q \in Seq(S) BY <1>3 DEF Queue
  <2>2. q # <<>> => Tail(q) \in Seq(S) /\ Len(Tail(q)) = Len(q) - 1 BY <2>1
  <2>3. Len(q) \in Nat /\ (q = <<>> <=> Len(q) = 0) BY <2>1
  <2>. QED BY <2>2, <2>3 DEF Queue
<1>4. ASSUME NEW q, NEW r, Queue(q), Queue(r)
      PROVE  Queue(q \o r) /\ Len(q \o r) = Len(q) + Len(r)
  <2>1. PICK S : q \in Seq(S) BY <1>4 DEF Queue
  <2>2. PICK T : r \in Seq(T) BY <1>4 DEF Queue
  <2>3. q \in Seq(S \cup T) /\ r \in Seq(S \cup T) BY <2>1, <2>2
  <2>4. q \o r \in Seq(S \cup T) /\ Len(q \o r) = Len(q) + Len(r) BY <2>3
  <2>. QED BY <2>4 DEF Queue
<1>. QED BY <1>1, <1>2, <1>3, <1>4, Zenon

\* At most one entry.
Single(q) == q = <<>> \/ \E x : q = <<x>>

(* It is a queue.                                                          *)
LEMMA SingleMoves ==
    \A q : Single(q) => Queue(q) /\ Len(q) = IF q # <<>> THEN 1 ELSE 0
<1>. SUFFICES ASSUME NEW q, Single(q) PROVE Queue(q) /\ Len(q) = IF q # <<>> THEN 1 ELSE 0
  OBVIOUS
<1>1. CASE q = <<>>
  <2>1. Len(<<>>) = 0 /\ Queue(<<>>) BY QueueMoves
  <2>. QED BY <1>1, <2>1
<1>2. ASSUME NEW x, q = <<x>> PROVE Queue(q) /\ Len(q) = IF q # <<>> THEN 1 ELSE 0
  <2>1. Len(<<x>>) = 1 /\ Queue(<<x>>) /\ <<x>> # <<>> BY QueueMoves
  <2>. QED BY <1>2, <2>1
<1>. QED BY <1>1, <1>2 DEF Single

(* Counting: none, one more, one less, never more than there are.           *)
LEMMA CountMoves ==
    ASSUME NEW op
    PROVE  /\ Count(<<>>, op) = 0
           /\ \A c : Count(<<c>>, op) = IF Is(c, op) THEN 1 ELSE 0
           /\ \A q : Queue(q) => Count(q, op) \in Nat /\ Count(q, op) <= Len(q)
           /\ \A q, c : Queue(q) => Count(q \o <<c>>, op) = Count(q, op) + IF Is(c, op) THEN 1 ELSE 0
           /\ \A q : Queue(q) /\ q # <<>> =>
                 Count(Tail(q), op) = Count(q, op) - IF Is(Head(q), op) THEN 1 ELSE 0
<1>0. ASSUME NEW S, NEW q \in Seq(S)
      PROVE  /\ IsFiniteSet(Kind(q, op)) /\ Count(q, op) \in Nat /\ Count(q, op) <= Len(q)
  <2>1. IsFiniteSet(1..Len(q)) /\ Cardinality(1..Len(q)) = Len(q)
    <3>1. Len(q) \in Nat OBVIOUS
    <3>. QED BY <3>1, FS_Interval
  <2>2. Kind(q, op) \in SUBSET (1..Len(q)) BY DEF Kind
  <2>. QED BY <2>1, <2>2, FS_Subset, FS_CardinalityType DEF Count
<1>1. Count(<<>>, op) = 0
  <2>1. Kind(<<>>, op) = {} BY DEF Kind
  <2>. QED BY <2>1, FS_EmptySet DEF Count
<1>2. ASSUME NEW c PROVE Count(<<c>>, op) = IF Is(c, op) THEN 1 ELSE 0
  <2>1. Len(<<c>>) = 1 /\ <<c>>[1] = c OBVIOUS
  <2>2. CASE Is(c, op)
    <3>1. Kind(<<c>>, op) = {1} BY <2>1, <2>2 DEF Kind
    <3>. QED BY <2>2, <3>1, FS_Singleton DEF Count
  <2>3. CASE ~Is(c, op)
    <3>1. Kind(<<c>>, op) = {} BY <2>1, <2>3 DEF Kind
    <3>. QED BY <2>3, <3>1, FS_EmptySet DEF Count
  <2>. QED BY <2>2, <2>3
<1>3. ASSUME NEW q, Queue(q) PROVE Count(q, op) \in Nat /\ Count(q, op) <= Len(q)
  BY <1>0, <1>3 DEF Queue
<1>4. ASSUME NEW q, NEW c, Queue(q)
      PROVE  Count(q \o <<c>>, op) = Count(q, op) + IF Is(c, op) THEN 1 ELSE 0
  <2>1. PICK S : q \in Seq(S) BY <1>4 DEF Queue
  <2>2. q \in Seq(S \cup {c}) /\ <<c>> \in Seq(S \cup {c}) /\ Len(q) \in Nat BY <2>1
  <2>3. /\ Len(q \o <<c>>) = Len(q) + 1 /\ (q \o <<c>>)[Len(q) + 1] = c
        /\ \A k \in 1..Len(q) : (q \o <<c>>)[k] = q[k]
    BY <2>2
  <2>4. IsFiniteSet(Kind(q, op)) BY <1>0, <2>1
  <2>5. CASE Is(c, op)
    <3>1. Kind(q \o <<c>>, op) = Kind(q, op) \cup {Len(q) + 1} BY <2>2, <2>3, <2>5 DEF Kind
    <3>2. Len(q) + 1 \notin Kind(q, op) BY <2>2 DEF Kind
    <3>. QED BY <2>4, <2>5, <3>1, <3>2, FS_AddElement DEF Count
  <2>6. CASE ~Is(c, op)
    <3>1. Kind(q \o <<c>>, op) = Kind(q, op) BY <2>2, <2>3, <2>6 DEF Kind
    <3>2. Count(q, op) \in Nat BY <1>0, <2>1
    <3>. QED BY <2>6, <3>1, <3>2 DEF Count
  <2>. QED BY <2>5, <2>6
<1>5. ASSUME NEW q, Queue(q), q # <<>>
      PROVE  Count(Tail(q), op) = Count(q, op) - IF Is(Head(q), op) THEN 1 ELSE 0
  <2>1. PICK S : q \in Seq(S) BY <1>5 DEF Queue
  <2>2. /\ Len(q) \in Nat \ {0} /\ Tail(q) \in Seq(S) /\ Len(Tail(q)) = Len(q) - 1 /\ Head(q) = q[1]
        /\ \A k \in 1..(Len(q) - 1) : Tail(q)[k] = q[k + 1]
    BY <1>5, <2>1
  <2>. DEFINE Rest == Kind(q, op) \ {1}
              f == [k \in Kind(Tail(q), op) |-> k + 1]
  <2>3. f \in Bijection(Kind(Tail(q), op), Rest)
    <3>1. \A k \in Kind(Tail(q), op) : k \in Nat /\ k + 1 \in Rest BY <2>2 DEF Kind
    <3>2. \A y \in Rest : y \in Int /\ y - 1 \in Kind(Tail(q), op) BY <2>2 DEF Kind
    <3>3. f \in Injection(Kind(Tail(q), op), Rest)
      <4>1. f \in [Kind(Tail(q), op) -> Rest] BY <3>1
      <4>2. IsInjective(f) BY <3>1 DEF IsInjective
      <4>. QED BY <4>1, <4>2 DEF Injection
    <3>4. f \in Surjection(Kind(Tail(q), op), Rest)
      <4>1. ASSUME NEW y \in Rest PROVE f[y - 1] = y BY <3>2
      <4>. QED BY <3>1, <3>2, <4>1 DEF Surjection
    <3>. QED BY <3>3, <3>4 DEF Bijection
  <2>4. IsFiniteSet(Kind(q, op)) /\ IsFiniteSet(Kind(Tail(q), op)) BY <1>0, <2>1, <2>2
  <2>5. Cardinality(Rest) = Cardinality(Kind(Tail(q), op))
    <3>1. IsFiniteSet(Rest) BY <2>4, FS_Subset
    <3>2. ExistsBijection(Kind(Tail(q), op), Rest) BY <2>3 DEF ExistsBijection
    <3>. QED BY <2>4, <3>1, <3>2, FS_Bijection
  <2>6. CASE Is(Head(q), op)
    <3>1. 1 \in Kind(q, op) BY <2>2, <2>6 DEF Kind
    <3>. QED BY <2>4, <2>5, <2>6, <3>1, FS_RemoveElement DEF Count
  <2>7. CASE ~Is(Head(q), op)
    <3>1. Rest = Kind(q, op) BY <2>2, <2>7 DEF Kind
    <3>2. Count(q, op) \in Nat BY <1>0, <2>1
    <3>. QED BY <2>5, <2>7, <3>1, <3>2 DEF Count
  <2>. QED BY <2>6, <2>7
<1>. QED BY <1>1, <1>2, <1>3, <1>4, <1>5, Zenon
(* The same for writes and for reads.                                       *)
LEMMA Counting ==
    /\ Count(<<>>, "write") = 0 /\ Count(<<>>, "read") = 0
    /\ \A c : /\ Count(<<c>>, "write") = IF c.we THEN 1 ELSE 0
              /\ Count(<<c>>, "read") = IF c.we THEN 0 ELSE 1
    /\ \A q : Queue(q) => /\ Count(q, "write") \in Nat /\ Count(q, "write") <= Len(q)
                          /\ Count(q, "read") \in Nat /\ Count(q, "read") <= Len(q)
    /\ \A q, c : Queue(q) => /\ Count(q \o <<c>>, "write") = Count(q, "write") + IF c.we THEN 1 ELSE 0
                             /\ Count(q \o <<c>>, "read") = Count(q, "read") + IF c.we THEN 0 ELSE 1
    /\ \A q : Queue(q) /\ q # <<>> =>
          /\ Count(Tail(q), "write") = Count(q, "write") - IF Head(q).we THEN 1 ELSE 0
          /\ Count(Tail(q), "read") = Count(q, "read") - IF Head(q).we THEN 0 ELSE 1
<1>1. \A c : (Is(c, "write") <=> c.we) /\ (Is(c, "read") <=> ~c.we) BY DEF Is
<1>. QED BY <1>1, CountMoves

-----------------------------------------------------------------------------
(* The port.                                                                *)

\* Its queues, at most one command that was accepted in the last cycle, and no
\* more of them than it holds.
PortTyped ==
    /\ {"fresh", "cmds", "returns", "missed", "dropped"} \subseteq DOMAIN port
    /\ Queue(port.fresh) /\ Queue(port.cmds) /\ Queue(port.returns)
    /\ Single(port.fresh) /\ Len(port.fresh) + Len(port.cmds) <= MaxCmds

\* Writes whose data was not fetched, reads whose word was not returned.
Writes == Count(port.cmds, "write") + Count(port.fresh, "write")
Reads == Count(port.cmds, "read") + Count(port.fresh, "read") + Len(port.returns)

\* What a clock edge of the port changes, when the bridge drives o.
Books(e, o) ==
    /\ PortTyped'
    /\ Writes' = Writes - (IF wdata_ready(e) THEN 1 ELSE 0)
                        + (IF e.ready /\ o.cmd # <<>> /\ Head(o.cmd).we THEN 1 ELSE 0)
    /\ Count(port'.cmds, "write") = Writes - (IF wdata_ready(e) THEN 1 ELSE 0)
    /\ Reads' = Reads - (IF e.ret THEN 1 ELSE 0)
                      + (IF e.ready /\ o.cmd # <<>> /\ ~Head(o.cmd).we THEN 1 ELSE 0)
    /\ port'.missed = (port.missed \/ (wdata_ready(e) /\ o.wdata = <<>>))
    /\ port'.dropped = (port.dropped \/ (rdata(e) # <<>> /\ ~o.rdata_ready))

\* What a bridge sees of the port happens only when there is something to see.
LEMMA PortOwes ==
    ASSUME PortTyped
    PROVE  /\ Writes \in Nat /\ Reads \in Nat /\ Writes <= MaxCmds
           /\ \A e \in PortInputs : (wdata_ready(e) => Writes > 0) /\ (e.ret => Reads > 0)
           /\ \A e \in PortInputs : e.ret => rdata(e) = <<Head(port.returns)>>
           /\ \A e \in PortInputs : rdata(e) # <<>> <=> e.ret
           /\ \A e \in PortInputs : wdata_ready(e) => Count(port.cmds, "write") # 0
<1>1. /\ Count(port.cmds, "write") \in Nat /\ Count(port.fresh, "write") \in Nat
      /\ Count(port.cmds, "read") \in Nat /\ Count(port.fresh, "read") \in Nat
      /\ Len(port.returns) \in Nat /\ (port.returns = <<>> <=> Len(port.returns) = 0)
  BY QueueMoves, Counting DEF PortTyped
<1>2. ASSUME NEW e \in PortInputs, wdata_ready(e) PROVE Writes > 0 /\ Count(port.cmds, "write") # 0
  <2>1. port.cmds # <<>> /\ Head(port.cmds).we BY <1>2 DEF PortInputs, wdata_ready
  <2>2. Queue(Tail(port.cmds)) /\ Count(Tail(port.cmds), "write") = Count(port.cmds, "write") - 1
    BY <2>1, QueueMoves, Counting DEF PortTyped
  <2>3. Count(Tail(port.cmds), "write") \in Nat BY <2>2, Counting
  <2>. QED BY <1>1, <2>2, <2>3 DEF Writes
<1>3. ASSUME NEW e \in PortInputs, e.ret PROVE Reads > 0
  BY <1>1, <1>3 DEF PortInputs, Reads
<1>4. ASSUME NEW e \in PortInputs PROVE (e.ret => rdata(e) = <<Head(port.returns)>>) /\ (rdata(e) # <<>> <=> e.ret)
  BY DEF rdata
<1>5. Writes <= MaxCmds
  <2>1. /\ Count(port.cmds, "write") <= Len(port.cmds) /\ Count(port.fresh, "write") <= Len(port.fresh)
        /\ Len(port.cmds) \in Nat /\ Len(port.fresh) \in Nat /\ Len(port.fresh) + Len(port.cmds) <= MaxCmds
    BY QueueMoves, Counting DEF PortTyped
  <2>2. PICK a \in Int, b \in Int, l \in Int, k \in Int, n \in Int :
          /\ a = Count(port.cmds, "write") /\ b = Count(port.fresh, "write")
          /\ l = Len(port.cmds) /\ k = Len(port.fresh) /\ n = MaxCmds
    BY <1>1, <2>1, NativePortAssumption
  <2>3. a <= l /\ b <= k /\ k + l <= n BY <2>1, <2>2
  <2>4. a + b <= n
    <3>1. a \in Int /\ b \in Int /\ l \in Int /\ k \in Int /\ n \in Int BY <2>2
    <3>. QED BY <2>3, <3>1
  <2>. QED BY <2>2, <2>4, Zenon DEF Writes
<1>. QED BY <1>1, <1>2, <1>3, <1>4, <1>5 DEF Writes, Reads

LEMMA PortEdge ==
    ASSUME PortTyped, NEW e \in PortInputs, NEW o, Single(o.cmd), port' = PortNext(e, o)
    PROVE  Books(e, o)
<1>. DEFINE head == Head(port.cmds)
            kept == IF e.do THEN Tail(port.cmds) ELSE port.cmds
            left == IF e.ret THEN Tail(port.returns) ELSE port.returns
            added == IF e.do /\ ~head.we THEN <<MemWord(head.addr)>> ELSE <<>>
<1>1. /\ port'.fresh = IF e.ready THEN o.cmd ELSE <<>>
      /\ port'.cmds = kept \o port.fresh
      /\ port'.returns = left \o added
      /\ port'.missed = (port.missed \/ (wdata_ready(e) /\ o.wdata = <<>>))
      /\ port'.dropped = (port.dropped \/ (rdata(e) # <<>> /\ ~o.rdata_ready))
      /\ DOMAIN port' = DOMAIN port
  <2>1. e.ret <=> rdata(e) # <<>> BY DEF rdata
  <2>. QED BY <2>1 DEF PortNext, PortTyped
<1>2. /\ e.do => port.cmds # <<>>
      /\ e.ret => port.returns # <<>>
  BY DEF PortInputs
<1>3. /\ Queue(kept) /\ Len(kept) \in Nat /\ Len(kept) <= Len(port.cmds)
      /\ Count(kept, "write") = Count(port.cmds, "write") - (IF wdata_ready(e) THEN 1 ELSE 0)
      /\ Count(kept, "read") = Count(port.cmds, "read") - (IF e.do /\ ~head.we THEN 1 ELSE 0)
      /\ Count(port.cmds, "write") \in Nat /\ Count(port.cmds, "read") \in Nat
  <2>1. CASE e.do
    <3>1. kept = Tail(port.cmds) /\ (wdata_ready(e) <=> head.we) BY <2>1 DEF wdata_ready
    <3>. QED BY <1>2, <2>1, <3>1, QueueMoves, Counting DEF PortTyped
  <2>2. CASE ~e.do
    <3>1. kept = port.cmds /\ ~wdata_ready(e) BY <2>2 DEF wdata_ready
    <3>. QED BY <2>2, <3>1, QueueMoves, Counting DEF PortTyped
  <2>. QED BY <2>1, <2>2
<1>4. /\ Queue(left) /\ Len(left) = Len(port.returns) - (IF e.ret THEN 1 ELSE 0)
      /\ Len(port.returns) \in Nat
  BY <1>2, QueueMoves DEF PortTyped
<1>5. Queue(added) /\ Len(added) = IF e.do /\ ~head.we THEN 1 ELSE 0
  <2>1. Len(<<>>) = 0 OBVIOUS
  <2>. QED BY <2>1, QueueMoves
<1>. HIDE DEF kept, left, added, head
<1>6. /\ Queue(port'.cmds) /\ Len(port'.cmds) = Len(kept) + Len(port.fresh)
      /\ Count(port'.cmds, "write") = Count(kept, "write") + Count(port.fresh, "write")
      /\ Count(port'.cmds, "read") = Count(kept, "read") + Count(port.fresh, "read")
      /\ Count(port.fresh, "write") \in Nat /\ Count(port.fresh, "read") \in Nat
  <2>1. CASE port.fresh = <<>>
    <3>1. kept \o <<>> = kept
      <4>1. PICK S : kept \in Seq(S) BY <1>3 DEF Queue
      <4>. QED BY <4>1, ConcatEmptySeq
    <3>2. Count(port.fresh, "write") = 0 /\ Count(port.fresh, "read") = 0 /\ Len(port.fresh) = 0
      BY <2>1, Counting, QueueMoves
    <3>3. Count(kept, "write") \in Nat /\ Count(kept, "read") \in Nat BY <1>3, Counting
    <3>. QED BY <1>1, <1>3, <2>1, <3>1, <3>2, <3>3
  <2>2. ASSUME NEW c, port.fresh = <<c>> PROVE <1>6!:
    <3>1. Queue(kept \o <<c>>) /\ Len(kept \o <<c>>) = Len(kept) + Len(<<c>>) BY <1>3, QueueMoves
    <3>2. /\ Count(kept \o <<c>>, "write") = Count(kept, "write") + (IF c.we THEN 1 ELSE 0)
          /\ Count(kept \o <<c>>, "read") = Count(kept, "read") + (IF c.we THEN 0 ELSE 1)
          /\ Count(<<c>>, "write") = (IF c.we THEN 1 ELSE 0) /\ Count(<<c>>, "read") = (IF c.we THEN 0 ELSE 1)
      BY <1>3, Counting
    <3>. QED BY <1>1, <2>2, <3>1, <3>2
  <2>. QED BY <2>1, <2>2 DEF PortTyped, Single
<1>7. Queue(port'.returns) /\ Len(port'.returns) = Len(left) + Len(added)
  BY <1>1, <1>4, <1>5, QueueMoves
<1>8. /\ Queue(port'.fresh) /\ Single(port'.fresh) /\ Len(port'.fresh) <= IF e.ready THEN 1 ELSE 0
      /\ Count(port'.fresh, "write") = IF e.ready /\ o.cmd # <<>> /\ Head(o.cmd).we THEN 1 ELSE 0
      /\ Count(port'.fresh, "read") = IF e.ready /\ o.cmd # <<>> /\ ~Head(o.cmd).we THEN 1 ELSE 0
  <2>1. CASE ~e.ready \/ o.cmd = <<>> 
    <3>1. port'.fresh = <<>> BY <1>1, <2>1
    <3>. QED BY <2>1, <3>1, QueueMoves, Counting DEF Single
  <2>2. ASSUME NEW c, e.ready, o.cmd = <<c>> PROVE <1>8!:
    <3>1. port'.fresh = <<c>> BY <1>1, <2>2
    <3>2. Queue(<<c>>) /\ o.cmd # <<>> /\ Head(o.cmd) = c BY <2>2, QueueMoves
    <3>3. /\ Count(<<c>>, "write") = (IF c.we THEN 1 ELSE 0)
          /\ Count(<<c>>, "read") = (IF c.we THEN 0 ELSE 1)
      BY Counting
    <3>. QED BY <2>2, <3>1, <3>2, <3>3 DEF Single
  <2>. QED BY <2>1, <2>2 DEF Single
<1>13. Len(port'.fresh) + Len(port'.cmds) <= MaxCmds
  <2>1. /\ Len(port.fresh) \in Nat /\ Len(port.cmds) \in Nat /\ Len(port'.fresh) \in Nat /\ MaxCmds \in Nat
        /\ Len(port.fresh) + Len(port.cmds) <= MaxCmds
    BY <1>8, QueueMoves, NativePortAssumption DEF PortTyped
  <2>2. e.ready => Len(port.fresh) + Len(port.cmds) < MaxCmds BY DEF PortInputs
  <2>3. PICK f \in Int, c \in Int, k \in Int, n \in Int, d \in Int, m \in Int :
          /\ f = Len(port.fresh) /\ c = Len(port.cmds) /\ k = Len(kept) /\ n = Len(port'.fresh)
          /\ d = Len(port'.cmds) /\ m = MaxCmds
    <3>1. Len(port'.cmds) \in Int BY <1>6, QueueMoves
    <3>2. /\ Len(port.fresh) \in Int /\ Len(port.cmds) \in Int /\ Len(port'.fresh) \in Int /\ MaxCmds \in Int
          /\ Len(kept) \in Int
      BY <1>3, <2>1
    <3>. QED BY <3>1, <3>2, Zenon
  <2>4. k <= c /\ d = k + f /\ f + c <= m BY <1>3, <1>6, <2>1, <2>3, Zenon
  <2>5. IF e.ready THEN n <= 1 /\ f + c < m ELSE n <= 0
    <3>1. CASE e.ready
      <4>1. Len(port'.fresh) <= 1 BY <1>8, <3>1
      <4>2. Len(port.fresh) + Len(port.cmds) < MaxCmds BY <2>2, <3>1, Zenon
      <4>. QED BY <2>3, <3>1, <4>1, <4>2, Zenon
    <3>2. CASE ~e.ready
      <4>1. Len(port'.fresh) <= 0 BY <1>8, <3>2
      <4>. QED BY <2>3, <3>2, <4>1, Zenon
    <3>. QED BY <3>1, <3>2, Zenon
  <2>6. n + d <= m
    <3>1. f \in Int /\ c \in Int /\ k \in Int /\ n \in Int /\ d \in Int /\ m \in Int BY <2>3
    <3>. QED BY <2>4, <2>5, <3>1
  <2>. QED BY <2>3, <2>6, Zenon
<1>9. PortTyped' BY <1>1, <1>6, <1>7, <1>8, <1>13 DEF PortTyped
<1>10. /\ Writes' = Count(port'.cmds, "write") + Count(port'.fresh, "write")
       /\ Reads' = Count(port'.cmds, "read") + Count(port'.fresh, "read") + Len(port'.returns)
  BY DEF Writes, Reads
<1>11. Writes' = Writes - (IF wdata_ready(e) THEN 1 ELSE 0)
                         + (IF e.ready /\ o.cmd # <<>> /\ Head(o.cmd).we THEN 1 ELSE 0)
  BY <1>3, <1>6, <1>8, <1>10 DEF Writes
<1>14. Count(port'.cmds, "write") = Writes - (IF wdata_ready(e) THEN 1 ELSE 0)
  BY <1>3, <1>6 DEF Writes
<1>12. Reads' = Reads - (IF e.ret THEN 1 ELSE 0)
                      + (IF e.ready /\ o.cmd # <<>> /\ ~Head(o.cmd).we THEN 1 ELSE 0)
  <2>. DEFINE moved == IF e.do /\ ~head.we THEN 1 ELSE 0
              new == IF e.ready /\ o.cmd # <<>> /\ ~Head(o.cmd).we THEN 1 ELSE 0
              gone == IF e.ret THEN 1 ELSE 0
  <2>1. /\ Count(kept, "read") = Count(port.cmds, "read") - moved /\ Len(added) = moved
        /\ Count(port'.fresh, "read") = new /\ Len(left) = Len(port.returns) - gone
        /\ moved \in Nat /\ new \in Nat /\ gone \in Nat
    BY <1>3, <1>4, <1>5, <1>8
  <2>. HIDE DEF moved, new, gone
  <2>2. PICK c \in Int, f \in Int, n \in Int, k \in Int, g \in Int :
          /\ c = Count(port.cmds, "read") /\ f = Count(port.fresh, "read") /\ n = Len(port.returns)
          /\ k = Count(kept, "read") /\ g = Count(port'.fresh, "read")
    BY <1>3, <1>4, <1>6, <2>1
  <2>8. Len(added) \in Int BY <2>1
  <2>9. Len(left) \in Int
    <3>1. Len(port.returns) \in Int /\ gone \in Int BY <1>4, <2>1
    <3>. QED BY <2>1, <3>1
  <2>3. PICK l \in Int, a \in Int : l = Len(left) /\ a = Len(added) BY <2>8, <2>9, Zenon
  <2>4. Reads' = (k + f) + g + (l + a) BY <1>6, <1>7, <1>10, <2>2, <2>3
  <2>5. k = c - moved /\ a = moved /\ g = new /\ l = n - gone BY <2>1, <2>2, <2>3
  <2>6. Reads = c + f + n BY <2>2 DEF Reads
  <2>10. PICK m \in Int, w \in Int, d \in Int : m = moved /\ w = new /\ d = gone BY <2>1
  <2>11. (k + f) + g + (l + a) = (c + f + n) - d + w
    <3>1. k = c - m /\ a = m /\ g = w /\ l = n - d BY <2>5, <2>10, Zenon
    <3>2. /\ c \in Int /\ f \in Int /\ n \in Int /\ m \in Int /\ d \in Int /\ w \in Int
          /\ k \in Int /\ g \in Int /\ l \in Int /\ a \in Int
      BY <2>2, <2>3, <2>10
    <3>. QED BY <3>1, <3>2
  <2>7. Reads' = Reads - gone + new BY <2>4, <2>6, <2>10, <2>11, Zenon
  <2>. QED BY <2>7 DEF gone, new
<1>. QED BY <1>1, <1>9, <1>11, <1>12, <1>14, Zenon DEF Books

\* The bridge was in time so far.
InTime == PortTyped /\ ~port.missed /\ ~port.dropped

(* A bridge stays in time when it offers the data of a write and has room   *)
(* for a word in the cycles in which the port asks for them.                *)
LEMMA Served ==
    ASSUME InTime, NEW e \in PortInputs, NEW o, Single(o.cmd), port' = PortNext(e, o),
           wdata_ready(e) => o.wdata # <<>>, e.ret => o.rdata_ready
    PROVE  /\ InTime'
           /\ Writes' = Writes - (IF wdata_ready(e) THEN 1 ELSE 0)
                               + (IF e.ready /\ o.cmd # <<>> /\ Head(o.cmd).we THEN 1 ELSE 0)
           /\ Reads' = Reads - (IF e.ret THEN 1 ELSE 0)
                             + (IF e.ready /\ o.cmd # <<>> /\ ~Head(o.cmd).we THEN 1 ELSE 0)
<1>1. PortTyped /\ ~port.missed /\ ~port.dropped BY DEF InTime
<1>2. Books(e, o) BY <1>1, PortEdge
<1>3. rdata(e) # <<>> => e.ret BY DEF rdata
<1>4. ~port'.missed /\ ~port'.dropped BY <1>1, <1>2, <1>3 DEF Books
<1>. QED BY <1>2, <1>4, Zenon DEF Books, InTime

-----------------------------------------------------------------------------
(* The DMA engines.                                                         *)

(* The writer's FIFO gains a word with every command and loses one with     *)
(* every word fetched.                                                      *)
LEMMA WriterMoves ==
    ASSUME NEW fifo, Queue(fifo), NEW sink, Single(sink), NEW i, i.wdata_ready => fifo # <<>>
    PROVE  LET cmd == WriterCmd(fifo, sink)
               next == WriterNext(fifo, sink, i)
           IN /\ Single(cmd) /\ (cmd # <<>> => Head(cmd).we)
              /\ WriterData(fifo) = <<>> <=> fifo = <<>>
              /\ Queue(next)
              /\ Len(next) = Len(fifo) - (IF i.wdata_ready THEN 1 ELSE 0)
                                      + (IF i.cmd_ready /\ cmd # <<>> THEN 1 ELSE 0)
<1>. DEFINE cmd == WriterCmd(fifo, sink)
            rest == IF i.wdata_ready /\ fifo # <<>> THEN Tail(fifo) ELSE fifo
            added == IF sink # <<>> /\ WriterReady(fifo, i) THEN <<Head(sink).dat>> ELSE <<>>
<1>1. /\ cmd = <<>> \/ cmd = <<[we |-> TRUE, addr |-> Head(sink).adr]>>
      /\ cmd # <<>> <=> sink # <<>> /\ Len(fifo) < dma_depth
  BY QueueMoves DEF WriterCmd
<1>2. Single(cmd) /\ (cmd # <<>> => Head(cmd).we) BY <1>1, QueueMoves DEF Single
<1>3. WriterData(fifo) = <<>> <=> fifo = <<>> BY QueueMoves DEF WriterData
<1>4. /\ Queue(rest) /\ Len(rest) = Len(fifo) - (IF i.wdata_ready THEN 1 ELSE 0) /\ Len(fifo) \in Nat
  <2>1. Len(fifo) \in Nat /\ (fifo # <<>> => Queue(Tail(fifo)) /\ Len(Tail(fifo)) = Len(fifo) - 1)
    BY QueueMoves, Zenon
  <2>2. CASE i.wdata_ready
    <3>1. rest = Tail(fifo) /\ fifo # <<>> BY <2>2
    <3>. HIDE DEF rest
    <3>. QED BY <2>1, <2>2, <3>1
  <2>3. CASE ~i.wdata_ready
    <3>1. rest = fifo BY <2>3
    <3>. HIDE DEF rest
    <3>. QED BY <2>1, <2>3, <3>1
  <2>. QED BY <2>2, <2>3
<1>5. /\ Queue(added) /\ Len(added) = IF i.cmd_ready /\ cmd # <<>> THEN 1 ELSE 0
  <2>1. sink # <<>> /\ WriterReady(fifo, i) <=> i.cmd_ready /\ cmd # <<>> BY <1>1 DEF WriterReady
  <2>2. Len(<<>>) = 0 OBVIOUS
  <2>. HIDE DEF cmd
  <2>. QED BY <2>1, <2>2, QueueMoves
<1>6. WriterNext(fifo, sink, i) = rest \o added BY DEF WriterNext
<1>. HIDE DEF cmd, rest, added
<1>7. Queue(rest \o added) /\ Len(rest \o added) = Len(rest) + Len(added) BY <1>4, <1>5, QueueMoves
<1>. QED BY <1>2, <1>3, <1>4, <1>5, <1>6, <1>7 DEF cmd

\* The reader's reservations cover n reads under way and the words it holds.
Reserved(r, n) ==
    /\ {"res", "fifo"} \subseteq DOMAIN r
    /\ Queue(r.fifo) /\ r.res = n + Len(r.fifo) /\ r.res <= dma_depth

(* The reader has room for every word, and its reservations stay with the   *)
(* reads, also when it drains.                                              *)
LEMMA ReaderMoves ==
    ASSUME NEW r, NEW n \in Nat, Reserved(r, n), NEW enable \in BOOLEAN, NEW sink, Single(sink), NEW ready \in BOOLEAN,
           NEW i, Single(i.rdata), i.rdata # <<>> => n > 0
    PROVE  LET cmd == ReaderCmd(r, enable, sink)
           IN /\ Single(cmd) /\ (cmd # <<>> => ~Head(cmd).we)
              /\ i.rdata # <<>> => ReaderRoom(r)
              /\ Reserved(ReaderNext(r, enable, sink, ready, i),
                          n - (IF i.rdata # <<>> THEN 1 ELSE 0) + (IF i.cmd_ready /\ cmd # <<>> THEN 1 ELSE 0))
<1>. DEFINE cmd == ReaderCmd(r, enable, sink)
            pop == r.fifo # <<>> /\ (ready \/ ~enable)
            rest == IF pop THEN Tail(r.fifo) ELSE r.fifo
            next == ReaderNext(r, enable, sink, ready, i)
<1>1. /\ cmd = <<>> \/ cmd = <<[we |-> FALSE, addr |-> Head(sink)]>>
      /\ cmd # <<>> => r.res < dma_depth
  BY QueueMoves DEF ReaderCmd
<1>2. Single(cmd) /\ (cmd # <<>> => ~Head(cmd).we) BY <1>1, QueueMoves DEF Single
<1>3. Len(r.fifo) \in Nat /\ r.res \in Nat /\ (r.fifo = <<>> <=> Len(r.fifo) = 0) /\ dma_depth \in Nat
  BY QueueMoves, DmaAssumption DEF Reserved
<1>4. i.rdata # <<>> => ReaderRoom(r)
  BY <1>3 DEF ReaderRoom, Reserved
<1>5. /\ Queue(rest) /\ Len(rest) = Len(r.fifo) - (IF pop THEN 1 ELSE 0)
      /\ pop => r.res > 0
  BY <1>3, QueueMoves DEF Reserved
<1>6. /\ next.res = r.res + (IF cmd # <<>> /\ i.cmd_ready THEN 1 ELSE 0) - (IF pop THEN 1 ELSE 0)
      /\ next.fifo = rest \o i.rdata /\ DOMAIN next = {"res", "fifo"}
  <2>1. (IF ReaderRoom(r) THEN i.rdata ELSE <<>>) = i.rdata BY <1>4
  <2>. HIDE DEF cmd
  <2>. QED BY <1>5, <2>1 DEF ReaderNext, cmd
<1>7. Queue(i.rdata) /\ Len(i.rdata) = IF i.rdata # <<>> THEN 1 ELSE 0
  BY SingleMoves, Zenon
<1>. HIDE DEF cmd, pop, rest, next
<1>8. Queue(next.fifo) /\ Len(next.fifo) = Len(rest) + Len(i.rdata)
  <2>1. Queue(rest \o i.rdata) /\ Len(rest \o i.rdata) = Len(rest) + Len(i.rdata)
    BY <1>5, <1>7, QueueMoves, Zenon
  <2>. QED BY <1>6, <2>1, Zenon
<1>9. Reserved(next, n - (IF i.rdata # <<>> THEN 1 ELSE 0) + (IF i.cmd_ready /\ cmd # <<>> THEN 1 ELSE 0))
  <2>. DEFINE got == IF i.rdata # <<>> THEN 1 ELSE 0
              new == IF i.cmd_ready /\ cmd # <<>> THEN 1 ELSE 0
              gone == IF pop THEN 1 ELSE 0
  <2>1. next.res = r.res + new - gone BY <1>6, Zenon
  <2>2. Len(next.fifo) = (Len(r.fifo) - gone) + got BY <1>5, <1>7, <1>8, Zenon
  <2>3. got \in {0, 1} /\ new \in {0, 1} /\ gone \in {0, 1} /\ (new = 1 => r.res < dma_depth)
    BY <1>1 DEF cmd
  <2>4. r.res = n + Len(r.fifo) /\ r.res <= dma_depth BY DEF Reserved
  <2>. HIDE DEF got, new, gone
  <2>5. next.res = (n - got + new) + Len(next.fifo) /\ next.res <= dma_depth
    BY <1>3, <2>1, <2>2, <2>3, <2>4
  <2>. QED BY <1>6, <1>8, <2>5 DEF Reserved, got, new
<1>. QED BY <1>2, <1>4, <1>9 DEF cmd, next

DmaBooks == Queue(bridge.wfifo) /\ Len(bridge.wfifo) = Writes /\ Reserved(bridge.reader, Reads)

LEMMA DmaStep ==
    ASSUME InTime, DmaBooks, NEW e \in PortInputs, DmaUserTick(e)
    PROVE  InTime' /\ DmaBooks'
<1>. DEFINE i == Seen(e)
            writing == master.phase = "writing"
            reading == master.phase = "reading"
            rsink == IF bridge.r.state = "RUN" THEN <<CsrAddress(bridge.r, master.p)>> ELSE <<>>
            rcmd == ReaderCmd(bridge.reader, reading, rsink)
<1>1. PICK wsink :
        /\ Single(wsink) /\ (wsink # <<>> => writing)
        /\ port' = PortNext(e, [ cmd |-> WriterCmd(bridge.wfifo, wsink) \o rcmd, wdata |-> WriterData(bridge.wfifo),
                                 rdata_ready |-> ReaderRoom(bridge.reader) ])
        /\ bridge'.wfifo = WriterNext(bridge.wfifo, wsink, i)
        /\ bridge'.reader = ReaderNext(bridge.reader, reading, rsink, TRUE, i)
  <2>1. PICK item \in (IF writing /\ bridge.w.state = "RUN" THEN DmaItems ELSE {<<>>}) :
          DmaEdge(e, IF item = <<>> THEN <<>>
                     ELSE <<[adr |-> CsrAddress(bridge.w, master.p), dat |-> Head(item)]>>, rsink)
    BY Zenon DEF DmaUserTick
  <2>. DEFINE wsink == IF item = <<>> THEN <<>> ELSE <<[adr |-> CsrAddress(bridge.w, master.p), dat |-> Head(item)]>>
  <2>2. Single(wsink) /\ (wsink # <<>> => writing) BY <2>1, Zenon DEF Single
  <2>3. DmaEdge(e, wsink, rsink) BY <2>1, Zenon
  <2>4. /\ port' = PortNext(e, [ cmd |-> WriterCmd(bridge.wfifo, wsink) \o rcmd, wdata |-> WriterData(bridge.wfifo),
                                 rdata_ready |-> ReaderRoom(bridge.reader) ])
        /\ bridge'.wfifo = WriterNext(bridge.wfifo, wsink, i)
        /\ bridge'.reader = ReaderNext(bridge.reader, reading, rsink, TRUE, i)
    <3>. HIDE DEF wsink, rsink
    <3>. QED BY <2>3 DEF DmaEdge
  <2>. QED BY <2>2, <2>4, Zenon
<1>. DEFINE wcmd == WriterCmd(bridge.wfifo, wsink)
            o == [ cmd |-> wcmd \o rcmd, wdata |-> WriterData(bridge.wfifo), rdata_ready |-> ReaderRoom(bridge.reader) ]
<1>2. /\ i.wdata_ready <=> wdata_ready(e)
      /\ i.cmd_ready <=> e.ready
      /\ i.rdata = rdata(e)
  BY DEF Seen
<1>3. /\ Writes \in Nat /\ Reads \in Nat /\ (wdata_ready(e) => Writes > 0) /\ (e.ret => Reads > 0)
      /\ Single(rdata(e)) /\ (rdata(e) # <<>> <=> e.ret)
  BY PortOwes DEF InTime, Single, rdata
<1>4. Queue(bridge.wfifo) /\ Len(bridge.wfifo) = Writes /\ Reserved(bridge.reader, Reads) BY DEF DmaBooks
<1>5. i.wdata_ready => bridge.wfifo # <<>>
  <2>1. bridge.wfifo = <<>> => Len(bridge.wfifo) = 0 BY <1>4, QueueMoves
  <2>. QED BY <1>2, <1>3, <1>4, <2>1
<1>6. Single(rsink) BY DEF Single
<1>. HIDE DEF i, rsink, writing, reading
<1>7. /\ Single(wcmd) /\ (wcmd # <<>> => Head(wcmd).we) /\ (wcmd # <<>> => writing)
      /\ o.wdata = <<>> <=> bridge.wfifo = <<>>
      /\ Queue(bridge'.wfifo)
      /\ Len(bridge'.wfifo) = Writes - (IF wdata_ready(e) THEN 1 ELSE 0)
                                     + (IF e.ready /\ wcmd # <<>> THEN 1 ELSE 0)
  <2>1. wcmd # <<>> => writing BY <1>1 DEF WriterCmd
  <2>. HIDE DEF wcmd
  <2>. QED BY <1>1, <1>2, <1>4, <1>5, <2>1, WriterMoves DEF wcmd
<1>8. /\ Single(rcmd) /\ (rcmd # <<>> => ~Head(rcmd).we) /\ (rcmd # <<>> => reading)
      /\ e.ret => o.rdata_ready
      /\ Reserved(bridge'.reader, Reads - (IF e.ret THEN 1 ELSE 0) + (IF e.ready /\ rcmd # <<>> THEN 1 ELSE 0))
  <2>1. rcmd # <<>> => reading BY DEF ReaderCmd
  <2>2. reading \in BOOLEAN BY DEF reading
  <2>3. Single(i.rdata) /\ (i.rdata # <<>> => Reads > 0) BY <1>2, <1>3
  <2>4. /\ Single(rcmd) /\ (rcmd # <<>> => ~Head(rcmd).we)
        /\ i.rdata # <<>> => ReaderRoom(bridge.reader)
        /\ Reserved(ReaderNext(bridge.reader, reading, rsink, TRUE, i),
                    Reads - (IF i.rdata # <<>> THEN 1 ELSE 0) + (IF i.cmd_ready /\ rcmd # <<>> THEN 1 ELSE 0))
    BY <1>3, <1>4, <1>6, <2>2, <2>3, ReaderMoves, Zenon
  <2>. HIDE DEF rcmd
  <2>. QED BY <1>1, <1>2, <1>3, <2>1, <2>4
<1>9. ~(writing /\ reading) BY DEF writing, reading
<1>. HIDE DEF wcmd, rcmd
<1>10. /\ Single(o.cmd)
       /\ o.cmd # <<>> /\ Head(o.cmd).we <=> wcmd # <<>>
       /\ o.cmd # <<>> /\ ~Head(o.cmd).we <=> rcmd # <<>>
  <2>1. Queue(wcmd) /\ Queue(rcmd) BY <1>7, <1>8, SingleMoves
  <2>2. CASE wcmd = <<>>
    <3>1. o.cmd = rcmd
      <4>1. PICK S : rcmd \in Seq(S) BY <2>1 DEF Queue
      <4>. QED BY <2>2, <4>1, ConcatEmptySeq
    <3>. QED BY <1>8, <2>2, <3>1
  <2>3. CASE rcmd = <<>>
    <3>1. o.cmd = wcmd
      <4>1. PICK S : wcmd \in Seq(S) BY <2>1 DEF Queue
      <4>. QED BY <2>3, <4>1, ConcatEmptySeq
    <3>. QED BY <1>7, <2>3, <3>1
  <2>. QED BY <1>7, <1>8, <1>9, <2>2, <2>3
<1>11. port' = PortNext(e, o) BY <1>1 DEF wcmd, rcmd
<1>12. wdata_ready(e) => o.wdata # <<>> BY <1>2, <1>5, <1>7
<1>. HIDE DEF o
<1>13. /\ InTime'
       /\ Writes' = Writes - (IF wdata_ready(e) THEN 1 ELSE 0) + (IF e.ready /\ o.cmd # <<>> /\ Head(o.cmd).we THEN 1 ELSE 0)
       /\ Reads' = Reads - (IF e.ret THEN 1 ELSE 0) + (IF e.ready /\ o.cmd # <<>> /\ ~Head(o.cmd).we THEN 1 ELSE 0)
  BY <1>8, <1>10, <1>11, <1>12, Served, Zenon
<1>14. Len(bridge'.wfifo) = Writes' BY <1>7, <1>10, <1>13
<1>15. Reserved(bridge'.reader, Reads')
  <2>1. Reads' = Reads - (IF e.ret THEN 1 ELSE 0) + (IF e.ready /\ rcmd # <<>> THEN 1 ELSE 0) BY <1>10, <1>13
  <2>. QED BY <1>8, <2>1
<1>. QED BY <1>7, <1>13, <1>14, <1>15 DEF DmaBooks

(* One access at a time; the master holds a write until its data is fetched. *)
WbBooks ==
    /\ bridge.state \in {"CMD", "WRITE", "READ"} /\ {"req"} \subseteq DOMAIN master
    /\ Writes = IF bridge.state = "WRITE" THEN 1 ELSE 0
    /\ Reads = IF bridge.state = "READ" THEN 1 ELSE 0
    /\ bridge.state = "WRITE" => stb /\ req.we

LEMMA WbStep ==
    ASSUME InTime, WbBooks, NEW e \in PortInputs, WbUserTick(e)
    PROVE  InTime' /\ WbBooks'
<1>. DEFINE i == Seen(e)
            d == WbDrives(bridge, 1)
            a == ack(bridge, 1, i)
            o == [ cmd |-> IF d.cmd = <<>> THEN <<>> ELSE <<[we |-> req.we, addr |-> Head(d.cmd).adr]>>,
                   wdata |-> IF d.wdata = <<>> THEN <<>> ELSE <<[data |-> req.dat, we |-> {0}]>>,
                   rdata_ready |-> TRUE ]
<1>1. PICK next \in BusMoves(a, WbAborts) :
        port' = PortNext(e, o) /\ bridge' = WbNext(bridge, 1, i) /\ master'.req = next /\ DOMAIN master' = DOMAIN master
  <2>1. PICK next \in BusMoves(a, WbAborts), go \in BOOLEAN :
          port' = PortNext(e, o) /\ bridge' = WbNext(bridge, 1, i) /\ master' = BusNext(a, dat_r(i), next, go)
    BY Zenon DEF WbUserTick
  <2>2. master'.req = next /\ DOMAIN master' = DOMAIN master BY <2>1 DEF BusNext, WbBooks
  <2>. QED BY <2>1, <2>2, Zenon
<1>2. /\ i.wdata_ready <=> wdata_ready(e)
      /\ i.cmd_ready <=> e.ready
      /\ i.rdata # <<>> <=> e.ret
  BY DEF Seen, rdata
<1>3. /\ Writes \in Nat /\ Reads \in Nat /\ (wdata_ready(e) => Writes > 0) /\ (e.ret => Reads > 0)
  BY PortOwes DEF InTime
<1>4. /\ d.cmd # <<>> <=> bridge.state = "CMD" /\ stb
      /\ d.wdata # <<>> <=> bridge.state = "WRITE"
  BY QueueMoves DEF WbDrives, WbBooks
<1>5. /\ Single(o.cmd) /\ (o.cmd # <<>> <=> bridge.state = "CMD" /\ stb)
      /\ o.cmd # <<>> => (Head(o.cmd).we <=> req.we)
      /\ o.wdata # <<>> <=> bridge.state = "WRITE"
      /\ o.rdata_ready
  <2>. HIDE DEF d
  <2>1. CASE d.cmd = <<>> BY <1>4, <2>1, QueueMoves DEF Single
  <2>2. CASE d.cmd # <<>> 
    <3>1. o.cmd = <<[we |-> req.we, addr |-> Head(d.cmd).adr]>> BY <2>2
    <3>2. o.cmd # <<>> /\ Head(o.cmd) = [we |-> req.we, addr |-> Head(d.cmd).adr] BY <3>1, QueueMoves
    <3>3. Single(o.cmd) BY <3>1 DEF Single
    <3>. QED BY <1>4, <2>2, <3>2, <3>3, QueueMoves
  <2>. QED BY <2>1, <2>2
<1>6. /\ bridge.state = "CMD" => bridge'.state = IF stb /\ e.ready THEN (IF req.we THEN "WRITE" ELSE "READ") ELSE "CMD"
      /\ bridge.state = "WRITE" => bridge'.state = IF wdata_ready(e) THEN "CMD" ELSE "WRITE"
      /\ bridge.state = "READ" => bridge'.state = IF e.ret THEN "CMD" ELSE "READ"
  BY <1>1, <1>2, <1>4 DEF WbNext, WbDone
<1>7. bridge.state = "CMD" \/ (bridge.state = "WRITE" /\ ~wdata_ready(e)) => ~a
  BY <1>2 DEF ack, WbDone
<1>8. stb /\ req.we /\ ~a => stb' /\ req'.we
  BY <1>1 DEF BusMoves, WbAborts, stb, req
<1>9. wdata_ready(e) => o.wdata # <<>> BY <1>3, <1>5 DEF WbBooks
<1>10. port' = PortNext(e, o) BY <1>1
<1>. HIDE DEF i, d, a, o
<1>13. /\ InTime'
       /\ Writes' = Writes - (IF wdata_ready(e) THEN 1 ELSE 0) + (IF e.ready /\ o.cmd # <<>> /\ Head(o.cmd).we THEN 1 ELSE 0)
       /\ Reads' = Reads - (IF e.ret THEN 1 ELSE 0) + (IF e.ready /\ o.cmd # <<>> /\ ~Head(o.cmd).we THEN 1 ELSE 0)
  BY <1>5, <1>9, <1>10, Served, Zenon
<1>14. DOMAIN master' = DOMAIN master BY <1>1
<1>. QED BY <1>3, <1>5, <1>6, <1>7, <1>8, <1>13, <1>14 DEF WbBooks

(* One access at a time, each in a state of its own.                        *)
BurstBooks ==
    /\ {"state"} \subseteq DOMAIN bridge
    /\ bridge.state \in {"CMD", "WRITE_CMD", "WRITE_DATA", "READ_CMD", "READ_DATA"}
    /\ Writes = IF bridge.state = "WRITE_DATA" THEN 1 ELSE 0
    /\ Reads = IF bridge.state = "READ_DATA" THEN 1 ELSE 0

\* What an edge does to the state of the FSM.
LEMMA BurstMoves ==
    ASSUME {"state"} \subseteq DOMAIN bridge, NEW ratio, NEW i
    PROVE  LET next == BurstNext(bridge, ratio, i)
           IN /\ {"state"} \subseteq DOMAIN next
              /\ bridge.state = "CMD" => next.state \in {"CMD", "WRITE_CMD", "READ_CMD"}
              /\ bridge.state = "WRITE_CMD" =>
                    next.state = IF ~bridge.wr.valid THEN "CMD" ELSE IF i.cmd_ready THEN "WRITE_DATA" ELSE "WRITE_CMD"
              /\ bridge.state = "WRITE_DATA" => next.state = IF i.wdata_ready THEN "CMD" ELSE "WRITE_DATA"
              /\ bridge.state = "READ_CMD" =>
                    next.state = IF ~cyc THEN "CMD" ELSE IF i.cmd_ready THEN "READ_DATA" ELSE "READ_CMD"
              /\ bridge.state = "READ_DATA" => next.state = IF i.rdata # <<>> THEN "CMD" ELSE "READ_DATA"
<1>. DEFINE next == BurstNext(bridge, ratio, i)
<1>1. CASE bridge.state = "CMD"
  <2>1. next = BurstCmd(bridge, ratio) BY <1>1 DEF BurstNext
  <2>2. \A b : {"state"} \subseteq DOMAIN b =>
           /\ {"state"} \subseteq DOMAIN BurstMerge(b, ratio)
           /\ BurstMerge(b, ratio).state \in {"CMD", "WRITE_CMD"}
    BY DEF BurstMerge
  <2>. DEFINE c == [bridge EXCEPT !.aborted = FALSE]
  <2>3. {"state"} \subseteq DOMAIN c /\ c.state = "CMD" BY <1>1
  <2>. HIDE DEF c
  <2>4. CASE ~cyc
    <3>1. BurstCmd(bridge, ratio) = [c EXCEPT !.rd_cache.valid = FALSE, !.state = IF bridge.wr.valid THEN "WRITE_CMD" ELSE @]
      BY <2>4 DEF BurstCmd, c
    <3>. QED BY <1>1, <2>1, <2>3, <3>1
  <2>5. CASE cyc /\ ~stb
    <3>1. BurstCmd(bridge, ratio) = c BY <2>5 DEF BurstCmd, c
    <3>. QED BY <1>1, <2>1, <2>3, <3>1
  <2>6. CASE cyc /\ stb /\ req.we
    <3>1. BurstCmd(bridge, ratio) = IF wr_can_merge(bridge, ratio) THEN BurstMerge(c, ratio)
                                    ELSE [c EXCEPT !.rd_cache.valid = FALSE, !.state = "WRITE_CMD"]
      BY <2>6 DEF BurstCmd, c
    <3>. QED BY <1>1, <2>1, <2>2, <2>3, <3>1
  <2>7. CASE cyc /\ stb /\ ~req.we
    <3>. DEFINE hit == rd_cache_hit(bridge, ratio)
                rd == [addr |-> wide_addr(ratio), chunk |-> chunk(ratio), last |-> req.last]
    <3>1. BurstCmd(bridge, ratio) =
            IF bridge.wr.valid THEN [c EXCEPT !.state = "WRITE_CMD"]
            ELSE IF hit THEN [c EXCEPT !.rd_cache.valid = ~req.last]
            ELSE [c EXCEPT !.state = "READ_CMD", !.rd = rd]
      BY <2>7 DEF BurstCmd, c
    <3>. HIDE DEF hit, rd
    <3>. QED BY <1>1, <2>1, <2>3, <3>1
  <2>. QED BY <2>4, <2>5, <2>6, <2>7
<1>2. CASE bridge.state = "WRITE_CMD" BY <1>2 DEF BurstNext
<1>3. CASE bridge.state = "WRITE_DATA"
  <2>1. CASE i.wdata_ready BY <1>3, <2>1 DEF BurstNext
  <2>2. CASE ~i.wdata_ready BY <1>3, <2>2 DEF BurstNext
  <2>. QED BY <2>1, <2>2
<1>4. CASE bridge.state = "READ_CMD" BY <1>4 DEF BurstNext
<1>5. CASE bridge.state = "READ_DATA"
  <2>1. CASE i.rdata # <<>> BY <1>5, <2>1 DEF BurstNext
  <2>2. CASE i.rdata = <<>> BY <1>5, <2>2 DEF BurstNext
  <2>. QED BY <2>1, <2>2
<1>6. CASE bridge.state \notin {"CMD", "WRITE_CMD", "WRITE_DATA", "READ_CMD", "READ_DATA"}
  <2>1. next = bridge BY <1>6 DEF BurstNext
  <2>. QED BY <1>6, <2>1
<1>. QED BY <1>1, <1>2, <1>3, <1>4, <1>5, <1>6

LEMMA BurstStep ==
    ASSUME InTime, BurstBooks, NEW e \in PortInputs, WbBurstTick(e)
    PROVE  InTime' /\ BurstBooks'
<1>. DEFINE i == Seen(e)
            o == BurstDrives(bridge)
<1>1. port' = PortNext(e, o) /\ bridge' = BurstNext(bridge, 2, i)
  BY Zenon DEF WbBurstTick
<1>2. /\ i.wdata_ready <=> wdata_ready(e)
      /\ i.cmd_ready <=> e.ready
      /\ i.rdata # <<>> <=> e.ret
  BY DEF Seen, rdata
<1>3. /\ Writes \in Nat /\ Reads \in Nat /\ (wdata_ready(e) => Writes > 0) /\ (e.ret => Reads > 0)
  BY PortOwes DEF InTime
<1>4. /\ Single(o.cmd)
      /\ o.cmd # <<>> /\ Head(o.cmd).we <=> bridge.state = "WRITE_CMD" /\ bridge.wr.valid
      /\ o.cmd # <<>> /\ ~Head(o.cmd).we <=> bridge.state = "READ_CMD" /\ cyc
      /\ o.wdata # <<>> <=> bridge.state = "WRITE_DATA"
      /\ o.rdata_ready <=> bridge.state = "READ_DATA"
  <2>1. \A x, y : Head(<<[we |-> x, addr |-> y]>>).we = x /\ <<[we |-> x, addr |-> y]>> # <<>> OBVIOUS
  <2>2. Single(o.cmd) BY DEF Single, BurstDrives
  <2>. QED BY <2>1, <2>2, QueueMoves DEF BurstDrives
<1>5. /\ {"state"} \subseteq DOMAIN bridge'
      /\ bridge.state = "CMD" => bridge'.state \in {"CMD", "WRITE_CMD", "READ_CMD"}
      /\ bridge.state = "WRITE_CMD" =>
            bridge'.state = IF ~bridge.wr.valid THEN "CMD" ELSE IF e.ready THEN "WRITE_DATA" ELSE "WRITE_CMD"
      /\ bridge.state = "WRITE_DATA" => bridge'.state = IF wdata_ready(e) THEN "CMD" ELSE "WRITE_DATA"
      /\ bridge.state = "READ_CMD" =>
            bridge'.state = IF ~cyc THEN "CMD" ELSE IF e.ready THEN "READ_DATA" ELSE "READ_CMD"
      /\ bridge.state = "READ_DATA" => bridge'.state = IF e.ret THEN "CMD" ELSE "READ_DATA"
  <2>1. {"state"} \subseteq DOMAIN bridge BY DEF BurstBooks
  <2>. HIDE DEF i
  <2>. QED BY <1>1, <1>2, <2>1, BurstMoves
<1>. HIDE DEF i, o
<1>6. wdata_ready(e) => o.wdata # <<>> BY <1>3, <1>4 DEF BurstBooks
<1>7. e.ret => o.rdata_ready BY <1>3, <1>4 DEF BurstBooks
<1>8. /\ InTime'
      /\ Writes' = Writes - (IF wdata_ready(e) THEN 1 ELSE 0) + (IF e.ready /\ o.cmd # <<>> /\ Head(o.cmd).we THEN 1 ELSE 0)
      /\ Reads' = Reads - (IF e.ret THEN 1 ELSE 0) + (IF e.ready /\ o.cmd # <<>> /\ ~Head(o.cmd).we THEN 1 ELSE 0)
  BY <1>1, <1>4, <1>6, <1>7, Served, Zenon
<1>. QED BY <1>3, <1>4, <1>5, <1>8 DEF BurstBooks

-----------------------------------------------------------------------------
(* A native user: the command it presents, the data it owes and the words it *)
(* waits for.                                                               *)
NativeTyped ==
    /\ {"cmd", "wdata", "expect"} \subseteq DOMAIN master
    /\ Single(master.cmd) /\ Queue(master.wdata) /\ Queue(master.expect)

\* A command of a kind presented.
Asks(q, op) == IF q # <<>> /\ Is(Head(q), op) THEN 1 ELSE 0

\* What a cycle that shows it i makes of the user, when next is its next command.
UserMoves(m, i, next) ==
    /\ DOMAIN m = DOMAIN master /\ m.cmd = next
    /\ Single(next) /\ Queue(m.wdata) /\ Queue(m.expect)
    /\ \E nw \in {0, 1}, nr \in {0, 1} :
          /\ Asks(next, "write") = Asks(master.cmd, "write")
                                   - (IF i.cmd_ready THEN Asks(master.cmd, "write") ELSE 0) + nw
          /\ Asks(next, "read") = Asks(master.cmd, "read")
                                  - (IF i.cmd_ready THEN Asks(master.cmd, "read") ELSE 0) + nr
          /\ Len(m.wdata) = Len(master.wdata) - (IF i.wdata_ready /\ master.wdata # <<>> THEN 1 ELSE 0) + nw
          /\ Len(m.expect) = Len(master.expect) - (IF i.rdata # <<>> /\ master.expect # <<>> THEN 1 ELSE 0) + nr
          /\ nw + nr <= 1
          /\ nw + nr > 0 => Len(master.wdata) + Len(master.expect) < MaxCmds

(* A user brings its data with a new command, and asks for no more words     *)
(* than it may wait for.                                                     *)
LEMMA NativeUser ==
    ASSUME NativeTyped, NEW i, NEW next, next \in NativeMoves(i.cmd_ready)
    PROVE  UserMoves(NativeNext(i, next), i, next)
<1>. DEFINE m == NativeNext(i, next)
            accepted == master.cmd # <<>> /\ i.cmd_ready
            new == next # <<>> /\ (master.cmd = <<>> \/ accepted)
            r == Head(next)
            data == IF i.wdata_ready /\ master.wdata # <<>> THEN Tail(master.wdata) ELSE master.wdata
            words == IF i.rdata # <<>> /\ master.expect # <<>> THEN Tail(master.expect) ELSE master.expect
            dnew == IF new /\ r.we THEN <<r.dat>> ELSE <<>>
            wnew == IF new /\ ~r.we THEN <<IdealWord(master.ideal, master.width, r.adr)>> ELSE <<>>
            nw == IF new /\ r.we THEN 1 ELSE 0
            nr == IF new /\ ~r.we THEN 1 ELSE 0
<1>1. DOMAIN m = DOMAIN master /\ m.cmd = next /\ m.wdata = data \o dnew /\ m.expect = words \o wnew
  BY DEF NativeNext, NativeTyped
<1>2. /\ Queue(data) /\ Len(data) = Len(master.wdata) - (IF i.wdata_ready /\ master.wdata # <<>> THEN 1 ELSE 0)
      /\ Queue(words) /\ Len(words) = Len(master.expect) - (IF i.rdata # <<>> /\ master.expect # <<>> THEN 1 ELSE 0)
      /\ Len(master.wdata) \in Nat /\ Len(master.expect) \in Nat
  BY QueueMoves DEF NativeTyped
<1>3. Len(<<>>) = 0 OBVIOUS
<1>4. Queue(dnew) /\ Len(dnew) = nw /\ Queue(wnew) /\ Len(wnew) = nr
  <2>. HIDE DEF new, r
  <2>. QED BY <1>3, QueueMoves
<1>5. /\ Single(next) /\ (master.cmd # <<>> /\ ~i.cmd_ready => next = master.cmd)
      /\ new => Len(master.wdata) + Len(master.expect) < MaxCmds
  <2>1. CASE master.cmd # <<>> /\ ~i.cmd_ready BY <2>1 DEF NativeMoves, NativeTyped
  <2>2. CASE ~(master.cmd # <<>> /\ ~i.cmd_ready)
    <3>. DEFINE held == Len(master.wdata) + Len(master.expect)
    <3>0. held \in Int /\ MaxCmds \in Int BY <1>2, NativePortAssumption
    <3>4. next \in IF held >= MaxCmds THEN {<<>>} ELSE {<<x>> : x \in Requests(master.width, master.lasts)} \cup {<<>>}
      BY <2>2, Zenon DEF NativeMoves
    <3>. HIDE DEF held
    <3>1. CASE held >= MaxCmds
      <4>1. next = <<>> BY <3>1, <3>4
      <4>. QED BY <2>2, <4>1 DEF Single
    <3>2. CASE held < MaxCmds
      <4>1. next = <<>> \/ \E x : next = <<x>>
        <5>1. next \in {<<x>> : x \in Requests(master.width, master.lasts)} \cup {<<>>}
          BY <3>0, <3>2, <3>4
        <5>. QED BY <5>1
      <4>. QED BY <2>2, <3>2, <4>1 DEF Single, held
    <3>3. held >= MaxCmds \/ held < MaxCmds BY <3>0
    <3>. QED BY <3>1, <3>2, <3>3, Zenon
  <2>. QED BY <2>1, <2>2, Zenon
<1>6. /\ Asks(next, "write") = Asks(master.cmd, "write") - (IF i.cmd_ready THEN Asks(master.cmd, "write") ELSE 0) + nw
      /\ Asks(next, "read") = Asks(master.cmd, "read") - (IF i.cmd_ready THEN Asks(master.cmd, "read") ELSE 0) + nr
  <2>0. /\ \A q : q = <<>> => Asks(q, "write") = 0 /\ Asks(q, "read") = 0
        /\ \A q : q # <<>> => /\ Asks(q, "write") = IF Head(q).we THEN 1 ELSE 0
                              /\ Asks(q, "read") = IF Head(q).we THEN 0 ELSE 1
    BY DEF Asks, Is
  <2>1. CASE next = <<>> \/ new BY <1>5, <2>0, <2>1
  <2>2. CASE next # <<>> /\ ~new BY <1>5, <2>0, <2>2
  <2>. QED BY <2>1, <2>2
<1>7. nw \in {0, 1} /\ nr \in {0, 1} /\ nw + nr <= 1 /\ (nw + nr > 0 => new) OBVIOUS
<1>. HIDE DEF nw, nr, new, m, data, words, dnew, wnew
<1>8. /\ Queue(m.wdata) /\ Len(m.wdata) = Len(data) + nw
      /\ Queue(m.expect) /\ Len(m.expect) = Len(words) + nr
  BY <1>1, <1>2, <1>4, QueueMoves
<1>9. /\ Len(m.wdata) = Len(master.wdata) - (IF i.wdata_ready /\ master.wdata # <<>> THEN 1 ELSE 0) + nw
      /\ Len(m.expect) = Len(master.expect) - (IF i.rdata # <<>> /\ master.expect # <<>> THEN 1 ELSE 0) + nr
  BY <1>2, <1>8
<1>. QED BY <1>1, <1>5, <1>6, <1>7, <1>8, <1>9, Zenon DEF m, UserMoves
-----------------------------------------------------------------------------
(* ECC.                                                                     *)

(* The data of a write under way is in the buffer behind the encoder, or     *)
(* still with the user, which presents the command.                          *)
EccBooks ==
    /\ NativeTyped /\ {"wdata"} \subseteq DOMAIN bridge /\ Single(bridge.wdata)
    /\ Writes + Asks(master.cmd, "write") = Len(bridge.wdata) + Len(master.wdata)
    /\ bridge.wdata = <<>> => Writes = 0

LEMMA EccStep ==
    ASSUME InTime, EccBooks, NEW e \in PortInputs, EccUserTick(e)
    PROVE  InTime' /\ EccBooks'
<1>. DEFINE i == Seen(e)
            cmd == IF master.cmd = <<>> THEN <<>>
                   ELSE <<[we |-> Head(master.cmd).we, addr |-> Head(master.cmd).adr]>>
            o == EccDrives(bridge, cmd)
            seen == [ cmd_ready |-> e.ready, wdata_ready |-> EccWReady(bridge, i),
                      rdata |-> IF bridge.rdata = <<>> THEN <<>> ELSE <<Head(bridge.rdata).word>> ]
<1>1. PICK next \in NativeMoves(e.ready), clear \in BOOLEAN :
        /\ port' = PortNext(e, o) /\ bridge' = EccNext(bridge, i, master.wdata, clear)
        /\ master' = [NativeNext(seen, next) EXCEPT
             !.wrong = @ /\ (master.wrong \/ ~(Head(bridge.rdata).reported /\ bridge.ded_detected))]
  BY Zenon DEF EccUserTick
<1>2. /\ i.wdata_ready <=> wdata_ready(e)
      /\ seen.cmd_ready = e.ready /\ seen.wdata_ready = EccWReady(bridge, i)
  BY DEF Seen
<1>3. /\ Writes \in Nat /\ Reads \in Nat /\ (wdata_ready(e) => Writes > 0) /\ (e.ret => Reads > 0)
  BY PortOwes DEF InTime
<1>4. /\ Single(o.cmd) /\ o.wdata = bridge.wdata /\ o.rdata_ready
      /\ (IF o.cmd # <<>> /\ Head(o.cmd).we THEN 1 ELSE 0) = Asks(master.cmd, "write")
  <2>1. o.wdata = bridge.wdata /\ o.rdata_ready /\ o.cmd = cmd BY DEF EccDrives
  <2>2. CASE master.cmd = <<>>
    <3>1. cmd = <<>> BY <2>2
    <3>. QED BY <2>1, <2>2, <3>1 DEF Single, Asks
  <2>3. CASE master.cmd # <<>>
    <3>1. cmd = <<[we |-> Head(master.cmd).we, addr |-> Head(master.cmd).adr]>> BY <2>3
    <3>2. cmd # <<>> /\ Head(cmd) = [we |-> Head(master.cmd).we, addr |-> Head(master.cmd).adr] BY <3>1, QueueMoves
    <3>3. Single(cmd) BY <3>1 DEF Single
    <3>4. Head(cmd).we = Head(master.cmd).we BY <3>2
    <3>. QED BY <2>1, <2>3, <3>2, <3>3, <3>4 DEF Asks, Is
  <2>. QED BY <2>2, <2>3
<1>5. /\ {"wdata"} \subseteq DOMAIN bridge'
      /\ bridge'.wdata = IF ~EccWReady(bridge, i) THEN bridge.wdata
                          ELSE IF master.wdata = <<>> THEN <<>> ELSE <<EccEncode(Head(master.wdata))>>
  BY <1>1 DEF EccNext, EccBooks
<1>6. EccWReady(bridge, i) <=> bridge.wdata = <<>> \/ wdata_ready(e) BY <1>2 DEF EccWReady
<1>7. wdata_ready(e) => o.wdata # <<>> BY <1>3, <1>4 DEF EccBooks
<1>8. port' = PortNext(e, o) BY <1>1
<1>9. NativeTyped BY DEF EccBooks
<1>10. /\ DOMAIN master' = DOMAIN NativeNext(seen, next) /\ master'.cmd = NativeNext(seen, next).cmd
       /\ master'.wdata = NativeNext(seen, next).wdata /\ master'.expect = NativeNext(seen, next).expect
  <2>1. {"cmd", "wdata", "expect"} \subseteq DOMAIN NativeNext(seen, next) BY <1>9 DEF NativeNext, NativeTyped
  <2>. HIDE DEF seen
  <2>. QED BY <1>1, <2>1
<1>. HIDE DEF i, cmd, seen, o
<1>11. /\ DOMAIN master' = DOMAIN master /\ Single(master'.cmd) /\ Queue(master'.wdata) /\ Queue(master'.expect)
       /\ \E nw \in {0, 1} :
             /\ Asks(master'.cmd, "write") = Asks(master.cmd, "write") - (IF e.ready THEN Asks(master.cmd, "write") ELSE 0) + nw
             /\ Len(master'.wdata) = Len(master.wdata)
                                     - (IF EccWReady(bridge, i) /\ master.wdata # <<>> THEN 1 ELSE 0) + nw
  <2>1. next \in NativeMoves(seen.cmd_ready) BY <1>1, <1>2
  <2>. DEFINE m == NativeNext(seen, next)
  <2>2. UserMoves(m, seen, next) BY <1>9, <2>1, NativeUser, Zenon
  <2>. HIDE DEF m
  <2>3. /\ DOMAIN master' = DOMAIN m /\ master'.cmd = m.cmd /\ master'.wdata = m.wdata /\ master'.expect = m.expect
    BY <1>10 DEF m
  <2>. QED BY <1>2, <2>2, <2>3 DEF UserMoves
<1>12. NativeTyped' BY <1>9, <1>11 DEF NativeTyped
<1>13. /\ InTime'
       /\ Writes' = Writes - (IF wdata_ready(e) THEN 1 ELSE 0) + (IF e.ready /\ o.cmd # <<>> /\ Head(o.cmd).we THEN 1 ELSE 0)
  BY <1>4, <1>7, <1>8, Served, Zenon
<1>14. Writes' = Writes - (IF wdata_ready(e) THEN 1 ELSE 0) + (IF e.ready THEN Asks(master.cmd, "write") ELSE 0)
  BY <1>4, <1>13
<1>15. /\ Len(bridge.wdata) = (IF bridge.wdata # <<>> THEN 1 ELSE 0) /\ Single(bridge.wdata)
       /\ Len(master.wdata) \in Nat /\ (master.wdata = <<>> <=> Len(master.wdata) = 0)
       /\ Asks(master.cmd, "write") \in {0, 1}
  BY QueueMoves, SingleMoves DEF EccBooks, NativeTyped, Asks
<1>16. /\ Single(bridge'.wdata)
       /\ (bridge'.wdata = <<>> <=> IF EccWReady(bridge, i) THEN master.wdata = <<>> ELSE bridge.wdata = <<>>)
       /\ Len(bridge'.wdata) = IF EccWReady(bridge, i) THEN (IF master.wdata # <<>> THEN 1 ELSE 0) ELSE Len(bridge.wdata)
  <2>1. CASE ~EccWReady(bridge, i) BY <1>5, <1>15, <2>1
  <2>2. CASE EccWReady(bridge, i) /\ master.wdata = <<>>
    <3>1. bridge'.wdata = <<>> BY <1>5, <2>2
    <3>. QED BY <2>2, <3>1, QueueMoves DEF Single
  <2>3. CASE EccWReady(bridge, i) /\ master.wdata # <<>>
    <3>1. bridge'.wdata = <<EccEncode(Head(master.wdata))>> BY <1>5, <2>3
    <3>2. Single(bridge'.wdata) BY <3>1 DEF Single
    <3>. QED BY <2>3, <3>1, <3>2, QueueMoves
  <2>. QED BY <2>1, <2>2, <2>3
<1>17. /\ Writes + Asks(master.cmd, "write") = Len(bridge.wdata) + Len(master.wdata)
       /\ bridge.wdata = <<>> => Writes = 0
  BY DEF EccBooks
<1>. DEFINE leaving == IF e.ready THEN Asks(master.cmd, "write") ELSE 0
<1>20. leaving \in Int /\ 0 <= leaving /\ leaving <= Asks(master.cmd, "write") BY <1>15
<1>21. Writes' = Writes - (IF wdata_ready(e) THEN 1 ELSE 0) + leaving BY <1>14
<1>22. PICK nw \in {0, 1} :
         /\ Asks(master'.cmd, "write") = Asks(master.cmd, "write") - leaving + nw
         /\ Len(master'.wdata) = Len(master.wdata) - (IF EccWReady(bridge, i) /\ master.wdata # <<>> THEN 1 ELSE 0) + nw
  BY <1>11
<1>. HIDE DEF leaving
<1>23. PICK w \in Int, a \in Int, b \in Int, d \in Int, t \in Int, n \in Int :
         /\ w = Writes /\ a = Asks(master.cmd, "write") /\ b = Len(bridge.wdata) /\ d = Len(master.wdata)
         /\ t = leaving /\ n = nw
  <2>1. Writes \in Int /\ Asks(master.cmd, "write") \in Int /\ Len(bridge.wdata) \in Int /\ Len(master.wdata) \in Int
    BY <1>3, <1>15
  <2>2. nw \in Int BY <1>22
  <2>. QED BY <1>20, <2>1, <2>2, Zenon
<1>. DEFINE Kept == /\ Writes' + Asks(master'.cmd, "write") = Len(bridge'.wdata) + Len(master'.wdata)
                    /\ bridge'.wdata = <<>> => Writes' = 0
<1>24. ASSUME ~EccWReady(bridge, i) PROVE Kept
  <2>1. /\ ~wdata_ready(e) /\ bridge.wdata # <<>> /\ bridge'.wdata # <<>> /\ Len(bridge'.wdata) = b
    BY <1>6, <1>16, <1>23, <1>24
  <2>2. Writes' = w + t /\ Asks(master'.cmd, "write") = a - t + n /\ Len(master'.wdata) = d + n
    BY <1>21, <1>22, <1>23, <1>24, <2>1
  <2>3. w + a = b + d BY <1>17, <1>23, Zenon
  <2>4. (w + t) + (a - t + n) = b + (d + n)
    <3>1. w \in Int /\ a \in Int /\ b \in Int /\ d \in Int /\ t \in Int /\ n \in Int BY <1>23
    <3>. QED BY <2>3, <3>1
  <2>. QED BY <2>1, <2>2, <2>4, Zenon
<1>25. ASSUME EccWReady(bridge, i) PROVE Kept
  <2>. DEFINE f == IF wdata_ready(e) THEN 1 ELSE 0
              p == IF master.wdata # <<>> THEN 1 ELSE 0
  <2>1. b = f /\ (f = 0 => w = 0) /\ f \in {0, 1} BY <1>3, <1>6, <1>15, <1>17, <1>23, <1>25
  <2>2. Len(bridge'.wdata) = p /\ p \in {0, 1} /\ (bridge'.wdata = <<>> => d = 0) BY <1>15, <1>16, <1>23, <1>25
  <2>. HIDE DEF f
  <2>3. Writes' = w - f + t BY <1>21, <1>23 DEF f
  <2>. HIDE DEF p
  <2>4. Asks(master'.cmd, "write") = a - t + n BY <1>22, <1>23, Zenon
  <2>5. Len(master'.wdata) = d - p + n BY <1>22, <1>23, <1>25 DEF p
  <2>6. w + a = b + d BY <1>17, <1>23, Zenon
  <2>7. 0 <= t /\ t <= a /\ (f = 1 => w > 0) BY <1>3, <1>20, <1>23 DEF f
  <2>8. /\ (w - f + t) + (a - t + n) = p + (d - p + n)
        /\ d = 0 => w - f + t = 0
    <3>1. w \in Int /\ a \in Int /\ b \in Int /\ d \in Int /\ t \in Int /\ n \in Int /\ f \in Int /\ p \in Int
      BY <1>23, <2>1, <2>2
    <3>2. b = f /\ (f = 0 => w = 0) /\ f \in {0, 1} BY <2>1, Zenon
    <3>. QED BY <2>6, <2>7, <3>1, <3>2
  <2>. QED BY <2>2, <2>3, <2>4, <2>5, <2>8, Zenon
<1>18. Writes' + Asks(master'.cmd, "write") = Len(bridge'.wdata) + Len(master'.wdata)
  BY <1>24, <1>25, Zenon
<1>19. bridge'.wdata = <<>> => Writes' = 0
  BY <1>24, <1>25, Zenon
<1>. QED BY <1>5, <1>12, <1>13, <1>16, <1>18, <1>19, Zenon DEF EccBooks

(* A bit that flips is in the memory.                                       *)
LEMMA FlipKeeps == ASSUME InTime, EccBooks, EccFlip PROVE InTime' /\ EccBooks'
<1>1. bridge' = bridge /\ master' = master BY Zenon DEF EccFlip
<1>2. PICK c : port' = [port EXCEPT !.mem[c] = Flipped(@)] BY Zenon DEF EccFlip
<1>3. /\ port'.fresh = port.fresh /\ port'.cmds = port.cmds /\ port'.returns = port.returns
      /\ port'.missed = port.missed /\ port'.dropped = port.dropped /\ DOMAIN port' = DOMAIN port
  BY <1>2 DEF InTime, PortTyped
<1>4. InTime' BY <1>3 DEF InTime, PortTyped
<1>5. Writes' = Writes BY <1>3, Zenon DEF Writes
<1>. QED BY <1>1, <1>4, <1>5, Zenon DEF EccBooks, NativeTyped

-----------------------------------------------------------------------------
(* The clock domain crossing.                                               *)

\* Its FIFOs, whose contents are counted.
CdcTyped ==
    /\ NativeTyped /\ {"cmd", "wdata", "rdata"} \subseteq DOMAIN bridge
    /\ Queue(bridge.cmd) /\ Queue(bridge.wdata) /\ Queue(bridge.rdata)

(* No command overtakes its data, though each crosses in its own FIFO: the   *)
(* data of the writes that crossed or wait in the FIFO is there.  The words  *)
(* the user waits for are asked for, under way or there.                     *)
CdcBooks ==
    /\ CdcTyped
    /\ Len(bridge.cmd) <= cmd_depth
    /\ Asks(master.cmd, "write") + Count(bridge.cmd, "write") + Writes = Len(bridge.wdata) + Len(master.wdata)
    /\ Count(bridge.cmd, "write") + Writes <= Len(bridge.wdata)
    /\ Len(master.expect) = Asks(master.cmd, "read") + Count(bridge.cmd, "read") + Reads + Len(bridge.rdata)
    /\ Len(master.expect) <= MaxCmds

\* The numbers that are compared.
Numbers ==
    /\ Writes \in Nat /\ Reads \in Nat /\ Writes <= MaxCmds
    /\ Asks(master.cmd, "write") \in {0, 1} /\ Asks(master.cmd, "read") \in {0, 1}
    /\ Len(bridge.cmd) \in Nat /\ Len(bridge.wdata) \in Nat /\ Len(bridge.rdata) \in Nat
    /\ Len(master.wdata) \in Nat /\ Len(master.expect) \in Nat
    /\ Count(bridge.cmd, "write") \in Nat /\ Count(bridge.cmd, "read") \in Nat
    /\ Count(bridge.cmd, "write") <= Len(bridge.cmd)
LEMMA CdcNumbers == ASSUME InTime, CdcBooks PROVE Numbers
<1>1. Writes \in Nat /\ Reads \in Nat /\ Writes <= MaxCmds BY PortOwes DEF InTime
<1>2. Asks(master.cmd, "write") \in {0, 1} /\ Asks(master.cmd, "read") \in {0, 1} BY DEF Asks
<1>3. /\ Queue(bridge.cmd) /\ Queue(bridge.wdata) /\ Queue(bridge.rdata)
      /\ Queue(master.wdata) /\ Queue(master.expect)
  BY DEF CdcBooks, CdcTyped, NativeTyped
<1>4. /\ Len(bridge.cmd) \in Nat /\ Len(bridge.wdata) \in Nat /\ Len(bridge.rdata) \in Nat
      /\ Len(master.wdata) \in Nat /\ Len(master.expect) \in Nat
  BY <1>3, QueueMoves, Zenon
<1>5. /\ Count(bridge.cmd, "write") \in Nat /\ Count(bridge.cmd, "read") \in Nat
      /\ Count(bridge.cmd, "write") <= Len(bridge.cmd)
  BY <1>3, Counting, Zenon
<1>. QED BY <1>1, <1>2, <1>4, <1>5, Zenon DEF Numbers

(* A queue with an entry more.                                              *)
LEMMA Appended ==
    ASSUME NEW q, Queue(q), NEW c
    PROVE  /\ Queue(Append(q, c)) /\ Len(Append(q, c)) = Len(q) + 1
           /\ Count(Append(q, c), "write") = Count(q, "write") + IF c.we THEN 1 ELSE 0
           /\ Count(Append(q, c), "read") = Count(q, "read") + IF c.we THEN 0 ELSE 1
<1>1. PICK S : q \in Seq(S) BY DEF Queue
<1>2. Append(q, c) = q \o <<c>>
  <2>1. q \in Seq(S \cup {c}) BY <1>1
  <2>. QED BY <2>1
<1>3. Queue(q \o <<c>>) /\ Len(q \o <<c>>) = Len(q) + 1 BY QueueMoves
<1>. QED BY <1>2, <1>3, Counting

LEMMA CdcUserStep ==
    ASSUME InTime, CdcBooks, CdcUserTick
    PROVE  InTime' /\ CdcBooks'
<1>. DEFINE s == [ cmd_ready |-> Len(bridge.cmd) < cmd_depth,
                   wdata_ready |-> Len(bridge.wdata) < wdata_depth,
                   rdata |-> IF bridge.rdata = <<>> THEN <<>> ELSE <<Head(bridge.rdata)>> ]
            entry == [we |-> Head(master.cmd).we, addr |-> Head(master.cmd).adr]
            word == [data |-> Head(master.wdata), we |-> {0}]
            accepts == s.cmd_ready /\ master.cmd # <<>>
            takes == s.wdata_ready /\ master.wdata # <<>>
            gives == bridge.rdata # <<>>
<1>1. PICK next \in NativeMoves(s.cmd_ready) :
        /\ bridge' = [ cmd |-> IF accepts THEN Append(bridge.cmd, entry) ELSE bridge.cmd,
                       wdata |-> IF takes THEN Append(bridge.wdata, word) ELSE bridge.wdata,
                       rdata |-> IF gives THEN Tail(bridge.rdata) ELSE <<>> ]
        /\ master' = NativeNext(s, next)
        /\ port' = port
  BY Zenon DEF CdcUserTick
<1>2. /\ {"cmd", "wdata", "rdata"} \subseteq DOMAIN bridge'
      /\ bridge'.cmd = IF accepts THEN Append(bridge.cmd, entry) ELSE bridge.cmd
      /\ bridge'.wdata = IF takes THEN Append(bridge.wdata, word) ELSE bridge.wdata
      /\ bridge'.rdata = IF gives THEN Tail(bridge.rdata) ELSE <<>>
  <2>. HIDE DEF accepts, takes, gives, entry, word
  <2>. QED BY <1>1
<1>3. /\ Writes \in Nat /\ Reads \in Nat /\ Writes <= MaxCmds
      /\ Asks(master.cmd, "write") \in {0, 1} /\ Asks(master.cmd, "read") \in {0, 1}
      /\ Len(bridge.cmd) \in Nat /\ Len(bridge.wdata) \in Nat /\ Len(bridge.rdata) \in Nat
      /\ Len(master.wdata) \in Nat /\ Len(master.expect) \in Nat
      /\ Count(bridge.cmd, "write") \in Nat /\ Count(bridge.cmd, "read") \in Nat
      /\ Count(bridge.cmd, "write") <= Len(bridge.cmd)
  BY CdcNumbers DEF Numbers
<1>4. NativeTyped /\ Queue(bridge.cmd) /\ Queue(bridge.wdata) /\ Queue(bridge.rdata) BY DEF CdcBooks, CdcTyped
<1>5. /\ s.cmd_ready <=> Len(bridge.cmd) < cmd_depth
      /\ s.wdata_ready <=> Len(bridge.wdata) < wdata_depth
      /\ s.rdata # <<>> <=> gives
      /\ entry.we = Head(master.cmd).we
  BY QueueMoves
<1>6. UserMoves(master', s, next) BY <1>1, <1>4, NativeUser, Zenon
<1>. HIDE DEF s, entry, word
<1>7. NativeTyped' BY <1>4, <1>6 DEF UserMoves, NativeTyped
<1>. DEFINE wsent == IF s.cmd_ready THEN Asks(master.cmd, "write") ELSE 0
            rsent == IF s.cmd_ready THEN Asks(master.cmd, "read") ELSE 0
            moved == IF takes THEN 1 ELSE 0
            given == IF gives THEN 1 ELSE 0
<1>8. /\ Queue(bridge'.cmd) /\ Len(bridge'.cmd) <= cmd_depth
      /\ Count(bridge'.cmd, "write") = Count(bridge.cmd, "write") + wsent
      /\ Count(bridge'.cmd, "read") = Count(bridge.cmd, "read") + rsent
  <2>1. CASE accepts
    <3>1. bridge'.cmd = Append(bridge.cmd, entry) BY <1>2, <2>1
    <3>2. wsent = (IF entry.we THEN 1 ELSE 0) /\ rsent = (IF entry.we THEN 0 ELSE 1) BY <1>5, <2>1 DEF Asks, Is
    <3>3. Len(bridge.cmd) + 1 <= cmd_depth BY <1>3, <1>5, <2>1, CdcAssumption
    <3>. HIDE DEF wsent, rsent
    <3>. QED BY <1>4, <3>1, <3>2, <3>3, Appended
  <2>2. CASE ~accepts
    <3>1. bridge'.cmd = bridge.cmd BY <1>2, <2>2
    <3>2. wsent = 0 /\ rsent = 0 BY <2>2 DEF Asks
    <3>3. Len(bridge.cmd) <= cmd_depth BY DEF CdcBooks
    <3>. HIDE DEF wsent, rsent
    <3>. QED BY <1>3, <1>4, <3>1, <3>2, <3>3
  <2>. QED BY <2>1, <2>2
<1>9. Queue(bridge'.wdata) /\ Len(bridge'.wdata) = Len(bridge.wdata) + moved
  <2>1. CASE takes
    <3>1. bridge'.wdata = Append(bridge.wdata, word) /\ moved = 1 BY <1>2, <2>1
    <3>2. Queue(Append(bridge.wdata, word)) /\ Len(Append(bridge.wdata, word)) = Len(bridge.wdata) + 1
      BY <1>4, Appended, Zenon
    <3>. QED BY <3>1, <3>2, Zenon
  <2>2. CASE ~takes
    <3>1. bridge'.wdata = bridge.wdata /\ moved = 0 BY <1>2, <2>2
    <3>2. Len(bridge.wdata) = Len(bridge.wdata) + 0 BY <1>3
    <3>. QED BY <1>4, <3>1, <3>2, Zenon
  <2>. QED BY <2>1, <2>2
<1>10. Queue(bridge'.rdata) /\ Len(bridge'.rdata) = Len(bridge.rdata) - given
  BY <1>2, <1>3, <1>4, QueueMoves
<1>11. InTime' /\ Writes' = Writes /\ Reads' = Reads BY <1>1, Zenon DEF InTime, PortTyped, Writes, Reads
<1>12. PICK nw \in {0, 1}, nr \in {0, 1} :
         /\ Asks(master'.cmd, "write") = Asks(master.cmd, "write") - wsent + nw
         /\ Asks(master'.cmd, "read") = Asks(master.cmd, "read") - rsent + nr
         /\ Len(master'.wdata) = Len(master.wdata) - moved + nw
         /\ Len(master'.expect) = Len(master.expect) - (IF s.rdata # <<>> /\ master.expect # <<>> THEN 1 ELSE 0) + nr
         /\ nw + nr <= 1
         /\ nw + nr > 0 => Len(master.wdata) + Len(master.expect) < MaxCmds
  BY <1>6, Zenon DEF UserMoves
<1>13. gives => master.expect # <<>>
  <2>1. gives => Len(bridge.rdata) > 0 BY <1>3, <1>4, QueueMoves
  <2>2. Len(master.expect) = Asks(master.cmd, "read") + Count(bridge.cmd, "read") + Reads + Len(bridge.rdata)
    BY DEF CdcBooks
  <2>3. Len(master.expect) = 0 => ~gives BY <1>3, <2>1, <2>2
  <2>4. master.expect = <<>> => Len(master.expect) = 0 BY <1>4, QueueMoves DEF NativeTyped
  <2>. QED BY <2>3, <2>4, Zenon
<1>14. Len(master'.expect) = Len(master.expect) - given + nr
  BY <1>5, <1>12, <1>13
<1>15. moved \in {0, 1} /\ given \in {0, 1} /\ wsent \in {0, 1} /\ rsent \in {0, 1} /\ wsent <= Asks(master.cmd, "write")
  <2>1. moved \in {0, 1} /\ given \in {0, 1} OBVIOUS
  <2>2. wsent \in {0, Asks(master.cmd, "write")} /\ rsent \in {0, Asks(master.cmd, "read")} OBVIOUS
  <2>. HIDE DEF wsent, rsent, moved, given
  <2>. QED BY <1>3, <2>1, <2>2
<1>16. wsent = 1 /\ moved = 0 => Len(master.wdata) = 0 \/ (Len(bridge.cmd) < cmd_depth /\ Len(bridge.wdata) >= wdata_depth)
  <2>1. CASE wsent = 1 /\ moved = 0
    <3>1. s.cmd_ready BY <2>1
    <3>2. ~s.wdata_ready \/ master.wdata = <<>> BY <2>1
    <3>3. master.wdata = <<>> => Len(master.wdata) = 0 BY <1>4, QueueMoves DEF NativeTyped
    <3>4. ~(Len(bridge.wdata) < wdata_depth) => Len(bridge.wdata) >= wdata_depth BY <1>3, CdcAssumption, NativePortAssumption
    <3>. QED BY <1>5, <3>1, <3>2, <3>3, <3>4
  <2>. QED BY <2>1
<1>. HIDE DEF moved, given, wsent, rsent
<1>17. PICK aw \in Int, ar \in Int, cw \in Int, cr \in Int, w \in Int, r \in Int :
         /\ aw = Asks(master.cmd, "write") /\ ar = Asks(master.cmd, "read")
         /\ cw = Count(bridge.cmd, "write") /\ cr = Count(bridge.cmd, "read") /\ w = Writes /\ r = Reads
  <2>1. /\ Asks(master.cmd, "write") \in Int /\ Asks(master.cmd, "read") \in Int /\ Writes \in Int /\ Reads \in Int
        /\ Count(bridge.cmd, "write") \in Int /\ Count(bridge.cmd, "read") \in Int
    BY <1>3
  <2>. QED BY <2>1, Zenon
<1>18. PICK bw \in Int, br \in Int, mw \in Int, x \in Int, lc \in Int :
         /\ bw = Len(bridge.wdata) /\ br = Len(bridge.rdata) /\ mw = Len(master.wdata) /\ x = Len(master.expect)
         /\ lc = Len(bridge.cmd)
  <2>1. /\ Len(bridge.wdata) \in Int /\ Len(bridge.rdata) \in Int /\ Len(bridge.cmd) \in Int
        /\ Len(master.wdata) \in Int /\ Len(master.expect) \in Int
    BY <1>3
  <2>. QED BY <2>1, Zenon
<1>19. /\ aw + cw + w = bw + mw /\ cw + w <= bw /\ x = ar + cr + r + br /\ x <= MaxCmds
       /\ lc <= cmd_depth
  BY <1>17, <1>18, Zenon DEF CdcBooks
<1>20. /\ Asks(master'.cmd, "write") = aw - wsent + nw /\ Asks(master'.cmd, "read") = ar - rsent + nr
       /\ Count(bridge'.cmd, "write") = cw + wsent /\ Count(bridge'.cmd, "read") = cr + rsent
       /\ Writes' = w /\ Reads' = r
       /\ Len(bridge'.wdata) = bw + moved /\ Len(bridge'.rdata) = br - given
       /\ Len(master'.wdata) = mw - moved + nw /\ Len(master'.expect) = x - given + nr
  BY <1>8, <1>9, <1>10, <1>11, <1>12, <1>14, <1>17, <1>18, Zenon
<1>21. /\ aw \in Int /\ ar \in Int /\ cw \in Int /\ cr \in Int /\ w \in Int /\ r \in Int
       /\ bw \in Int /\ br \in Int /\ mw \in Int /\ x \in Int /\ lc \in Int
       /\ nw \in {0, 1} /\ nr \in {0, 1} /\ moved \in {0, 1} /\ given \in {0, 1} /\ wsent \in {0, 1} /\ rsent \in {0, 1}
  BY <1>12, <1>15, <1>17, <1>18
<1>22. (aw - wsent + nw) + (cw + wsent) + w = (bw + moved) + (mw - moved + nw) BY <1>19, <1>21
<1>23. x - given + nr = (ar - rsent + nr) + (cr + rsent) + r + (br - given) BY <1>19, <1>21
<1>24. x - given + nr <= MaxCmds
  <2>1. MaxCmds \in Int BY NativePortAssumption
  <2>2. x <= MaxCmds BY <1>19
  <2>3. mw >= 0 BY <1>3, <1>18
  <2>4. nr = 1 => mw + x < MaxCmds
    <3>1. nr = 1 => nw + nr > 0 BY <1>21
    <3>. QED BY <1>12, <1>18, <3>1, Zenon
  <2>. QED BY <1>21, <2>1, <2>2, <2>3, <2>4
<1>25. (cw + wsent) + w <= bw + moved
  <2>1. CASE wsent = 1 /\ moved = 0
    <3>1. /\ mw = 0 \/ (lc < cmd_depth /\ bw >= wdata_depth)
      BY <1>16, <1>18, <2>1
    <3>2. aw = 1 BY <1>3, <1>15, <1>17, <2>1
    <3>3. /\ cmd_depth \in Int /\ MaxCmds \in Int /\ wdata_depth \in Int /\ cmd_depth + MaxCmds <= wdata_depth
      BY CdcAssumption, NativePortAssumption
    <3>4. w <= MaxCmds /\ cw <= lc BY <1>3, <1>17, <1>18
    <3>. QED BY <1>19, <1>21, <2>1, <3>1, <3>2, <3>3, <3>4
  <2>2. CASE ~(wsent = 1 /\ moved = 0) BY <1>19, <1>21, <2>2
  <2>. QED BY <2>1, <2>2
<1>26. CdcTyped' BY <1>2, <1>7, <1>8, <1>9, <1>10 DEF CdcTyped
<1>. QED BY <1>8, <1>11, <1>20, <1>22, <1>23, <1>24, <1>25, <1>26, Zenon DEF CdcBooks

LEMMA CdcPortStep ==
    ASSUME InTime, CdcBooks, NEW e \in PortInputs, CdcPortTick(e)
    PROVE  InTime' /\ CdcBooks'
<1>. DEFINE first(q) == IF q = <<>> THEN <<>> ELSE <<Head(q)>>
            rest(q) == IF q = <<>> THEN <<>> ELSE Tail(q)
            room == Len(bridge.rdata) < rdata_depth
            o == [cmd |-> first(bridge.cmd), wdata |-> first(bridge.wdata), rdata_ready |-> room]
            leaving == IF e.ready /\ bridge.cmd # <<>> THEN 1 ELSE 0
            wsent == IF e.ready /\ o.cmd # <<>> /\ Head(o.cmd).we THEN 1 ELSE 0
            rsent == IF e.ready /\ o.cmd # <<>> /\ ~Head(o.cmd).we THEN 1 ELSE 0
            fetched == IF wdata_ready(e) THEN 1 ELSE 0
            came == IF e.ret THEN 1 ELSE 0
<1>1. /\ port' = PortNext(e, o) /\ master' = master
      /\ bridge' = [ cmd |-> IF e.ready THEN rest(bridge.cmd) ELSE bridge.cmd,
                     wdata |-> IF wdata_ready(e) THEN rest(bridge.wdata) ELSE bridge.wdata,
                     rdata |-> IF room THEN bridge.rdata \o rdata(e) ELSE bridge.rdata ]
  BY Zenon DEF CdcPortTick
<1>2. /\ {"cmd", "wdata", "rdata"} \subseteq DOMAIN bridge'
      /\ bridge'.cmd = IF e.ready THEN rest(bridge.cmd) ELSE bridge.cmd
      /\ bridge'.wdata = IF wdata_ready(e) THEN rest(bridge.wdata) ELSE bridge.wdata
      /\ bridge'.rdata = IF room THEN bridge.rdata \o rdata(e) ELSE bridge.rdata
  <2>. HIDE DEF rest, room
  <2>. QED BY <1>1
<1>3. /\ Writes \in Nat /\ Reads \in Nat /\ Writes <= MaxCmds
      /\ Asks(master.cmd, "write") \in {0, 1} /\ Asks(master.cmd, "read") \in {0, 1}
      /\ Len(bridge.cmd) \in Nat /\ Len(bridge.wdata) \in Nat /\ Len(bridge.rdata) \in Nat
      /\ Len(master.wdata) \in Nat /\ Len(master.expect) \in Nat
      /\ Count(bridge.cmd, "write") \in Nat /\ Count(bridge.cmd, "read") \in Nat
      /\ Count(bridge.cmd, "write") <= Len(bridge.cmd)
  BY CdcNumbers DEF Numbers
<1>4. NativeTyped /\ Queue(bridge.cmd) /\ Queue(bridge.wdata) /\ Queue(bridge.rdata) BY DEF CdcBooks, CdcTyped
<1>5. /\ wdata_ready(e) => Writes > 0
      /\ e.ret => Reads > 0
      /\ rdata(e) = IF e.ret THEN <<Head(port.returns)>> ELSE <<>>
  BY PortOwes DEF InTime, rdata
<1>6. /\ Len(bridge.cmd) <= cmd_depth
      /\ Asks(master.cmd, "write") + Count(bridge.cmd, "write") + Writes = Len(bridge.wdata) + Len(master.wdata)
      /\ Count(bridge.cmd, "write") + Writes <= Len(bridge.wdata)
      /\ Len(master.expect) = Asks(master.cmd, "read") + Count(bridge.cmd, "read") + Reads + Len(bridge.rdata)
      /\ Len(master.expect) <= MaxCmds
  BY DEF CdcBooks
<1>7. e.ret => room
  <2>1. MaxCmds \in Int /\ rdata_depth \in Int /\ MaxCmds <= rdata_depth BY CdcAssumption, NativePortAssumption
  <2>2. e.ret => Len(bridge.rdata) < Len(master.expect)
    <3>1. PICK a \in Int, c \in Int, r \in Int, b \in Int, x \in Int :
            /\ a = Asks(master.cmd, "read") /\ c = Count(bridge.cmd, "read") /\ r = Reads
            /\ b = Len(bridge.rdata) /\ x = Len(master.expect)
      <4>1. /\ Asks(master.cmd, "read") \in Int /\ Count(bridge.cmd, "read") \in Int /\ Reads \in Int
            /\ Len(bridge.rdata) \in Int /\ Len(master.expect) \in Int
        BY <1>3
      <4>. QED BY <4>1, Zenon
    <3>2. x = a + c + r + b BY <1>6, <3>1, Zenon
    <3>3. a >= 0 /\ c >= 0 /\ (e.ret => r > 0) BY <1>3, <1>5, <3>1
    <3>4. a \in Int /\ c \in Int /\ r \in Int /\ b \in Int /\ x \in Int BY <3>1
    <3>5. e.ret => b < x BY <3>2, <3>3, <3>4
    <3>. QED BY <3>1, <3>5, Zenon
  <2>. QED BY <1>3, <1>6, <2>1, <2>2
<1>8. wdata_ready(e) => bridge.wdata # <<>>
  <2>1. wdata_ready(e) => Len(bridge.wdata) > 0 BY <1>3, <1>5, <1>6
  <2>2. bridge.wdata = <<>> => Len(bridge.wdata) = 0 BY <1>4, QueueMoves
  <2>. QED BY <1>3, <2>1, <2>2
<1>9. /\ Single(o.cmd) /\ (o.cmd # <<>> <=> bridge.cmd # <<>>)
      /\ o.cmd # <<>> => Head(o.cmd) = Head(bridge.cmd)
      /\ wdata_ready(e) => o.wdata # <<>>
      /\ e.ret => o.rdata_ready
  <2>1. \A q : Single(first(q)) /\ (first(q) # <<>> <=> q # <<>>) /\ (q # <<>> => Head(first(q)) = Head(q))
    BY QueueMoves DEF Single
  <2>2. o.cmd = first(bridge.cmd) /\ o.wdata = first(bridge.wdata) /\ (o.rdata_ready <=> room) BY Zenon
  <2>. HIDE DEF first, o
  <2>. QED BY <1>7, <1>8, <2>1, <2>2
<1>. HIDE DEF first, o
<1>10. /\ InTime' /\ Writes' = Writes - fetched + wsent /\ Reads' = Reads - came + rsent
  BY <1>1, <1>9, Served, Zenon
<1>11. /\ Queue(bridge'.cmd) /\ Len(bridge'.cmd) = Len(bridge.cmd) - leaving
       /\ Count(bridge'.cmd, "write") = Count(bridge.cmd, "write") - wsent
       /\ Count(bridge'.cmd, "read") = Count(bridge.cmd, "read") - rsent
  <2>1. CASE e.ready /\ bridge.cmd # <<>>
    <3>1. bridge'.cmd = Tail(bridge.cmd) BY <1>2, <2>1
    <3>2. /\ Queue(Tail(bridge.cmd)) /\ Len(Tail(bridge.cmd)) = Len(bridge.cmd) - 1
          /\ Count(Tail(bridge.cmd), "write") = Count(bridge.cmd, "write") - IF Head(bridge.cmd).we THEN 1 ELSE 0
          /\ Count(Tail(bridge.cmd), "read") = Count(bridge.cmd, "read") - IF Head(bridge.cmd).we THEN 0 ELSE 1
      BY <1>4, <2>1, QueueMoves, Counting, Zenon
    <3>3. leaving = 1 BY <2>1
    <3>4. /\ wsent = (IF Head(bridge.cmd).we THEN 1 ELSE 0) 
          /\ rsent = (IF Head(bridge.cmd).we THEN 0 ELSE 1)
      BY <1>9, <2>1
    <3>. QED BY <3>1, <3>2, <3>3, <3>4, Zenon
  <2>2. CASE ~(e.ready /\ bridge.cmd # <<>>)
    <3>1. bridge'.cmd = bridge.cmd BY <1>2, <2>2
    <3>2. leaving = 0 /\ wsent = 0 /\ rsent = 0 BY <1>9, <2>2
    <3>. HIDE DEF leaving, wsent, rsent
    <3>. QED BY <1>3, <1>4, <3>1, <3>2
  <2>. QED BY <2>1, <2>2
<1>12. Queue(bridge'.wdata) /\ Len(bridge'.wdata) = Len(bridge.wdata) - fetched
  <2>1. CASE wdata_ready(e)
    <3>1. bridge'.wdata = Tail(bridge.wdata) /\ fetched = 1 BY <1>2, <1>8, <2>1
    <3>2. Queue(Tail(bridge.wdata)) /\ Len(Tail(bridge.wdata)) = Len(bridge.wdata) - 1
      BY <1>4, <1>8, <2>1, QueueMoves, Zenon
    <3>. QED BY <3>1, <3>2, Zenon
  <2>2. CASE ~wdata_ready(e)
    <3>1. bridge'.wdata = bridge.wdata /\ fetched = 0 BY <1>2, <2>2
    <3>2. Len(bridge.wdata) = Len(bridge.wdata) - 0 BY <1>3
    <3>. QED BY <1>4, <3>1, <3>2, Zenon
  <2>. QED BY <2>1, <2>2
<1>13. Queue(bridge'.rdata) /\ Len(bridge'.rdata) = Len(bridge.rdata) + came
  <2>0. PICK S : bridge.rdata \in Seq(S) BY <1>4 DEF Queue
  <2>1. CASE e.ret
    <3>1. bridge'.rdata = bridge.rdata \o <<Head(port.returns)>> /\ came = 1 BY <1>2, <1>5, <1>7, <2>1
    <3>2. ASSUME NEW x
          PROVE  Queue(bridge.rdata \o <<x>>) /\ Len(bridge.rdata \o <<x>>) = Len(bridge.rdata) + 1
      <4>1. Queue(<<x>>) /\ Len(<<x>>) = 1 BY QueueMoves, Zenon
      <4>2. Queue(bridge.rdata) BY <1>4
      <4>. QED BY <4>1, <4>2, QueueMoves, Zenon
    <3>. QED BY <3>1, <3>2, Zenon
  <2>2. CASE ~e.ret
    <3>1. bridge'.rdata = bridge.rdata /\ came = 0
      <4>1. bridge.rdata \o <<>> = bridge.rdata BY <2>0, ConcatEmptySeq
      <4>. QED BY <1>2, <1>5, <2>2, <4>1
    <3>2. Len(bridge.rdata) = Len(bridge.rdata) + 0 BY <1>3
    <3>. QED BY <1>4, <3>1, <3>2, Zenon
  <2>. QED BY <2>1, <2>2
<1>14. leaving \in {0, 1} /\ wsent \in {0, 1} /\ rsent \in {0, 1} /\ fetched \in {0, 1} /\ came \in {0, 1} OBVIOUS
<1>. HIDE DEF leaving, wsent, rsent, fetched, came, room
<1>15. PICK aw \in Int, ar \in Int, cw \in Int, cr \in Int, w \in Int, r \in Int :
         /\ aw = Asks(master.cmd, "write") /\ ar = Asks(master.cmd, "read")
         /\ cw = Count(bridge.cmd, "write") /\ cr = Count(bridge.cmd, "read") /\ w = Writes /\ r = Reads
  <2>1. /\ Asks(master.cmd, "write") \in Int /\ Asks(master.cmd, "read") \in Int /\ Writes \in Int /\ Reads \in Int
        /\ Count(bridge.cmd, "write") \in Int /\ Count(bridge.cmd, "read") \in Int
    BY <1>3
  <2>. QED BY <2>1, Zenon
<1>16. PICK bw \in Int, br \in Int, mw \in Int, x \in Int, lc \in Int :
         /\ bw = Len(bridge.wdata) /\ br = Len(bridge.rdata) /\ mw = Len(master.wdata) /\ x = Len(master.expect)
         /\ lc = Len(bridge.cmd)
  <2>1. /\ Len(bridge.wdata) \in Int /\ Len(bridge.rdata) \in Int /\ Len(bridge.cmd) \in Int
        /\ Len(master.wdata) \in Int /\ Len(master.expect) \in Int
    BY <1>3
  <2>. QED BY <2>1, Zenon
<1>17. /\ aw + cw + w = bw + mw /\ cw + w <= bw /\ x = ar + cr + r + br /\ x <= MaxCmds /\ lc <= cmd_depth
  BY <1>6, <1>15, <1>16, Zenon
<1>18. /\ Asks(master'.cmd, "write") = aw /\ Asks(master'.cmd, "read") = ar
       /\ Count(bridge'.cmd, "write") = cw - wsent /\ Count(bridge'.cmd, "read") = cr - rsent
       /\ Writes' = w - fetched + wsent /\ Reads' = r - came + rsent
       /\ Len(bridge'.wdata) = bw - fetched /\ Len(bridge'.rdata) = br + came
       /\ Len(master'.wdata) = mw /\ Len(master'.expect) = x /\ Len(bridge'.cmd) = lc - leaving
  BY <1>1, <1>10, <1>11, <1>12, <1>13, <1>15, <1>16, Zenon
<1>19. /\ aw \in Int /\ ar \in Int /\ cw \in Int /\ cr \in Int /\ w \in Int /\ r \in Int
       /\ bw \in Int /\ br \in Int /\ mw \in Int /\ x \in Int /\ lc \in Int
       /\ leaving \in Int /\ fetched \in Int /\ came \in Int /\ wsent \in Int /\ rsent \in Int /\ leaving >= 0
  BY <1>14, <1>15, <1>16
<1>20. /\ aw + (cw - wsent) + (w - fetched + wsent) = (bw - fetched) + mw
       /\ (cw - wsent) + (w - fetched + wsent) <= bw - fetched
       /\ x = ar + (cr - rsent) + (r - came + rsent) + (br + came)
  BY <1>17, <1>19
<1>21. lc - leaving <= cmd_depth
  <2>1. cmd_depth \in Int BY CdcAssumption
  <2>. QED BY <1>17, <1>19, <2>1
<1>22. CdcTyped'
  <2>1. NativeTyped' BY <1>1, <1>4, Zenon DEF NativeTyped
  <2>. QED BY <1>2, <1>11, <1>12, <1>13, <2>1, Zenon DEF CdcTyped
<1>. QED BY <1>10, <1>17, <1>18, <1>20, <1>21, <1>22, Zenon DEF CdcBooks

\* Its registers, and the request of its master.
AvTyped ==
    /\ {"state", "burst_count", "address", "writedata", "cmd_ready_seen", "cmd_ready_count", "cmd_fifo", "wdata_fifo"}
         \subseteq DOMAIN bridge
    /\ bridge.state \in {"START", "SINGLE_WRITE", "SINGLE_READ", "BURST_WRITE", "BURST_READ"}
    /\ Queue(bridge.cmd_fifo) /\ Queue(bridge.wdata_fifo)
    /\ {"req"} \subseteq DOMAIN master
    /\ master.req # <<>> => {"count"} \subseteq DOMAIN av /\ av.count \in Nat \ {0}

(* A single access is under way alone.  The data of a burst of writes is in  *)
(* its FIFO, one word for every command that waits or is under way; a burst  *)
(* of reads ends with the last of the words it asked for.                    *)
AvBooks ==
    /\ AvTyped
    /\ bridge.state # "BURST_WRITE" => bridge.cmd_fifo = <<>> /\ bridge.wdata_fifo = <<>>
    /\ bridge.state \in {"START", "SINGLE_READ", "BURST_READ"} => Writes = 0
    /\ bridge.state \in {"START", "SINGLE_WRITE", "BURST_WRITE"} => Reads = 0
    /\ bridge.state = "SINGLE_WRITE" => Writes = 1
    /\ bridge.state = "SINGLE_READ" => Reads = 1
    /\ bridge.state = "BURST_WRITE" => Len(bridge.wdata_fifo) = Len(bridge.cmd_fifo) + Writes
    /\ bridge.state = "BURST_READ" =>
          /\ bridge.cmd_ready_count \in Nat /\ (bridge.cmd_ready_seen <=> bridge.cmd_ready_count = 0)
          /\ bridge.burst_count = Reads + bridge.cmd_ready_count

\* The fields of the bridge in another state of it.
AvFields(b) ==
    {"state", "burst_count", "address", "writedata", "cmd_ready_seen", "cmd_ready_count", "cmd_fifo", "wdata_fifo"}
       \subseteq DOMAIN b

(* What an edge makes of the bridge, state by state.                         *)
LEMMA AvStartMoves ==
    ASSUME AvFields(bridge), bridge.state = "START", NEW i
    PROVE  LET n == AvNext(bridge, i)
           IN /\ AvFields(n) /\ n.cmd_fifo = bridge.cmd_fifo /\ n.wdata_fifo = bridge.wdata_fifo
              /\ n.state = IF ~(av_read \/ av_write) THEN "START"
                           ELSE IF av.count > 1 THEN (IF av_write THEN "BURST_WRITE" ELSE "BURST_READ")
                           ELSE IF i.cmd_ready THEN (IF av_write THEN "SINGLE_WRITE" ELSE "SINGLE_READ")
                           ELSE "START"
              /\ n.state = "BURST_READ" =>
                    n.cmd_ready_count = av.count /\ n.burst_count = av.count /\ ~n.cmd_ready_seen
<1>1. AvNext(bridge, i) = AvStart(bridge, i) BY DEF AvNext
<1>2. CASE ~(av_read \/ av_write)
  <2>1. AvNext(bridge, i) = [bridge EXCEPT !.cmd_ready_seen = FALSE] BY <1>1, <1>2 DEF AvStart
  <2>. QED BY <1>2, <2>1 DEF AvFields
<1>3. CASE av_read \/ av_write
  <2>. DEFINE latched == [bridge EXCEPT !.cmd_ready_seen = FALSE, !.burst_count = av.count,
                                        !.writedata = av.dat, !.address = av_address - address_offset]
  <2>1. /\ AvFields(latched) /\ latched.cmd_fifo = bridge.cmd_fifo /\ latched.wdata_fifo = bridge.wdata_fifo
        /\ latched.state = "START" /\ ~latched.cmd_ready_seen /\ latched.burst_count = av.count
    BY DEF AvFields
  <2>2. AvNext(bridge, i) =
          IF av.count > 1
          THEN IF av_write THEN [latched EXCEPT !.state = "BURST_WRITE"]
               ELSE [latched EXCEPT !.state = "BURST_READ", !.cmd_ready_count = av.count]
          ELSE IF i.cmd_ready THEN [latched EXCEPT !.state = IF av_write THEN "SINGLE_WRITE" ELSE "SINGLE_READ"]
          ELSE latched
    BY <1>1, <1>3, Zenon DEF AvStart
  <2>. HIDE DEF latched
  <2>3. CASE av.count > 1 /\ av_write
    <3>1. AvNext(bridge, i) = [latched EXCEPT !.state = "BURST_WRITE"] BY <2>2, <2>3
    <3>. QED BY <1>3, <2>1, <2>3, <3>1 DEF AvFields
  <2>4. CASE av.count > 1 /\ ~av_write
    <3>1. AvNext(bridge, i) = [latched EXCEPT !.state = "BURST_READ", !.cmd_ready_count = av.count] BY <2>2, <2>4
    <3>. QED BY <1>3, <2>1, <2>4, <3>1 DEF AvFields
  <2>5. CASE ~(av.count > 1) /\ i.cmd_ready
    <3>1. AvNext(bridge, i) = [latched EXCEPT !.state = IF av_write THEN "SINGLE_WRITE" ELSE "SINGLE_READ"] BY <2>2, <2>5
    <3>. QED BY <1>3, <2>1, <2>5, <3>1 DEF AvFields
  <2>6. CASE ~(av.count > 1) /\ ~i.cmd_ready
    <3>1. AvNext(bridge, i) = latched BY <2>2, <2>6
    <3>. QED BY <1>3, <2>1, <2>6, <3>1 DEF AvFields
  <2>. QED BY <2>3, <2>4, <2>5, <2>6
<1>. QED BY <1>2, <1>3

LEMMA AvSingleMoves ==
    ASSUME AvFields(bridge), NEW i
    PROVE  LET n == AvNext(bridge, i)
           IN /\ bridge.state = "SINGLE_WRITE" =>
                   /\ AvFields(n) /\ n.cmd_fifo = bridge.cmd_fifo /\ n.wdata_fifo = bridge.wdata_fifo
                   /\ n.state = IF i.wdata_ready THEN "START" ELSE "SINGLE_WRITE"
              /\ bridge.state = "SINGLE_READ" =>
                   /\ AvFields(n) /\ n.cmd_fifo = bridge.cmd_fifo /\ n.wdata_fifo = bridge.wdata_fifo
                   /\ n.state = IF i.rdata # <<>> THEN "START" ELSE "SINGLE_READ"
<1>1. bridge.state = "SINGLE_WRITE" =>
        AvNext(bridge, i) = IF i.wdata_ready THEN [bridge EXCEPT !.state = "START"] ELSE bridge
  BY DEF AvNext
<1>2. bridge.state = "SINGLE_READ" =>
        AvNext(bridge, i) = IF i.rdata # <<>> THEN [bridge EXCEPT !.state = "START"] ELSE bridge
  BY DEF AvNext
<1>. QED BY <1>1, <1>2 DEF AvFields

LEMMA AvReadMoves ==
    ASSUME AvFields(bridge), bridge.state = "BURST_READ", NEW i
    PROVE  LET n == AvNext(bridge, i)
               more == i.cmd_ready /\ ~bridge.cmd_ready_seen
           IN /\ AvFields(n) /\ n.cmd_fifo = bridge.cmd_fifo /\ n.wdata_fifo = bridge.wdata_fifo
              /\ n.state = IF i.rdata # <<>> /\ bridge.burst_count = 1 THEN "START" ELSE "BURST_READ"
              /\ n.burst_count = IF i.rdata # <<>> THEN bridge.burst_count - 1 ELSE bridge.burst_count
              /\ n.cmd_ready_count = IF more THEN bridge.cmd_ready_count - 1 ELSE bridge.cmd_ready_count
              /\ n.cmd_ready_seen <=> IF more THEN bridge.cmd_ready_count = 1 ELSE bridge.cmd_ready_seen
<1>. DEFINE more == i.cmd_ready /\ ~bridge.cmd_ready_seen
            c == IF more THEN [bridge EXCEPT !.cmd_ready_seen = (bridge.cmd_ready_count = 1),
                                             !.cmd_ready_count = @ - 1, !.address = @ + 1]
                 ELSE bridge
<1>1. /\ AvFields(c) /\ c.cmd_fifo = bridge.cmd_fifo /\ c.wdata_fifo = bridge.wdata_fifo
      /\ c.state = "BURST_READ" /\ c.burst_count = bridge.burst_count
      /\ c.cmd_ready_count = IF more THEN bridge.cmd_ready_count - 1 ELSE bridge.cmd_ready_count
      /\ c.cmd_ready_seen <=> IF more THEN bridge.cmd_ready_count = 1 ELSE bridge.cmd_ready_seen
  <2>1. CASE more BY <2>1 DEF AvFields
  <2>2. CASE ~more BY <2>2 DEF AvFields
  <2>. QED BY <2>1, <2>2, Zenon
<1>2. AvNext(bridge, i) =
        IF i.rdata = <<>> THEN c
        ELSE [c EXCEPT !.burst_count = @ - 1, !.state = IF bridge.burst_count = 1 THEN "START" ELSE @]
  <2>1. AvNext(bridge, i) = AvBurstRead(bridge, i) BY DEF AvNext
  <2>. QED BY <2>1, Zenon DEF AvBurstRead
<1>. HIDE DEF c, more
<1>3. CASE i.rdata = <<>> BY <1>1, <1>2, <1>3 DEF more
<1>4. CASE i.rdata # <<>>
  <2>1. AvNext(bridge, i) = [c EXCEPT !.burst_count = @ - 1, !.state = IF bridge.burst_count = 1 THEN "START" ELSE @]
    BY <1>2, <1>4
  <2>. QED BY <1>1, <1>4, <2>1 DEF AvFields, more
<1>. QED BY <1>3, <1>4

LEMMA AvWriteMoves ==
    ASSUME AvFields(bridge), bridge.state = "BURST_WRITE", NEW i, Queue(bridge.cmd_fifo), Queue(bridge.wdata_fifo)
    PROVE  LET n == AvNext(bridge, i)
           IN /\ AvFields(n) /\ Queue(n.cmd_fifo) /\ Queue(n.wdata_fifo)
              /\ \E p \in {0, 1} :
                   /\ Len(n.cmd_fifo) = Len(bridge.cmd_fifo) - (IF i.cmd_ready /\ bridge.cmd_fifo # <<>> THEN 1 ELSE 0) + p
                   /\ Len(n.wdata_fifo) = Len(bridge.wdata_fifo)
                                          - (IF i.wdata_ready /\ bridge.wdata_fifo # <<>> THEN 1 ELSE 0) + p
              /\ \/ n.state = "BURST_WRITE"
                 \/ /\ n.state = "START" /\ i.wdata_ready
                    /\ Len(bridge.cmd_fifo) = 0 /\ Len(bridge.wdata_fifo) = 1
                    /\ n.cmd_fifo = <<>> /\ n.wdata_fifo = <<>>
<1>. DEFINE pop(q, by) == IF by /\ q # <<>> THEN Tail(q) ELSE q
            cq == pop(bridge.cmd_fifo, i.cmd_ready)
            wq == pop(bridge.wdata_fifo, i.wdata_ready)
            c == [bridge EXCEPT !.cmd_fifo = cq, !.wdata_fifo = wq]
            n == AvNext(bridge, i)
<1>1. n = AvBurstWrite(bridge, i) BY DEF AvNext
<1>2. n = IF BeatPushed(bridge)
          THEN [c EXCEPT !.burst_count = @ - 1, !.address = @ + 1,
                         !.cmd_fifo = Append(@, bridge.address), !.wdata_fifo = Append(@, av.dat)]
          ELSE IF BurstWritten(bridge, i) THEN [c EXCEPT !.state = "START"] ELSE c
  BY <1>1, Zenon DEF AvBurstWrite
<1>3. /\ Queue(cq) /\ Len(cq) = Len(bridge.cmd_fifo) - (IF i.cmd_ready /\ bridge.cmd_fifo # <<>> THEN 1 ELSE 0)
      /\ Queue(wq) /\ Len(wq) = Len(bridge.wdata_fifo) - (IF i.wdata_ready /\ bridge.wdata_fifo # <<>> THEN 1 ELSE 0)
      /\ Len(cq) \in Nat /\ Len(wq) \in Nat
  BY QueueMoves
<1>4. AvFields(c) /\ c.cmd_fifo = cq /\ c.wdata_fifo = wq /\ c.state = "BURST_WRITE"
  <2>. HIDE DEF cq, wq
  <2>. QED BY DEF AvFields
<1>. HIDE DEF c, n, cq, wq
<1>5. ASSUME BeatPushed(bridge)
      PROVE  /\ AvFields(n) /\ Queue(n.cmd_fifo) /\ Queue(n.wdata_fifo) /\ n.state = "BURST_WRITE"
             /\ Len(n.cmd_fifo) = Len(cq) + 1 /\ Len(n.wdata_fifo) = Len(wq) + 1
  <2>1. n = [c EXCEPT !.burst_count = @ - 1, !.address = @ + 1,
                      !.cmd_fifo = Append(@, bridge.address), !.wdata_fifo = Append(@, av.dat)]
    BY <1>2, <1>5, Zenon
  <2>2. /\ AvFields(n) /\ n.state = "BURST_WRITE"
        /\ n.cmd_fifo = Append(cq, bridge.address) /\ n.wdata_fifo = Append(wq, av.dat)
    BY <1>4, <2>1 DEF AvFields
  <2>. QED BY <1>3, <2>2, Appended
<1>6. ASSUME ~BeatPushed(bridge), BurstWritten(bridge, i)
      PROVE  /\ AvFields(n) /\ n.cmd_fifo = cq /\ n.wdata_fifo = wq /\ n.state = "START"
             /\ i.wdata_ready /\ Len(bridge.cmd_fifo) = 0 /\ Len(bridge.wdata_fifo) = 1
             /\ n.cmd_fifo = <<>> /\ n.wdata_fifo = <<>>
  <2>1. n = [c EXCEPT !.state = "START"] BY <1>2, <1>6, Zenon
  <2>2. AvFields(n) /\ n.cmd_fifo = cq /\ n.wdata_fifo = wq /\ n.state = "START" BY <1>4, <2>1 DEF AvFields
  <2>3. i.wdata_ready /\ Len(bridge.cmd_fifo) = 0 /\ Len(bridge.wdata_fifo) = 1 BY <1>6, Zenon DEF BurstWritten
  <2>4. cq = <<>> /\ wq = <<>>
    <3>1. bridge.cmd_fifo = <<>> /\ bridge.wdata_fifo # <<>> BY <2>3, QueueMoves
    <3>2. Len(cq) = 0 /\ Len(wq) = 0 BY <1>3, <2>3, <3>1
    <3>. QED BY <1>3, <3>2, QueueMoves
  <2>. QED BY <2>2, <2>3, <2>4
<1>7. ASSUME ~BeatPushed(bridge), ~BurstWritten(bridge, i)
      PROVE  AvFields(n) /\ n.cmd_fifo = cq /\ n.wdata_fifo = wq /\ n.state = "BURST_WRITE"
  <2>1. n = c BY <1>2, <1>7, Zenon
  <2>. QED BY <1>4, <2>1
<1>8. Len(cq) = Len(cq) + 0 /\ Len(wq) = Len(wq) + 0 BY <1>3
<1>. QED BY <1>3, <1>5, <1>6, <1>7, <1>8, Zenon DEF n

(* What the bridge drives, state by state.                                   *)
LEMMA AvCommands ==
    ASSUME AvTyped
    PROVE  LET o == AvDrives(bridge)
               wc == o.cmd # <<>> /\ Head(o.cmd).we
               rc == o.cmd # <<>> /\ ~Head(o.cmd).we
           IN /\ Single(o.cmd)
              /\ bridge.state = "START" => /\ wc <=> av_write /\ av.count = 1
                                           /\ rc <=> av_read /\ av.count = 1
              /\ bridge.state \in {"SINGLE_WRITE", "SINGLE_READ"} => o.cmd = <<>>
              /\ bridge.state = "BURST_WRITE" => /\ wc <=> bridge.cmd_fifo # <<>> /\ bridge.wdata_fifo # <<>>
                                                 /\ ~rc
              /\ bridge.state = "BURST_READ" => ~wc /\ (rc <=> ~bridge.cmd_ready_seen)
              /\ bridge.state = "SINGLE_WRITE" => o.wdata # <<>>
              /\ bridge.state = "BURST_WRITE" /\ bridge.wdata_fifo # <<>> => o.wdata # <<>>
              /\ bridge.state \in {"SINGLE_READ", "BURST_READ"} => o.rdata_ready
<1>. DEFINE o == AvDrives(bridge)
            wc == o.cmd # <<>> /\ Head(o.cmd).we
            rc == o.cmd # <<>> /\ ~Head(o.cmd).we
<1>0. /\ \A x, y : LET q == <<[we |-> x, addr |-> y]>> IN Single(q) /\ q # <<>> /\ Head(q).we = x
      /\ Single(<<>>)
  BY DEF Single
<1>1. CASE bridge.state = "START"
  <2>1. o.cmd = IF (av_read \/ av_write) /\ av.count = 1
                THEN <<[we |-> av_write, addr |-> av_address - address_offset]>> ELSE <<>>
    BY <1>1 DEF AvDrives
  <2>2. (av_read \/ av_write) /\ ~av_write <=> av_read BY DEF av_read, av_write
  <2>3. Single(o.cmd) /\ (wc <=> (av_read \/ av_write) /\ av.count = 1 /\ av_write)
        /\ (rc <=> (av_read \/ av_write) /\ av.count = 1 /\ ~av_write)
    <3>. HIDE DEF o
    <3>. QED BY <1>0, <2>1
  <2>. QED BY <1>1, <2>2, <2>3
<1>2. CASE bridge.state \in {"SINGLE_WRITE", "SINGLE_READ"}
  <2>1. o.cmd = <<>> /\ (bridge.state = "SINGLE_WRITE" => o.wdata # <<>>)
        /\ (bridge.state = "SINGLE_READ" => o.rdata_ready)
    BY <1>2, QueueMoves DEF AvDrives
  <2>. QED BY <1>0, <1>2, <2>1
<1>3. CASE bridge.state = "BURST_WRITE"
  <2>1. o.cmd = IF bridge.cmd_fifo # <<>> /\ bridge.wdata_fifo # <<>>
                THEN <<[we |-> TRUE, addr |-> Head(bridge.cmd_fifo)]>> ELSE <<>>
    BY <1>3 DEF AvDrives
  <2>2. bridge.wdata_fifo # <<>> => o.wdata # <<>>  BY <1>3, QueueMoves DEF AvDrives
  <2>3. \A q : q = <<[we |-> TRUE, addr |-> Head(bridge.cmd_fifo)]>> => Single(q) /\ q # <<>> /\ Head(q).we
    BY <1>0
  <2>. HIDE DEF o
  <2>4. CASE bridge.cmd_fifo # <<>> /\ bridge.wdata_fifo # <<>>
    <3>1. Single(o.cmd) /\ o.cmd # <<>> /\ Head(o.cmd).we BY <2>1, <2>3, <2>4
    <3>. QED BY <1>3, <2>2, <2>4, <3>1 DEF o
  <2>5. CASE ~(bridge.cmd_fifo # <<>> /\ bridge.wdata_fifo # <<>>)
    <3>1. Single(o.cmd) /\ o.cmd = <<>> BY <1>0, <2>1, <2>5
    <3>. QED BY <1>3, <2>2, <2>5, <3>1 DEF o
  <2>. QED BY <2>4, <2>5
<1>4. CASE bridge.state = "BURST_READ"
  <2>1. o.cmd = IF ~bridge.cmd_ready_seen THEN <<[we |-> FALSE, addr |-> bridge.address]>> ELSE <<>>
    BY <1>4 DEF AvDrives
  <2>2. o.rdata_ready BY <1>4 DEF AvDrives
  <2>3. \A q : q = <<[we |-> FALSE, addr |-> bridge.address]>> => Single(q) /\ q # <<>> /\ ~Head(q).we
    BY <1>0
  <2>. HIDE DEF o
  <2>4. CASE ~bridge.cmd_ready_seen
    <3>1. Single(o.cmd) /\ o.cmd # <<>> /\ ~Head(o.cmd).we BY <2>1, <2>3, <2>4
    <3>. QED BY <1>4, <2>2, <2>4, <3>1 DEF o
  <2>5. CASE bridge.cmd_ready_seen
    <3>1. Single(o.cmd) /\ o.cmd = <<>> BY <1>0, <2>1, <2>5
    <3>. QED BY <1>4, <2>2, <2>5, <3>1 DEF o
  <2>. QED BY <2>4, <2>5
<1>. QED BY <1>1, <1>2, <1>3, <1>4 DEF AvTyped

(* The master asks for a beat or more.                                       *)
LEMMA AvRequested ==
    ASSUME AvTyped, NEW i, NEW next \in AvMoves(AvTaken(bridge, i)), master'.req = next
    PROVE  master'.req # <<>> => {"count"} \subseteq DOMAIN av' /\ av'.count \in Nat \ {0}
<1>. DEFINE Goal == {"count"} \subseteq DOMAIN av' /\ av'.count \in Nat \ {0}
            beats == \E d, t : next = <<[av EXCEPT !.beat = t, !.dat = d]>>
<1>1. next = master.req \/ next = <<>> \/ (master.req # <<>> /\ beats) \/ \E r \in AvRequests : next = <<r>>
  BY DEF AvMoves, AvTaken
<1>2. next = master.req => (next # <<>> => Goal) BY DEF AvTyped, av
<1>4. ASSUME master.req # <<>>, beats PROVE Goal
  <2>1. PICK d, t : next = <<[av EXCEPT !.beat = t, !.dat = d]>> BY <1>4, Zenon
  <2>2. av' = [av EXCEPT !.beat = t, !.dat = d] BY <2>1, QueueMoves DEF av
  <2>. QED BY <1>4, <2>2 DEF AvTyped
<1>5. ASSUME NEW r \in AvRequests, next = <<r>> PROVE Goal
  <2>1. av' = r BY <1>5, QueueMoves DEF av
  <2>2. {"count"} \subseteq DOMAIN r /\ r.count \in 1 .. max_burst_length BY DEF AvRequests
  <2>3. r.count \in Nat \ {0} BY <2>2
  <2>. QED BY <2>1, <2>2, <2>3
<1>. HIDE DEF Goal, beats
<1>6. next # <<>> => Goal BY <1>1, <1>2, <1>4, <1>5, Zenon
<1>. QED BY <1>6, Zenon DEF Goal

LEMMA AvStep ==
    ASSUME InTime, AvBooks, NEW e \in PortInputs, AvUserTick(e)
    PROVE  InTime' /\ AvBooks'
<1>. DEFINE i == Seen(e)
            o == AvDrives(bridge)
            wc == o.cmd # <<>> /\ Head(o.cmd).we
            rc == o.cmd # <<>> /\ ~Head(o.cmd).we
<1>1. PICK next \in AvMoves(AvTaken(bridge, i)) :
        /\ port' = PortNext(e, o) /\ bridge' = AvNext(bridge, i)
        /\ master'.req = next /\ DOMAIN master' = DOMAIN master
  <2>1. PICK next \in AvMoves(AvTaken(bridge, i)) :
          /\ port' = PortNext(e, o) /\ bridge' = AvNext(bridge, i)
          /\ master' = AvMasterNext(AvTaken(bridge, i), readdata(bridge, i), next)
    BY Zenon DEF AvUserTick
  <2>2. master'.req = next /\ DOMAIN master' = DOMAIN master BY <2>1 DEF AvMasterNext, AvBooks, AvTyped
  <2>. QED BY <2>1, <2>2, Zenon
<1>2. /\ i.wdata_ready <=> wdata_ready(e)
      /\ i.cmd_ready <=> e.ready
      /\ i.rdata # <<>> <=> e.ret
  BY DEF Seen, rdata
<1>3. AvTyped BY DEF AvBooks
<1>4. AvFields(bridge) /\ Queue(bridge.cmd_fifo) /\ Queue(bridge.wdata_fifo) BY <1>3 DEF AvTyped, AvFields
<1>5. /\ Writes \in Nat /\ Reads \in Nat /\ (wdata_ready(e) => Writes > 0) /\ (e.ret => Reads > 0)
      /\ Len(bridge.cmd_fifo) \in Nat /\ Len(bridge.wdata_fifo) \in Nat
      /\ (bridge.wdata_fifo = <<>> <=> Len(bridge.wdata_fifo) = 0)
      /\ (bridge.cmd_fifo = <<>> <=> Len(bridge.cmd_fifo) = 0)
  BY <1>4, PortOwes, QueueMoves DEF InTime
<1>6. /\ Single(o.cmd)
      /\ bridge.state = "START" => (wc <=> av_write /\ av.count = 1) /\ (rc <=> av_read /\ av.count = 1)
      /\ bridge.state \in {"SINGLE_WRITE", "SINGLE_READ"} => o.cmd = <<>>
      /\ bridge.state = "BURST_WRITE" => (wc <=> bridge.cmd_fifo # <<>> /\ bridge.wdata_fifo # <<>>) /\ ~rc
      /\ bridge.state = "BURST_READ" => ~wc /\ (rc <=> ~bridge.cmd_ready_seen)
      /\ bridge.state = "SINGLE_WRITE" => o.wdata # <<>>
      /\ bridge.state = "BURST_WRITE" /\ bridge.wdata_fifo # <<>> => o.wdata # <<>>
      /\ bridge.state \in {"SINGLE_READ", "BURST_READ"} => o.rdata_ready
  BY <1>3, AvCommands, Zenon
<1>7. /\ bridge.state \in {"START", "SINGLE_WRITE", "SINGLE_READ", "BURST_WRITE", "BURST_READ"}
      /\ bridge.state # "BURST_WRITE" => bridge.cmd_fifo = <<>> /\ bridge.wdata_fifo = <<>>
      /\ bridge.state \in {"START", "SINGLE_READ", "BURST_READ"} => Writes = 0
      /\ bridge.state \in {"START", "SINGLE_WRITE", "BURST_WRITE"} => Reads = 0
      /\ bridge.state = "SINGLE_WRITE" => Writes = 1
      /\ bridge.state = "SINGLE_READ" => Reads = 1
      /\ bridge.state = "BURST_WRITE" => Len(bridge.wdata_fifo) = Len(bridge.cmd_fifo) + Writes
      /\ bridge.state = "BURST_READ" =>
            /\ bridge.cmd_ready_count \in Nat /\ (bridge.cmd_ready_seen <=> bridge.cmd_ready_count = 0)
            /\ bridge.burst_count = Reads + bridge.cmd_ready_count
  BY DEF AvBooks, AvTyped
<1>. HIDE DEF o
<1>8. wdata_ready(e) => o.wdata # <<>>
  <2>1. ASSUME wdata_ready(e), bridge.state = "BURST_WRITE" PROVE bridge.wdata_fifo # <<>>
    <3>1. Writes > 0 /\ Len(bridge.wdata_fifo) = Len(bridge.cmd_fifo) + Writes BY <1>5, <1>7, <2>1
    <3>. QED BY <1>5, <3>1
  <2>2. wdata_ready(e) => bridge.state \in {"SINGLE_WRITE", "BURST_WRITE"} BY <1>5, <1>7
  <2>. QED BY <1>6, <2>1, <2>2
<1>9. e.ret => o.rdata_ready
  <2>1. e.ret => bridge.state \in {"SINGLE_READ", "BURST_READ"} BY <1>5, <1>7
  <2>. QED BY <1>6, <2>1
<1>. DEFINE fetched == IF wdata_ready(e) THEN 1 ELSE 0
            came == IF e.ret THEN 1 ELSE 0
            wsent == IF e.ready /\ wc THEN 1 ELSE 0
            rsent == IF e.ready /\ rc THEN 1 ELSE 0
<1>10. InTime' /\ Writes' = Writes - fetched + wsent /\ Reads' = Reads - came + rsent
  BY <1>1, <1>6, <1>8, <1>9, Served, Zenon
<1>11. master'.req # <<>> => {"count"} \subseteq DOMAIN av' /\ av'.count \in Nat \ {0}
  BY <1>1, <1>3, AvRequested, Zenon
<1>12. {"req"} \subseteq DOMAIN master' BY <1>1, <1>3 DEF AvTyped
<1>. HIDE DEF i
<1>13. ASSUME AvFields(bridge'), Queue(bridge'.cmd_fifo), Queue(bridge'.wdata_fifo),
              bridge'.state \in {"START", "SINGLE_WRITE", "SINGLE_READ", "BURST_WRITE", "BURST_READ"}
       PROVE  AvTyped'
  BY <1>11, <1>12, <1>13, Zenon DEF AvTyped, AvFields
<1>14. CASE bridge.state = "START"
  <2>1. /\ AvFields(bridge') /\ bridge'.cmd_fifo = bridge.cmd_fifo /\ bridge'.wdata_fifo = bridge.wdata_fifo
        /\ bridge'.state = IF ~(av_read \/ av_write) THEN "START"
                           ELSE IF av.count > 1 THEN (IF av_write THEN "BURST_WRITE" ELSE "BURST_READ")
                           ELSE IF i.cmd_ready THEN (IF av_write THEN "SINGLE_WRITE" ELSE "SINGLE_READ")
                           ELSE "START"
        /\ bridge'.state = "BURST_READ" =>
              bridge'.cmd_ready_count = av.count /\ bridge'.burst_count = av.count /\ ~bridge'.cmd_ready_seen
    BY <1>1, <1>4, <1>14, AvStartMoves
  <2>2. (av_read => ~av_write) /\ (av_read \/ av_write => av.count \in Nat \ {0})
    BY <1>3 DEF AvTyped, av_read, av_write
  <2>3. av_read \/ av_write => (av.count > 1 <=> ~(av.count = 1)) BY <2>2
  <2>4. fetched = 0 /\ came = 0 /\ Writes = 0 /\ Reads = 0 BY <1>5, <1>7, <1>14
  <2>5. Writes' = wsent /\ Reads' = rsent BY <1>10, <2>4
  <2>6. wc <=> av_write /\ av.count = 1 BY <1>6, <1>14
  <2>7. rc <=> av_read /\ av.count = 1 BY <1>6, <1>14
  <2>. HIDE DEF wc, rc
  <2>8. /\ wsent = IF bridge'.state = "SINGLE_WRITE" THEN 1 ELSE 0
        /\ rsent = IF bridge'.state = "SINGLE_READ" THEN 1 ELSE 0
    BY <1>2, <2>1, <2>2, <2>3, <2>6, <2>7
  <2>9. bridge'.cmd_fifo = <<>> /\ bridge'.wdata_fifo = <<>> /\ Len(<<>>) = 0 BY <1>7, <1>14, <2>1
  <2>10. bridge'.state \in {"START", "SINGLE_WRITE", "SINGLE_READ", "BURST_WRITE", "BURST_READ"} BY <2>1
  <2>11. AvTyped' BY <1>4, <1>13, <2>1, <2>10
  <2>12. bridge'.state = "BURST_READ" => av.count \in Nat \ {0} BY <2>1, <2>2
  <2>. QED BY <1>10, <2>1, <2>5, <2>8, <2>9, <2>10, <2>11, <2>12 DEF AvBooks
<1>15. CASE bridge.state = "SINGLE_WRITE"
  <2>1. /\ AvFields(bridge') /\ bridge'.cmd_fifo = bridge.cmd_fifo /\ bridge'.wdata_fifo = bridge.wdata_fifo
        /\ bridge'.state = IF i.wdata_ready THEN "START" ELSE "SINGLE_WRITE"
    BY <1>1, <1>4, <1>15, AvSingleMoves
  <2>2. /\ Writes' = 1 - fetched /\ Reads' = 0 BY <1>5, <1>6, <1>7, <1>10, <1>15
  <2>3. AvTyped' BY <1>4, <1>13, <2>1
  <2>. QED BY <1>2, <1>7, <1>10, <1>15, <2>1, <2>2, <2>3 DEF AvBooks
<1>16. CASE bridge.state = "SINGLE_READ"
  <2>1. /\ AvFields(bridge') /\ bridge'.cmd_fifo = bridge.cmd_fifo /\ bridge'.wdata_fifo = bridge.wdata_fifo
        /\ bridge'.state = IF i.rdata # <<>> THEN "START" ELSE "SINGLE_READ"
    BY <1>1, <1>4, <1>16, AvSingleMoves
  <2>2. /\ Reads' = 1 - came /\ Writes' = 0 BY <1>5, <1>6, <1>7, <1>10, <1>16
  <2>3. AvTyped' BY <1>4, <1>13, <2>1
  <2>. QED BY <1>2, <1>7, <1>10, <1>16, <2>1, <2>2, <2>3 DEF AvBooks
<1>17. CASE bridge.state = "BURST_WRITE"
  <2>1. /\ AvFields(bridge') /\ Queue(bridge'.cmd_fifo) /\ Queue(bridge'.wdata_fifo)
        /\ \E p \in {0, 1} :
             /\ Len(bridge'.cmd_fifo) = Len(bridge.cmd_fifo) - (IF i.cmd_ready /\ bridge.cmd_fifo # <<>> THEN 1 ELSE 0) + p
             /\ Len(bridge'.wdata_fifo) = Len(bridge.wdata_fifo)
                                    - (IF i.wdata_ready /\ bridge.wdata_fifo # <<>> THEN 1 ELSE 0) + p
        /\ \/ bridge'.state = "BURST_WRITE"
           \/ /\ bridge'.state = "START" /\ i.wdata_ready
              /\ Len(bridge.cmd_fifo) = 0 /\ Len(bridge.wdata_fifo) = 1
              /\ bridge'.cmd_fifo = <<>> /\ bridge'.wdata_fifo = <<>>
    BY <1>1, <1>4, <1>17, AvWriteMoves
  <2>2. PICK p \in {0, 1} :
             /\ Len(bridge'.cmd_fifo) = Len(bridge.cmd_fifo) - (IF i.cmd_ready /\ bridge.cmd_fifo # <<>> THEN 1 ELSE 0) + p
             /\ Len(bridge'.wdata_fifo) = Len(bridge.wdata_fifo)
                                    - (IF i.wdata_ready /\ bridge.wdata_fifo # <<>> THEN 1 ELSE 0) + p
    BY <2>1, Zenon
  <2>3. Reads = 0 /\ Len(bridge.wdata_fifo) = Len(bridge.cmd_fifo) + Writes BY <1>7, <1>17
  <2>4. bridge.cmd_fifo # <<>> => bridge.wdata_fifo # <<>> BY <1>5, <2>3
  <2>5. wsent = (IF i.cmd_ready /\ bridge.cmd_fifo # <<>> THEN 1 ELSE 0) /\ rsent = 0
    BY <1>2, <1>6, <1>17, <2>4
  <2>6. came = 0 /\ fetched = (IF i.wdata_ready /\ bridge.wdata_fifo # <<>> THEN 1 ELSE 0)
    <3>1. wdata_ready(e) => bridge.wdata_fifo # <<>>
      <4>1. wdata_ready(e) => Len(bridge.wdata_fifo) > 0 BY <1>5, <2>3
      <4>. QED BY <1>5, <4>1
    <3>. QED BY <1>2, <1>5, <2>3, <3>1
  <2>7. fetched \in {0, 1} /\ wsent \in {0, 1} OBVIOUS
  <2>. HIDE DEF wsent, rsent, came, fetched
  <2>8. Reads' = 0 BY <1>10, <2>3, <2>5, <2>6
  <2>9. Len(bridge'.wdata_fifo) = Len(bridge'.cmd_fifo) + Writes'
    <3>1. PICK c \in Int, w \in Int, l \in Int :
            c = Len(bridge.cmd_fifo) /\ w = Writes /\ l = Len(bridge.wdata_fifo)
      <4>1. Len(bridge.cmd_fifo) \in Int /\ Writes \in Int /\ Len(bridge.wdata_fifo) \in Int BY <1>5
      <4>. QED BY <4>1, Zenon
    <3>2. /\ Len(bridge'.cmd_fifo) = c - wsent + p /\ Len(bridge'.wdata_fifo) = l - fetched + p
          /\ Writes' = w - fetched + wsent
      BY <1>10, <2>2, <2>5, <2>6, <3>1, Zenon
    <3>3. l = c + w BY <2>3, <3>1, Zenon
    <3>4. l - fetched + p = (c - wsent + p) + (w - fetched + wsent)
      <4>1. c \in Int /\ w \in Int /\ l \in Int /\ p \in Int /\ fetched \in Int /\ wsent \in Int BY <2>2, <2>7, <3>1
      <4>. QED BY <3>3, <4>1
    <3>. QED BY <3>2, <3>4, Zenon
  <2>10. CASE bridge'.state = "BURST_WRITE"
    <3>1. AvTyped' BY <1>13, <2>1, <2>10
    <3>. QED BY <1>10, <2>8, <2>9, <2>10, <3>1 DEF AvBooks
  <2>11. CASE bridge'.state = "START"
    <3>1. AvTyped' BY <1>13, <2>1, <2>11
    <3>2. bridge'.cmd_fifo = <<>> /\ bridge'.wdata_fifo = <<>> BY <2>1, <2>11
    <3>3. Writes' = 0
      <4>1. Len(bridge.cmd_fifo) = 0 /\ Len(bridge.wdata_fifo) = 1 /\ i.wdata_ready BY <2>1, <2>11
      <4>2. bridge.cmd_fifo = <<>> /\ bridge.wdata_fifo # <<>> BY <1>5, <4>1
      <4>3. fetched = 1 /\ wsent = 0 BY <2>5, <2>6, <4>1, <4>2
      <4>5. Writes = 1
        <5>1. 1 = 0 + Writes BY <2>3, <4>1, Zenon
        <5>2. Writes \in Nat BY <1>5
        <5>. QED BY <5>1, <5>2
      <4>. QED BY <1>10, <4>3, <4>5
    <3>. QED BY <1>10, <2>8, <2>11, <3>1, <3>2, <3>3 DEF AvBooks
  <2>. QED BY <2>1, <2>10, <2>11
<1>18. CASE bridge.state = "BURST_READ"
  <2>. DEFINE more == i.cmd_ready /\ ~bridge.cmd_ready_seen
  <2>1. /\ AvFields(bridge') /\ bridge'.cmd_fifo = bridge.cmd_fifo /\ bridge'.wdata_fifo = bridge.wdata_fifo
        /\ bridge'.state = IF i.rdata # <<>> /\ bridge.burst_count = 1 THEN "START" ELSE "BURST_READ"
        /\ bridge'.burst_count = IF i.rdata # <<>> THEN bridge.burst_count - 1 ELSE bridge.burst_count
        /\ bridge'.cmd_ready_count = IF more THEN bridge.cmd_ready_count - 1 ELSE bridge.cmd_ready_count
        /\ bridge'.cmd_ready_seen <=> IF more THEN bridge.cmd_ready_count = 1 ELSE bridge.cmd_ready_seen
    BY <1>1, <1>4, <1>18, AvReadMoves, Zenon
  <2>2. /\ bridge.cmd_ready_count \in Nat /\ (bridge.cmd_ready_seen <=> bridge.cmd_ready_count = 0)
        /\ bridge.burst_count = Reads + bridge.cmd_ready_count /\ Writes = 0
        /\ bridge.cmd_fifo = <<>> /\ bridge.wdata_fifo = <<>>
    BY <1>7, <1>18
  <2>3. (e.ready /\ rc <=> more) /\ ~wc BY <1>2, <1>6, <1>18
  <2>4. rsent = (IF more THEN 1 ELSE 0) /\ wsent = 0 /\ fetched = 0 BY <1>5, <2>2, <2>3
  <2>5. came = (IF i.rdata # <<>> THEN 1 ELSE 0) BY <1>2
  <2>6. rsent \in {0, 1} /\ came \in {0, 1} /\ (came = 1 => Reads > 0) /\ (rsent = 1 => bridge.cmd_ready_count > 0)
    BY <1>5, <2>2, <2>4
  <2>7. /\ bridge'.burst_count = bridge.burst_count - came
        /\ bridge'.cmd_ready_count = bridge.cmd_ready_count - rsent
        /\ bridge'.cmd_ready_seen <=> bridge'.cmd_ready_count = 0
        /\ bridge'.state = IF came = 1 /\ bridge.burst_count = 1 THEN "START" ELSE "BURST_READ"
    <3>1. bridge.burst_count \in Int BY <1>5, <2>2
    <3>2. CASE more BY <2>1, <2>2, <2>4, <2>5, <3>1, <3>2
    <3>3. CASE ~more BY <2>1, <2>2, <2>4, <2>5, <3>1, <3>3
    <3>. QED BY <3>2, <3>3
  <2>8. Writes' = 0 BY <1>10, <2>2, <2>4
  <2>. HIDE DEF rsent, came, more
  <2>9. /\ bridge'.cmd_ready_count \in Nat /\ bridge'.burst_count = Reads' + bridge'.cmd_ready_count
        /\ came = 1 /\ bridge.burst_count = 1 => Reads' = 0
    BY <1>5, <1>10, <2>2, <2>6, <2>7
  <2>10. AvTyped' BY <1>4, <1>13, <2>1
  <2>. QED BY <1>10, <2>1, <2>2, <2>7, <2>8, <2>9, <2>10 DEF AvBooks
<1>. QED BY <1>7, <1>14, <1>15, <1>16, <1>17, <1>18, Zenon

-----------------------------------------------------------------------------
(* The AXI bridge.                                                          *)

FifoTyped(f) == {"inner", "out"} \subseteq DOMAIN f /\ Queue(f.inner) /\ Single(f.out)

(* A buffered FIFO holds what was pushed while there was room and is not     *)
(* popped yet; its output is empty only when a pop emptied it.               *)
LEMMA FifoMoves ==
    ASSUME NEW f, FifoTyped(f), NEW push, Single(push), NEW pop \in BOOLEAN, pop => f.out # <<>>
    PROVE  LET n == FifoStep(f, push, pop)
           IN /\ FifoTyped(n) /\ Level(f) \in Nat
              /\ Level(n) = Level(f) + (IF push # <<>> /\ FifoRoom(f) THEN 1 ELSE 0) - (IF pop THEN 1 ELSE 0)
              /\ Level(f) >= Len(f.inner) /\ Len(f.inner) \in Nat
              /\ n.out = <<>> => f.inner = <<>> /\ (f.out = <<>> \/ pop)
              /\ f.inner = <<>> /\ f.out = <<>> => Level(f) = 0
              /\ f.inner = <<>> /\ f.out # <<>> => Level(f) = 1
<1>. DEFINE n == FifoStep(f, push, pop)
            move == f.inner # <<>> /\ (f.out = <<>> \/ pop)
            kept == IF move THEN Tail(f.inner) ELSE f.inner
            added == IF FifoRoom(f) THEN push ELSE <<>>
            out == IF move THEN <<Head(f.inner)>> ELSE IF pop THEN <<>> ELSE f.out
<1>1. n.inner = kept \o added /\ n.out = out /\ {"inner", "out"} \subseteq DOMAIN n
  <2>1. n = [inner |-> kept \o added, out |-> out] BY Zenon DEF FifoStep
  <2>. HIDE DEF n, kept, added, out
  <2>. QED BY <2>1
<1>2. Queue(f.inner) /\ Single(f.out) /\ Len(f.inner) \in Nat /\ (f.inner = <<>> <=> Len(f.inner) = 0)
      /\ Len(f.out) = (IF f.out # <<>> THEN 1 ELSE 0)
  BY QueueMoves, SingleMoves DEF FifoTyped
<1>3. Queue(kept) /\ Len(kept) = Len(f.inner) - (IF move THEN 1 ELSE 0) BY <1>2, QueueMoves
<1>4. Queue(added) /\ Len(added) = IF push # <<>> /\ FifoRoom(f) THEN 1 ELSE 0
  <2>1. Queue(push) /\ Len(push) = (IF push # <<>> THEN 1 ELSE 0) /\ Queue(<<>>) /\ Len(<<>>) = 0
    BY QueueMoves, SingleMoves
  <2>2. CASE FifoRoom(f)
    <3>1. added = push BY <2>2
    <3>. HIDE DEF added
    <3>2. CASE push # <<>> BY <2>1, <2>2, <3>1, <3>2
    <3>3. CASE push = <<>> BY <2>1, <2>2, <3>1, <3>3
    <3>. QED BY <3>2, <3>3
  <2>3. CASE ~FifoRoom(f)
    <3>1. added = <<>> BY <2>3
    <3>. HIDE DEF added
    <3>. QED BY <2>1, <2>3, <3>1
  <2>. QED BY <2>2, <2>3
<1>5. Single(out) /\ Len(out) = IF move THEN 1 ELSE IF pop THEN 0 ELSE Len(f.out)
  <2>1. Len(<<>>) = 0 /\ Single(<<>>) BY DEF Single
  <2>2. CASE move
    <3>1. out = <<Head(f.inner)>> BY <2>2
    <3>2. Single(out) BY <3>1 DEF Single
    <3>. QED BY <2>2, <3>1, <3>2, QueueMoves
  <2>3. CASE ~move BY <1>2, <2>1, <2>3
  <2>. QED BY <2>2, <2>3
<1>. HIDE DEF kept, added, out, n
<1>6. Queue(n.inner) /\ Len(n.inner) = Len(kept) + Len(added) BY <1>1, <1>3, <1>4, QueueMoves
<1>7. Len(n.out) = IF move THEN 1 ELSE IF pop THEN 0 ELSE Len(f.out) BY <1>1, <1>5
<1>8. Level(f) = Len(f.inner) + Len(f.out) /\ Level(n) = Len(n.inner) + Len(n.out) BY DEF Level
<1>9. FifoTyped(n) BY <1>1, <1>5, <1>6 DEF FifoTyped
<1>10. n.out = <<>> => ~move /\ (f.out = <<>> \/ pop)
  <2>1. Single(n.out) BY <1>1, <1>5
  <2>2. n.out = <<>> => Len(n.out) = 0 BY <2>1, SingleMoves
  <2>. QED BY <1>2, <1>7, <2>2
<1>13. PICK k \in Int, l \in Int, m \in Int, p \in Int, g \in Int :
         /\ k = Len(f.inner) /\ l = Len(f.out) /\ m = (IF move THEN 1 ELSE 0)
         /\ p = (IF push # <<>> /\ FifoRoom(f) THEN 1 ELSE 0) /\ g = (IF pop THEN 1 ELSE 0)
  <2>1. Len(f.inner) \in Int /\ Len(f.out) \in Int BY <1>2
  <2>2. /\ (IF move THEN 1 ELSE 0) \in Int /\ (IF pop THEN 1 ELSE 0) \in Int
        /\ (IF push # <<>> /\ FifoRoom(f) THEN 1 ELSE 0) \in Int
    OBVIOUS
  <2>. QED BY <2>1, <2>2, Zenon
<1>14. Len(n.out) = l + m - g
  <2>1. CASE move
    <3>1. f.out # <<>> <=> pop BY <2>1
    <3>2. l = g /\ m = 1 /\ Len(n.out) = 1 BY <1>2, <1>7, <1>13, <2>1, <3>1
    <3>3. g + 1 - g = 1
      <4>1. g \in Int BY <1>13
      <4>. QED BY <4>1
    <3>. QED BY <3>2, <3>3, Zenon
  <2>2. CASE ~move /\ pop
    <3>1. l = 1 /\ m = 0 /\ g = 1 /\ Len(n.out) = 0 BY <1>2, <1>7, <1>13, <2>2
    <3>2. 0 = 1 + 0 - 1 OBVIOUS
    <3>. QED BY <3>1, <3>2, Zenon
  <2>3. CASE ~move /\ ~pop
    <3>1. m = 0 /\ g = 0 /\ Len(n.out) = l BY <1>2, <1>7, <1>13, <2>3
    <3>2. l + 0 - 0 = l
      <4>1. l \in Int BY <1>13
      <4>. QED BY <4>1
    <3>. QED BY <3>1, <3>2, Zenon
  <2>. QED BY <2>1, <2>2, <2>3
<1>15. Len(n.inner) = (k - m) + p /\ Level(f) = k + l BY <1>3, <1>4, <1>6, <1>8, <1>13, Zenon
<1>11. Level(n) = Level(f) + (IF push # <<>> /\ FifoRoom(f) THEN 1 ELSE 0) - (IF pop THEN 1 ELSE 0)
  <2>1. ((k - m) + p) + (l + m - g) = (k + l) + p - g
    <3>1. k \in Int /\ l \in Int /\ m \in Int /\ p \in Int /\ g \in Int BY <1>13
    <3>. QED BY <3>1
  <2>. QED BY <1>8, <1>13, <1>14, <1>15, <2>1, Zenon
<1>12. /\ Level(f) \in Nat /\ Level(f) >= Len(f.inner)
       /\ f.inner = <<>> /\ f.out = <<>> => Level(f) = 0
       /\ f.inner = <<>> /\ f.out # <<>> => Level(f) = 1
  <2>1. k >= 0 /\ l \in {0, 1} BY <1>2, <1>13
  <2>2. (f.inner = <<>> => k = 0) /\ (f.out = <<>> => l = 0) /\ (f.out # <<>> => l = 1) BY <1>2, <1>13
  <2>3. k + l \in Nat /\ k + l >= k /\ (k = 0 /\ l = 0 => k + l = 0) /\ (k = 0 /\ l = 1 => k + l = 1)
    <3>1. k \in Int /\ l \in Int BY <1>13
    <3>. QED BY <2>1, <3>1
  <2>. QED BY <1>13, <1>15, <2>2, <2>3, Zenon
<1>. QED BY <1>2, <1>9, <1>10, <1>11, <1>12 DEF n

\* The fields of the bridge that are counted.
AxiFields(b) ==
    {"aw", "aw_beat", "w_buffer", "w_buffer_level", "w_id", "resp_buffer", "ar", "ar_beat", "r_buffer",
     "r_buffer_level", "r_id", "grant", "with_rmw", "rmw", "rmw_data", "rmw_cmd_done", "rmw_data_done"} \subseteq DOMAIN b

\* What an edge makes of the read-modify-write when the bridge becomes n.
RmwMoves(n, i) ==
    LET b == bridge
    IN /\ b.rmw = "IDLE" =>
             /\ n.rmw_cmd_done = FALSE /\ n.rmw_data_done = FALSE
             /\ n.rmw = IF rmw_request(b) /\ rmw_rgrant(b, i) /\ rmw_wgrant(b, i) THEN "READ" ELSE "IDLE"
       /\ b.rmw = "READ" =>
             /\ n.rmw_cmd_done = b.rmw_cmd_done /\ n.rmw_data_done = b.rmw_data_done
             /\ n.rmw = IF i.cmd_ready THEN "MODIFY" ELSE "READ"
       /\ b.rmw = "MODIFY" =>
             /\ n.rmw_cmd_done = b.rmw_cmd_done /\ n.rmw_data_done = b.rmw_data_done
             /\ n.rmw = IF i.rdata # <<>> THEN "WRITE" ELSE "MODIFY"
       /\ b.rmw = "WRITE" =>
             /\ n.rmw_cmd_done = (b.rmw_cmd_done \/ i.cmd_ready)
             /\ n.rmw_data_done = (b.rmw_data_done \/ w_taken(b))
             /\ n.rmw = IF (i.cmd_ready \/ b.rmw_cmd_done) /\ (FifoRoom(b.w_buffer) \/ b.rmw_data_done)
                        THEN "IDLE" ELSE "WRITE"

\* And of all of them.
AxiMoves(n, i, rready) ==
    LET b == bridge
        taken == rready /\ b.r_buffer.out # <<>>
    IN /\ AxiFields(n) /\ n.with_rmw = b.with_rmw /\ RmwMoves(n, i)
       /\ n.w_buffer = FifoStep(b.w_buffer, w_sink(b), w_dequeue(b, i))
       /\ n.w_buffer_level = b.w_buffer_level + (IF w_buffer_queue(b, i) THEN 1 ELSE 0)
                                              - (IF w_dequeue(b, i) THEN 1 ELSE 0)
       /\ n.r_buffer = FifoStep(b.r_buffer, IF r_bypass(b, i) THEN <<>> ELSE i.rdata, taken)
       /\ n.r_buffer_level = b.r_buffer_level + (IF r_buffer_queue(b, i) THEN 1 ELSE 0)
                                              - (IF taken THEN 1 ELSE 0)

\* The states of the read-modify-write.
RmwStates == {"IDLE", "READ", "MODIFY", "WRITE"}

LEMMA RmwFieldsNext ==
    ASSUME AxiFields(bridge), bridge.rmw \in RmwStates, NEW i, NEW v, AxiFields(v),
           v.rmw = bridge.rmw, v.rmw_cmd_done = bridge.rmw_cmd_done, v.rmw_data_done = bridge.rmw_data_done,
           v.with_rmw = bridge.with_rmw
    PROVE  LET n == AxiRmw(v, bridge, i)
           IN /\ AxiFields(n) /\ n.with_rmw = bridge.with_rmw /\ RmwMoves(n, i)
              /\ n.w_buffer = v.w_buffer /\ n.w_buffer_level = v.w_buffer_level
              /\ n.r_buffer = v.r_buffer /\ n.r_buffer_level = v.r_buffer_level
<1>. DEFINE b == bridge
            n == AxiRmw(v, b, i)
            Same(x) == /\ AxiFields(x) /\ x.with_rmw = bridge.with_rmw
                       /\ x.w_buffer = v.w_buffer /\ x.w_buffer_level = v.w_buffer_level
                       /\ x.r_buffer = v.r_buffer /\ x.r_buffer_level = v.r_buffer_level
<1>1. CASE b.rmw = "IDLE"
  <2>1. n = [v EXCEPT !.rmw_cmd_done = FALSE, !.rmw_data_done = FALSE,
                      !.rmw = IF rmw_request(b) /\ rmw_rgrant(b, i) /\ rmw_wgrant(b, i) THEN "READ" ELSE @]
    BY <1>1, Zenon DEF AxiRmw
  <2>2. Same(n) BY <2>1 DEF AxiFields
  <2>3. RmwMoves(n, i) BY <1>1, <2>1 DEF AxiFields, RmwMoves
  <2>. QED BY <2>2, <2>3
<1>2. CASE b.rmw = "READ"
  <2>0. b.rmw # "IDLE" /\ b.rmw # "MODIFY" /\ b.rmw # "WRITE" BY <1>2
  <2>1. n = [v EXCEPT !.rmw = IF i.cmd_ready THEN "MODIFY" ELSE @] BY <1>2, <2>0, Zenon DEF AxiRmw
  <2>2. Same(n) BY <2>1 DEF AxiFields
  <2>3. RmwMoves(n, i) BY <1>2, <2>1 DEF AxiFields, RmwMoves
  <2>. QED BY <2>2, <2>3
<1>3. CASE b.rmw = "MODIFY" /\ i.rdata # <<>>
  <2>0. b.rmw # "IDLE" /\ b.rmw # "READ" /\ b.rmw # "WRITE" BY <1>3
  <2>1. n = [v EXCEPT !.rmw = "WRITE",
                      !.rmw_data = [l \in Lanes(W) |-> IF l \in w_beat.strb THEN w_beat.dat[l] ELSE Head(i.rdata)[l]]]
    BY <1>3, <2>0, Zenon DEF AxiRmw
  <2>2. Same(n) BY <2>1 DEF AxiFields
  <2>3. RmwMoves(n, i) BY <1>3, <2>1 DEF AxiFields, RmwMoves
  <2>. QED BY <2>2, <2>3
<1>4. CASE b.rmw = "MODIFY" /\ i.rdata = <<>>
  <2>0. b.rmw # "IDLE" /\ b.rmw # "READ" /\ b.rmw # "WRITE" BY <1>4
  <2>1. n = v BY <1>4, <2>0 DEF AxiRmw
  <2>2. Same(n) BY <2>1
  <2>3. RmwMoves(n, i) BY <1>4, <2>1 DEF RmwMoves
  <2>. QED BY <2>2, <2>3
<1>5. CASE b.rmw = "WRITE"
  <2>0. b.rmw # "IDLE" /\ b.rmw # "READ" /\ b.rmw # "MODIFY" BY <1>5
  <2>1. n = [v EXCEPT !.rmw_cmd_done = @ \/ i.cmd_ready, !.rmw_data_done = @ \/ w_taken(b),
                      !.rmw = IF (i.cmd_ready \/ b.rmw_cmd_done) /\ (FifoRoom(b.w_buffer) \/ b.rmw_data_done)
                              THEN "IDLE" ELSE @]
    BY <1>5, <2>0, Zenon DEF AxiRmw
  <2>2. Same(n) BY <2>1 DEF AxiFields
  <2>3. RmwMoves(n, i) BY <1>5, <2>1 DEF AxiFields, RmwMoves
  <2>. QED BY <2>2, <2>3
<1>. QED BY <1>1, <1>2, <1>3, <1>4, <1>5 DEF RmwStates

LEMMA AxiFieldsNext ==
    ASSUME AxiFields(bridge), bridge.rmw \in RmwStates, NEW i, NEW bready, NEW rready
    PROVE  AxiMoves(AxiNext(bridge, i, bready, rready), i, rready)
<1>. DEFINE b == bridge
            v1 == AxiWrite(b, b, i, bready)
            v2 == AxiRead(v1, b, i, rready)
            v3 == AxiRmw(v2, b, i)
            taken == rready /\ b.r_buffer.out # <<>>
            Rmw(v) == v.rmw = b.rmw /\ v.rmw_cmd_done = b.rmw_cmd_done /\ v.rmw_data_done = b.rmw_data_done
                      /\ v.with_rmw = b.with_rmw
<1>1. /\ AxiFields(v1) /\ Rmw(v1)
      /\ v1.w_buffer = FifoStep(b.w_buffer, w_sink(b), w_dequeue(b, i))
      /\ v1.w_buffer_level = b.w_buffer_level + (IF w_buffer_queue(b, i) THEN 1 ELSE 0)
                                              - (IF w_dequeue(b, i) THEN 1 ELSE 0)
      /\ v1.r_buffer = b.r_buffer /\ v1.r_buffer_level = b.r_buffer_level
  BY DEF AxiWrite, AxiFields
<1>2. /\ AxiFields(v2) /\ Rmw(v2)
      /\ v2.w_buffer = v1.w_buffer /\ v2.w_buffer_level = v1.w_buffer_level
      /\ v2.r_buffer = FifoStep(v1.r_buffer, IF r_bypass(b, i) THEN <<>> ELSE i.rdata, taken)
      /\ v2.r_buffer_level = v1.r_buffer_level + (IF r_buffer_queue(b, i) THEN 1 ELSE 0) - (IF taken THEN 1 ELSE 0)
  <2>. HIDE DEF v1
  <2>. QED BY <1>1 DEF AxiRead, AxiFields
<1>3. /\ AxiFields(v3) /\ v3.with_rmw = b.with_rmw /\ RmwMoves(v3, i)
      /\ v3.w_buffer = v2.w_buffer /\ v3.w_buffer_level = v2.w_buffer_level
      /\ v3.r_buffer = v2.r_buffer /\ v3.r_buffer_level = v2.r_buffer_level
  <2>1. AxiFields(v2) /\ Rmw(v2) BY <1>2
  <2>. HIDE DEF v2
  <2>. QED BY <2>1, RmwFieldsNext, Zenon
<1>4. AxiNext(b, i, bready, rready) = [v3 EXCEPT !.grant = arbiter_next(b, i)] BY Zenon DEF AxiNext
<1>. DEFINE n == AxiNext(b, i, bready, rready)
<1>5. /\ AxiFields(n) /\ n.with_rmw = v3.with_rmw
      /\ n.rmw = v3.rmw /\ n.rmw_cmd_done = v3.rmw_cmd_done /\ n.rmw_data_done = v3.rmw_data_done
      /\ n.w_buffer = v3.w_buffer /\ n.w_buffer_level = v3.w_buffer_level
      /\ n.r_buffer = v3.r_buffer /\ n.r_buffer_level = v3.r_buffer_level
  <2>. HIDE DEF v3, n
  <2>. QED BY <1>3, <1>4 DEF n, AxiFields
<1>. HIDE DEF v1, v2, v3, n
<1>7. RmwMoves(n, i) BY <1>3, <1>5, Zenon DEF RmwMoves
<1>6. AxiMoves(n, i, rready) BY <1>1, <1>2, <1>3, <1>5, <1>7 DEF AxiMoves
<1>. QED BY <1>6 DEF n

\* What the bridge sends, and what it reserves for it.
AxiSends(i) ==
    LET b == bridge
        c == AxiCmd(b)
    IN /\ Single(c) /\ Single(w_sink(b))
       /\ w_buffer_queue(b, i) <=> i.cmd_ready /\ c # <<>> /\ Head(c).we
       /\ r_buffer_queue(b, i) <=> i.cmd_ready /\ c # <<>> /\ ~Head(c).we /\ ~rmw_request(b)
       /\ ~rmw_request(b) /\ c # <<>> /\ Head(c).we => Level(b.w_buffer) > b.w_buffer_level
       /\ ~rmw_request(b) /\ c # <<>> /\ ~Head(c).we => b.r_buffer_level # buffer_depth
       /\ rmw_request(b) /\ c # <<>> =>
             \/ b.rmw = "READ" /\ ~Head(c).we
             \/ b.rmw = "WRITE" /\ ~b.rmw_cmd_done /\ Head(c).we
       /\ b.rmw = "READ" => c # <<>>
       /\ b.rmw = "WRITE" /\ ~b.rmw_cmd_done => c # <<>>
       /\ b.rmw = "WRITE" => (w_sink(b) # <<>> <=> ~b.rmw_data_done)

LEMMA AxiCommands ==
    ASSUME NEW i, bridge.rmw # "IDLE" => rmw_request(bridge)
    PROVE  AxiSends(i)
<1>. DEFINE b == bridge
            c == AxiCmd(b)
            wcmd == <<[we |-> TRUE, addr |-> aw_addr(b), last |-> aw_last(b)]>>
            rcmd == <<[we |-> FALSE, addr |-> Head(b.ar).adr + b.ar_beat, last |-> ar_last(b)]>>
            rrmw == <<[we |-> FALSE, addr |-> aw_addr(b), last |-> aw_last(b)]>>
<1>1. Single(w_sink(b)) BY DEF w_sink, Single
<1>2. b.rmw = "WRITE" => (w_sink(b) # <<>> <=> ~b.rmw_data_done)
  <2>. DEFINE x == [dat |-> b.rmw_data, strb |-> Lanes(W), last |-> Len(master.w) = 1]
  <2>1. b.rmw = "WRITE" => w_sink(b) = IF b.rmw_data_done THEN <<>> ELSE <<x>> BY DEF w_sink
  <2>2. <<x>> # <<>> OBVIOUS
  <2>. HIDE DEF x
  <2>. QED BY <2>1, <2>2
<1>3. /\ write_request(b) => Level(b.w_buffer) > b.w_buffer_level /\ ~rmw_request(b)
      /\ read_request(b) => b.r_buffer_level # buffer_depth /\ ~rmw_request(b)
  BY DEF write_request, can_write, read_request, can_read
<1>4. \/ write_request(b) /\ c = wcmd
      \/ read_request(b) /\ c = rcmd
      \/ b.rmw = "READ" /\ c = rrmw
      \/ b.rmw = "WRITE" /\ ~b.rmw_cmd_done /\ c = wcmd
      \/ b.rmw # "READ" /\ ~(b.rmw = "WRITE" /\ ~b.rmw_cmd_done) /\ c = <<>>
  <2>. HIDE DEF wcmd, rcmd, rrmw
  <2>0. ~rmw_request(b) => b.rmw # "READ" /\ b.rmw # "WRITE"
    BY <1>2 DEF b
  <2>9. c = CASE write_request(b) /\ b.grant = 0 -> wcmd
              [] read_request(b) /\ b.grant = 1 -> rcmd
              [] b.rmw = "READ" -> rrmw
              [] b.rmw = "WRITE" /\ ~b.rmw_cmd_done -> wcmd
              [] OTHER -> <<>>
    BY Zenon DEF AxiCmd, wcmd, rcmd, rrmw
  <2>1. CASE write_request(b) /\ b.grant = 0
    <3>1. b.grant # 1 /\ b.rmw # "READ" /\ b.rmw # "WRITE" BY <1>3, <2>0, <2>1
    <3>2. c = wcmd BY <2>1, <2>9, <3>1, Zenon
    <3>. QED BY <2>1, <3>2, Zenon
  <2>2. CASE ~(write_request(b) /\ b.grant = 0) /\ read_request(b) /\ b.grant = 1
    <3>1. b.rmw # "READ" /\ b.rmw # "WRITE" BY <1>3, <2>0, <2>2
    <3>2. c = rcmd BY <2>2, <2>9, <3>1, Zenon
    <3>. QED BY <2>2, <3>2, Zenon
  <2>3. CASE ~(write_request(b) /\ b.grant = 0) /\ ~(read_request(b) /\ b.grant = 1) /\ b.rmw = "READ"
    <3>1. b.rmw # "WRITE" BY <2>3
    <3>2. c = rrmw BY <2>3, <2>9, <3>1, Zenon
    <3>. QED BY <2>3, <3>2, Zenon
  <2>4. CASE ~(write_request(b) /\ b.grant = 0) /\ ~(read_request(b) /\ b.grant = 1) /\ b.rmw = "WRITE" /\ ~b.rmw_cmd_done
    <3>1. b.rmw # "READ" BY <2>4
    <3>2. c = wcmd BY <2>4, <2>9, <3>1, Zenon
    <3>. QED BY <2>4, <3>2, Zenon
  <2>5. CASE ~(write_request(b) /\ b.grant = 0) /\ ~(read_request(b) /\ b.grant = 1)
             /\ b.rmw # "READ" /\ ~(b.rmw = "WRITE" /\ ~b.rmw_cmd_done)
    <3>2. c = <<>> BY <2>5, <2>9, Zenon
    <3>. QED BY <2>5, <3>2, Zenon
  <2>. QED BY <2>1, <2>2, <2>3, <2>4, <2>5, Zenon
<1>5. /\ wcmd # <<>> /\ Head(wcmd).we = TRUE /\ Single(wcmd)
      /\ rcmd # <<>> /\ Head(rcmd).we = FALSE /\ Single(rcmd)
      /\ rrmw # <<>> /\ Head(rrmw).we = FALSE /\ Single(rrmw)
      /\ Single(<<>>)
  BY DEF Single
<1>. HIDE DEF c, wcmd, rcmd, rrmw
<1>6. Single(c) BY <1>4, <1>5, Zenon
<1>7. \/ c = <<>>
      \/ c # <<>> /\ Head(c).we = TRUE
      \/ c # <<>> /\ Head(c).we = FALSE
  BY <1>4, <1>5, Zenon
<1>8. TRUE # FALSE OBVIOUS
<1>9. /\ ~rmw_request(b) /\ c # <<>> /\ Head(c).we => Level(b.w_buffer) > b.w_buffer_level
      /\ ~rmw_request(b) /\ c # <<>> /\ ~Head(c).we => b.r_buffer_level # buffer_depth
      /\ rmw_request(b) /\ c # <<>> =>
            \/ b.rmw = "READ" /\ ~Head(c).we
            \/ b.rmw = "WRITE" /\ ~b.rmw_cmd_done /\ Head(c).we
  <2>0. ~rmw_request(b) => b.rmw # "READ" /\ b.rmw # "WRITE" BY DEF b
  <2>1. CASE write_request(b) /\ c = wcmd
    <3>1. Head(c).we = TRUE BY <1>5, <2>1
    <3>. QED BY <1>3, <2>1, <3>1
  <2>2. CASE read_request(b) /\ c = rcmd
    <3>1. Head(c).we = FALSE BY <1>5, <2>2
    <3>. QED BY <1>3, <2>2, <3>1
  <2>3. CASE b.rmw = "READ" /\ c = rrmw
    <3>1. Head(c).we = FALSE BY <1>5, <2>3
    <3>. QED BY <2>0, <2>3, <3>1
  <2>4. CASE b.rmw = "WRITE" /\ ~b.rmw_cmd_done /\ c = wcmd
    <3>1. Head(c).we = TRUE BY <1>5, <2>4
    <3>. QED BY <2>0, <2>4, <3>1
  <2>5. CASE c = <<>> BY <2>5
  <2>. QED BY <1>4, <2>1, <2>2, <2>3, <2>4, <2>5, Zenon
<1>10. /\ b.rmw = "READ" => c # <<>>
       /\ b.rmw = "WRITE" /\ ~b.rmw_cmd_done => c # <<>>
  BY <1>4, <1>5, Zenon
<1>11. /\ w_buffer_queue(b, i) <=> c # <<>> /\ i.cmd_ready /\ Head(c).we = TRUE
       /\ r_buffer_queue(b, i) <=> c # <<>> /\ i.cmd_ready /\ Head(c).we = FALSE /\ ~rmw_request(b)
  BY Zenon DEF w_buffer_queue, r_buffer_queue, sent, c
<1>12. /\ w_buffer_queue(b, i) <=> i.cmd_ready /\ c # <<>> /\ Head(c).we
       /\ r_buffer_queue(b, i) <=> i.cmd_ready /\ c # <<>> /\ ~Head(c).we /\ ~rmw_request(b)
  <2>1. CASE c = <<>> BY <1>11, <2>1, Zenon
  <2>2. CASE c # <<>> /\ Head(c).we = TRUE BY <1>11, <2>2, Zenon
  <2>3. CASE c # <<>> /\ Head(c).we = FALSE BY <1>11, <2>3, Zenon
  <2>. QED BY <1>7, <2>1, <2>2, <2>3, Zenon
<1>. QED BY <1>1, <1>2, <1>6, <1>9, <1>10, <1>12, Zenon DEF AxiSends, c

(* The buffer of the write path holds the data of every write, the one of    *)
(* the read path has room for every word.  A read-modify-write starts when   *)
(* nothing is under way and reserves nothing: its word passes by the buffer, *)
(* and its command and its data may come in either order.                    *)
AxiBooks ==
    LET b == bridge
    IN /\ AxiFields(b) /\ b.rmw \in RmwStates /\ (b.rmw # "IDLE" => b.with_rmw)
       /\ FifoTyped(b.w_buffer) /\ FifoTyped(b.r_buffer)
       /\ b.w_buffer_level = Writes /\ Writes <= Level(b.w_buffer)
       /\ b.w_buffer.out = <<>> => Count(port.cmds, "write") = 0
       /\ IF b.rmw = "IDLE" THEN b.r_buffer_level = Reads + Level(b.r_buffer) /\ b.r_buffer_level <= buffer_depth
          ELSE b.r_buffer_level = 0 /\ Level(b.r_buffer) = 0 /\ Reads = IF b.rmw = "MODIFY" THEN 1 ELSE 0
       /\ b.rmw \in {"READ", "MODIFY"} => Writes = 0 /\ ~b.rmw_cmd_done /\ ~b.rmw_data_done
       /\ b.rmw = "WRITE" => /\ b.rmw_cmd_done => ~b.rmw_data_done
                             /\ ~b.rmw_cmd_done => Writes = 0
                             /\ b.rmw_data_done => Level(b.w_buffer) >= 1

\* Of each thing counted an edge moves one or none.
Bits == {0, 1}

\* What an edge makes of the counts, from the words taken by the master (t),
\* write and read commands accepted (wq, rq), room reserved (rr), data fetched
\* (wd), words that came (g), data pushed (p), words that enter the buffer (s).
AxiTurn(e, t, wq, rq, rr, wd, g, p, s) ==
    LET b == bridge
        n == bridge'
        i == Seen(e)
        c == AxiCmd(b)
    IN /\ wq = 1 <=> e.ready /\ c # <<>> /\ Head(c).we
       /\ rq = 1 <=> e.ready /\ c # <<>> /\ ~Head(c).we
       /\ rr = 1 <=> e.ready /\ c # <<>> /\ ~Head(c).we /\ ~rmw_request(b)
       /\ wd = 1 <=> wdata_ready(e)
       /\ g = 1 <=> e.ret
       /\ p = 1 <=> w_sink(b) # <<>> /\ FifoRoom(b.w_buffer)
       /\ s = 1 <=> e.ret /\ ~r_bypass(b, i)
       /\ AxiFields(n) /\ n.with_rmw = b.with_rmw /\ RmwMoves(n, i)
       /\ FifoTyped(n.w_buffer) /\ FifoTyped(n.r_buffer)
       /\ Writes' = Writes - wd + wq /\ n.w_buffer_level = Writes + wq - wd
       /\ Count(port'.cmds, "write") = Writes - wd
       /\ Level(n.w_buffer) = Level(b.w_buffer) + p - wd
       /\ n.w_buffer.out = <<>> => b.w_buffer.inner = <<>> /\ (b.w_buffer.out = <<>> \/ wd = 1)
       /\ Reads' = Reads - g + rq
       /\ n.r_buffer_level = b.r_buffer_level + rr - t
       /\ Level(n.r_buffer) = Level(b.r_buffer) + s - t
       /\ t = 1 => Level(b.r_buffer) # 0

\* The levels of the buffers.
LEMMA Levels ==
    ASSUME NEW f, FifoTyped(f)
    PROVE  /\ Level(f) \in Nat /\ Len(f.inner) \in Nat /\ Level(f) >= Len(f.inner)
           /\ f.inner = <<>> /\ f.out = <<>> => Level(f) = 0
           /\ f.inner = <<>> /\ f.out # <<>> => Level(f) = 1
           /\ f.out # <<>> => Level(f) # 0
<1>1. Single(<<>>) /\ FALSE \in BOOLEAN /\ (FALSE => f.out # <<>>) BY DEF Single
<1>2. /\ Level(f) \in Nat /\ Len(f.inner) \in Nat /\ Level(f) >= Len(f.inner)
      /\ f.inner = <<>> /\ f.out = <<>> => Level(f) = 0
      /\ f.inner = <<>> /\ f.out # <<>> => Level(f) = 1
  BY <1>1, FifoMoves, Zenon
<1>3. f.out # <<>> => Level(f) # 0
  <2>1. f.out # <<>> => Len(f.out) = 1 BY SingleMoves DEF FifoTyped
  <2>2. Level(f) = Len(f.inner) + Len(f.out) BY DEF Level
  <2>3. PICK k \in Nat : k = Len(f.inner) BY <1>2, Zenon
  <2>4. k + 1 # 0
    <3>1. k \in Nat BY <2>3
    <3>. QED BY <3>1
  <2>. QED BY <2>1, <2>2, <2>3, <2>4, Zenon
<1>. QED BY <1>2, <1>3, Zenon

LEMMA AxiServes ==
    ASSUME InTime, AxiBooks, NEW e \in PortInputs, AxiUserTick(e)
    PROVE  /\ InTime'
           /\ \E t \in Bits, wq \in Bits, rq \in Bits, rr \in Bits,
                 wd \in Bits, g \in Bits, p \in Bits, s \in Bits : AxiTurn(e, t, wq, rq, rr, wd, g, p, s)
<1>. DEFINE i == Seen(e)
            b == bridge
            o == AxiDrives(b, i)
            c == AxiCmd(b)
<1>1. PICK bready \in BOOLEAN, rready \in BOOLEAN :
        port' = PortNext(e, o) /\ bridge' = AxiNext(b, i, bready, rready)
  <2>1. \A x : \A y \in Choice(x) : y \in BOOLEAN BY DEF Choice
  <2>2. PICK bready \in Choice(b.resp_buffer # <<>>), rready \in Choice(b.r_buffer.out # <<>>) :
          port' = PortNext(e, o) /\ bridge' = AxiNext(b, i, bready, rready)
    BY Zenon DEF AxiUserTick
  <2>3. bready \in BOOLEAN /\ rready \in BOOLEAN BY <2>1, <2>2, Zenon
  <2>. QED BY <2>2, <2>3, Zenon
<1>. DEFINE taken == rready /\ b.r_buffer.out # <<>>
<1>2. /\ i.wdata_ready <=> wdata_ready(e)
      /\ i.cmd_ready <=> e.ready
      /\ i.rdata = rdata(e)
  BY DEF Seen
<1>3. /\ Writes \in Nat /\ Reads \in Nat /\ (wdata_ready(e) => Writes # 0) /\ (e.ret => Reads # 0)
      /\ Single(rdata(e)) /\ (rdata(e) # <<>> <=> e.ret) /\ (wdata_ready(e) => Count(port.cmds, "write") # 0)
  BY PortOwes DEF InTime, Single, rdata
<1>4. /\ AxiFields(b) /\ b.rmw \in RmwStates /\ (b.rmw # "IDLE" => b.with_rmw)
      /\ FifoTyped(b.w_buffer) /\ FifoTyped(b.r_buffer)
      /\ b.w_buffer_level = Writes
      /\ b.w_buffer.out = <<>> => Count(port.cmds, "write") = 0
      /\ IF b.rmw = "IDLE" THEN b.r_buffer_level = Reads + Level(b.r_buffer) /\ b.r_buffer_level <= buffer_depth
         ELSE b.r_buffer_level = 0
  BY DEF AxiBooks
<1>. HIDE DEF i
<1>5. AxiSends(i)
  <2>1. b.rmw # "IDLE" => rmw_request(b) BY <1>4 DEF rmw_request
  <2>. QED BY <2>1, AxiCommands, Zenon
<1>6. /\ Single(c) /\ Single(w_sink(b))
      /\ w_buffer_queue(b, i) <=> e.ready /\ c # <<>> /\ Head(c).we
      /\ r_buffer_queue(b, i) <=> e.ready /\ c # <<>> /\ ~Head(c).we /\ ~rmw_request(b)
  <2>. HIDE DEF c
  <2>. QED BY <1>2, <1>5, Zenon DEF AxiSends, c
<1>7. wdata_ready(e) => b.w_buffer.out # <<>> /\ w_buffer_send(b, i)
  BY <1>3, <1>4, Zenon DEF w_buffer_send
<1>8. w_dequeue(b, i) <=> wdata_ready(e) BY <1>2, <1>7, Zenon DEF w_dequeue
<1>9. e.ret => r_bypass(b, i) \/ FifoRoom(b.r_buffer)
  <2>. SUFFICES ASSUME e.ret PROVE r_bypass(b, i) \/ FifoRoom(b.r_buffer) OBVIOUS
  <2>1. CASE b.rmw = "IDLE"
    <3>1. PICK x \in Int, y \in Int, r \in Int, d \in Int :
            x = Level(b.r_buffer) /\ y = Len(b.r_buffer.inner) /\ r = Reads /\ d = buffer_depth
      <4>1. Level(b.r_buffer) \in Int /\ Len(b.r_buffer.inner) \in Int /\ Reads \in Int /\ buffer_depth \in Int
        BY <1>3, <1>4, Levels, AxiAssumption
      <4>. QED BY <4>1, Zenon
    <3>2. x >= y /\ r > 0 /\ r + x <= d
      <4>1. Level(b.r_buffer) >= Len(b.r_buffer.inner) BY <1>4, Levels, Zenon
      <4>2. Reads > 0 BY <1>3
      <4>3. Reads + Level(b.r_buffer) <= buffer_depth BY <1>4, <2>1
      <4>. QED BY <3>1, <4>1, <4>2, <4>3, Zenon
    <3>3. y < d
      <4>1. x \in Int /\ y \in Int /\ r \in Int /\ d \in Int BY <3>1
      <4>. QED BY <3>2, <4>1
    <3>. QED BY <3>1, <3>3, Zenon DEF FifoRoom
  <2>2. CASE b.rmw # "IDLE"
    <3>1. rmw_request(b) /\ ~r_buffer_queue(b, i) BY <1>4, <1>6, <2>2 DEF rmw_request
    <3>2. b.r_buffer_level = 0 BY <1>4, <2>2
    <3>. QED BY <3>1, <3>2, Zenon DEF r_bypass, rmw_rgrant
  <2>. QED BY <2>1, <2>2
<1>10. /\ o.cmd = c /\ (wdata_ready(e) => o.wdata # <<>>) /\ (e.ret => o.rdata_ready)
  <2>1. o.cmd = c BY DEF AxiDrives
  <2>2. e.ret => o.rdata_ready BY <1>9 DEF AxiDrives
  <2>3. wdata_ready(e) => o.wdata = <<[data |-> Head(b.w_buffer.out).dat, we |-> Head(b.w_buffer.out).strb]>>
    BY <1>7 DEF AxiDrives
  <2>. HIDE DEF o, c
  <2>4. wdata_ready(e) => o.wdata # <<>> BY <2>3, QueueMoves, Zenon
  <2>. QED BY <2>1, <2>2, <2>4, Zenon
<1>11. AxiMoves(bridge', i, rready) BY <1>1, <1>4, AxiFieldsNext, Zenon
<1>. HIDE DEF o, c
<1>12. /\ InTime'
       /\ Writes' = Writes - (IF wdata_ready(e) THEN 1 ELSE 0) + (IF e.ready /\ c # <<>> /\ Head(c).we THEN 1 ELSE 0)
       /\ Reads' = Reads - (IF e.ret THEN 1 ELSE 0) + (IF e.ready /\ c # <<>> /\ ~Head(c).we THEN 1 ELSE 0)
       /\ Count(port'.cmds, "write") = Writes - (IF wdata_ready(e) THEN 1 ELSE 0)
  <2>1. port' = PortNext(e, o) BY <1>1
  <2>2. Single(o.cmd) BY <1>6, <1>10, Zenon
  <2>3. /\ InTime'
        /\ Writes' = Writes - (IF wdata_ready(e) THEN 1 ELSE 0) + (IF e.ready /\ o.cmd # <<>> /\ Head(o.cmd).we THEN 1 ELSE 0)
        /\ Reads' = Reads - (IF e.ret THEN 1 ELSE 0) + (IF e.ready /\ o.cmd # <<>> /\ ~Head(o.cmd).we THEN 1 ELSE 0)
    BY <1>10, <2>1, <2>2, Served, Zenon
  <2>4. Books(e, o) BY <2>1, <2>2, PortEdge, Zenon DEF InTime
  <2>. QED BY <1>10, <2>3, <2>4, Zenon DEF Books
<1>13. PICK wq \in {0, 1}, rq \in {0, 1}, rr \in {0, 1}, wd \in {0, 1}, g \in {0, 1}, p \in {0, 1}, s \in {0, 1}, t \in {0, 1} :
         /\ wq = (IF e.ready /\ c # <<>> /\ Head(c).we THEN 1 ELSE 0)
         /\ rq = (IF e.ready /\ c # <<>> /\ ~Head(c).we THEN 1 ELSE 0)
         /\ rr = (IF e.ready /\ c # <<>> /\ ~Head(c).we /\ ~rmw_request(b) THEN 1 ELSE 0)
         /\ wd = (IF wdata_ready(e) THEN 1 ELSE 0)
         /\ g = (IF e.ret THEN 1 ELSE 0)
         /\ p = (IF w_sink(b) # <<>> /\ FifoRoom(b.w_buffer) THEN 1 ELSE 0)
         /\ s = (IF e.ret /\ ~r_bypass(b, i) THEN 1 ELSE 0)
         /\ t = (IF taken THEN 1 ELSE 0)
  <2>1. \A x : (IF x THEN 1 ELSE 0) \in {0, 1} BY Zenon
  <2>. QED BY <2>1, Zenon
<1>14. /\ wq = 1 <=> e.ready /\ c # <<>> /\ Head(c).we
       /\ rq = 1 <=> e.ready /\ c # <<>> /\ ~Head(c).we
       /\ rr = 1 <=> e.ready /\ c # <<>> /\ ~Head(c).we /\ ~rmw_request(b)
       /\ wd = 1 <=> wdata_ready(e)
       /\ g = 1 <=> e.ret
       /\ p = 1 <=> w_sink(b) # <<>> /\ FifoRoom(b.w_buffer)
       /\ s = 1 <=> e.ret /\ ~r_bypass(b, i)
       /\ t = 1 <=> taken
  <2>1. 0 # 1 OBVIOUS
  <2>. QED BY <1>13, <2>1, Zenon
<1>15. /\ bridge'.w_buffer = FifoStep(b.w_buffer, w_sink(b), w_dequeue(b, i))
       /\ bridge'.r_buffer = FifoStep(b.r_buffer, IF r_bypass(b, i) THEN <<>> ELSE rdata(e), taken)
       /\ bridge'.w_buffer_level = Writes + wq - wd
       /\ bridge'.r_buffer_level = b.r_buffer_level + rr - t
       /\ AxiFields(bridge') /\ bridge'.with_rmw = b.with_rmw /\ RmwMoves(bridge', i)
  BY <1>2, <1>4, <1>6, <1>8, <1>11, <1>13, Zenon DEF AxiMoves
<1>16. /\ FifoTyped(bridge'.w_buffer) /\ Level(bridge'.w_buffer) = Level(b.w_buffer) + p - wd
       /\ bridge'.w_buffer.out = <<>> => b.w_buffer.inner = <<>> /\ (b.w_buffer.out = <<>> \/ wd = 1)
  <2>1. w_dequeue(b, i) \in BOOLEAN /\ (w_dequeue(b, i) => b.w_buffer.out # <<>>) BY DEF w_dequeue
  <2>2. LET n == FifoStep(b.w_buffer, w_sink(b), w_dequeue(b, i))
        IN /\ FifoTyped(n)
           /\ Level(n) = Level(b.w_buffer) + (IF w_sink(b) # <<>> /\ FifoRoom(b.w_buffer) THEN 1 ELSE 0)
                                           - (IF w_dequeue(b, i) THEN 1 ELSE 0)
           /\ n.out = <<>> => b.w_buffer.inner = <<>> /\ (b.w_buffer.out = <<>> \/ w_dequeue(b, i))
    <3>. DEFINE f == b.w_buffer
                push == w_sink(b)
                pop == w_dequeue(b, i)
    <3>1. FifoTyped(f) /\ Single(push) /\ pop \in BOOLEAN /\ (pop => f.out # <<>>) BY <1>4, <1>6, <2>1, Zenon
    <3>. SUFFICES LET n == FifoStep(f, push, pop)
                  IN /\ FifoTyped(n)
                     /\ Level(n) = Level(f) + (IF push # <<>> /\ FifoRoom(f) THEN 1 ELSE 0) - (IF pop THEN 1 ELSE 0)
                     /\ n.out = <<>> => f.inner = <<>> /\ (f.out = <<>> \/ pop)
      OBVIOUS
    <3>. HIDE DEF f, push, pop
    <3>. QED BY <3>1, FifoMoves, Zenon
  <2>3. (IF w_dequeue(b, i) THEN 1 ELSE 0) = wd BY <1>8, <1>13, Zenon
  <2>. QED BY <1>8, <1>13, <1>14, <1>15, <2>2, <2>3, Zenon
<1>17. FifoTyped(bridge'.r_buffer) /\ Level(bridge'.r_buffer) = Level(b.r_buffer) + s - t
  <2>. DEFINE f == b.r_buffer
              push == IF r_bypass(b, i) THEN <<>> ELSE rdata(e)
  <2>1. taken \in BOOLEAN /\ (taken => f.out # <<>>) BY <1>1
  <2>2. FifoTyped(f) /\ Single(push) BY <1>3, <1>4 DEF Single
  <2>3. push # <<>> /\ FifoRoom(f) <=> e.ret /\ ~r_bypass(b, i) BY <1>3, <1>9
  <2>4. LET n == FifoStep(b.r_buffer, IF r_bypass(b, i) THEN <<>> ELSE rdata(e), taken)
        IN /\ FifoTyped(n)
           /\ Level(n) = Level(b.r_buffer) + (IF (IF r_bypass(b, i) THEN <<>> ELSE rdata(e)) # <<>> /\ FifoRoom(b.r_buffer)
                                              THEN 1 ELSE 0) - (IF taken THEN 1 ELSE 0)
    <3>. SUFFICES LET n == FifoStep(f, push, taken)
                  IN /\ FifoTyped(n)
                     /\ Level(n) = Level(f) + (IF push # <<>> /\ FifoRoom(f) THEN 1 ELSE 0) - (IF taken THEN 1 ELSE 0)
      OBVIOUS
    <3>. HIDE DEF f, push, taken
    <3>. QED BY <2>1, <2>2, FifoMoves, Zenon
  <2>5. (IF (IF r_bypass(b, i) THEN <<>> ELSE rdata(e)) # <<>> /\ FifoRoom(b.r_buffer) THEN 1 ELSE 0) = s
    BY <1>13, <2>3, Zenon DEF f, push
  <2>. HIDE DEF taken
  <2>. QED BY <1>13, <1>15, <2>4, <2>5, Zenon
<1>18. t = 1 => Level(b.r_buffer) # 0 BY <1>4, <1>14, Levels, Zenon
<1>19. /\ Writes' = Writes - wd + wq /\ Reads' = Reads - g + rq /\ Count(port'.cmds, "write") = Writes - wd
  BY <1>12, <1>13, Zenon
<1>20. AxiTurn(e, t, wq, rq, rr, wd, g, p, s)
  BY <1>14, <1>15, <1>16, <1>17, <1>18, <1>19, Zenon DEF AxiTurn, i, c
<1>21. InTime' BY <1>12, Zenon
<1>22. /\ t \in Bits /\ wq \in Bits /\ rq \in Bits /\ rr \in Bits
       /\ wd \in Bits /\ g \in Bits /\ p \in Bits /\ s \in Bits
  BY <1>13 DEF Bits
<1>. QED BY <1>20, <1>21, <1>22, Zenon

\* What a turn leaves of the write path, which no state of the
\* read-modify-write leaves short.
WritesKept(wq, wd, p) ==
    LET b == bridge
        n == bridge'
    IN /\ n.w_buffer_level = Writes' /\ Writes' <= Level(n.w_buffer)
       /\ n.w_buffer.out = <<>> => Count(port'.cmds, "write") = 0
       /\ wd = 1 => Writes # 0
       /\ Writes = 0 => Writes' = wq
       /\ wq = 1 => b.rmw = "IDLE" \/ (b.rmw = "WRITE" /\ ~b.rmw_cmd_done)
       /\ wq = 1 => ~(b.rmw = "IDLE" /\ rmw_request(b))
       /\ b.rmw = "WRITE" /\ (p = 1 \/ b.rmw_data_done) => Level(n.w_buffer) >= 1

LEMMA AxiWritten ==
    ASSUME AxiBooks, InTime, NEW e \in PortInputs, AxiSends(Seen(e)),
           NEW t \in Bits, NEW wq \in Bits, NEW rq \in Bits, NEW rr \in Bits,
           NEW wd \in Bits, NEW g \in Bits, NEW p \in Bits, NEW s \in Bits,
           AxiTurn(e, t, wq, rq, rr, wd, g, p, s)
    PROVE  WritesKept(wq, wd, p)
<1>. DEFINE b == bridge
            n == bridge'
            c == AxiCmd(b)
<1>1. /\ wq = 1 <=> e.ready /\ c # <<>> /\ Head(c).we
      /\ wd = 1 <=> wdata_ready(e)
      /\ p = 1 <=> w_sink(b) # <<>> /\ FifoRoom(b.w_buffer)
      /\ Writes' = Writes - wd + wq /\ n.w_buffer_level = Writes + wq - wd
      /\ Count(port'.cmds, "write") = Writes - wd
      /\ Level(n.w_buffer) = Level(b.w_buffer) + p - wd
      /\ n.w_buffer.out = <<>> => b.w_buffer.inner = <<>> /\ (b.w_buffer.out = <<>> \/ wd = 1)
  BY Zenon DEF AxiTurn
<1>2. /\ b.rmw \in RmwStates /\ FifoTyped(b.w_buffer)
      /\ b.w_buffer_level = Writes /\ Writes <= Level(b.w_buffer)
      /\ b.w_buffer.out = <<>> => Count(port.cmds, "write") = 0
      /\ b.rmw \in {"READ", "MODIFY"} => Writes = 0
      /\ b.rmw = "WRITE" => /\ b.rmw_cmd_done => ~b.rmw_data_done
                            /\ ~b.rmw_cmd_done => Writes = 0
                            /\ b.rmw_data_done => Level(b.w_buffer) >= 1
  BY DEF AxiBooks
<1>3. Writes \in Nat /\ (wdata_ready(e) => Writes # 0 /\ Count(port.cmds, "write") # 0)
  BY PortOwes DEF InTime
<1>4. /\ ~rmw_request(b) /\ c # <<>> /\ Head(c).we => Level(b.w_buffer) > b.w_buffer_level
      /\ rmw_request(b) /\ c # <<>> =>
            \/ b.rmw = "READ" /\ ~Head(c).we
            \/ b.rmw = "WRITE" /\ ~b.rmw_cmd_done /\ Head(c).we
      /\ b.rmw = "WRITE" => (w_sink(b) # <<>> <=> ~b.rmw_data_done)
  BY Zenon DEF AxiSends
<1>5. /\ Level(b.w_buffer) \in Nat /\ Len(b.w_buffer.inner) \in Nat /\ Level(b.w_buffer) >= Len(b.w_buffer.inner)
      /\ b.w_buffer.inner = <<>> /\ b.w_buffer.out = <<>> => Level(b.w_buffer) = 0
      /\ b.w_buffer.inner = <<>> /\ b.w_buffer.out # <<>> => Level(b.w_buffer) = 1
  BY <1>2, Levels, Zenon
<1>. HIDE DEF c
<1>6. wq = 1 => b.rmw = "IDLE" \/ (b.rmw = "WRITE" /\ ~b.rmw_cmd_done)
  <2>1. b.rmw # "IDLE" => rmw_request(b) BY DEF rmw_request, AxiBooks
  <2>2. CASE rmw_request(b) BY <1>1, <1>4, <2>2, Zenon
  <2>3. CASE ~rmw_request(b) BY <2>1, <2>3, Zenon
  <2>. QED BY <2>2, <2>3
<1>7. wq = 1 => ~(b.rmw = "IDLE" /\ rmw_request(b))
  <2>. SUFFICES ASSUME wq = 1, b.rmw = "IDLE", rmw_request(b) PROVE FALSE OBVIOUS
  <2>1. b.rmw # "READ" /\ b.rmw # "WRITE" OBVIOUS
  <2>. QED BY <1>1, <1>4, <2>1, Zenon
<1>8. PICK w \in Int, x \in Int, y \in Int, d \in Int :
        w = Writes /\ x = Level(b.w_buffer) /\ y = Len(b.w_buffer.inner) /\ d = buffer_depth
  <2>1. Writes \in Int /\ Level(b.w_buffer) \in Int /\ Len(b.w_buffer.inner) \in Int /\ buffer_depth \in Int
    BY <1>3, <1>5, AxiAssumption
  <2>. QED BY <2>1, Zenon
<1>9. w \in Int /\ x \in Int /\ y \in Int /\ d \in Int /\ p \in {0, 1} /\ wd \in {0, 1} /\ wq \in {0, 1} BY <1>8 DEF Bits
<1>10. /\ w >= 0 /\ x >= 0 /\ y >= 0 /\ x >= y /\ w <= x /\ d >= 2
       /\ wd = 1 => w # 0
       /\ Writes' = w - wd + wq /\ n.w_buffer_level = w + wq - wd
       /\ Count(port'.cmds, "write") = w - wd
       /\ Level(n.w_buffer) = x + p - wd
  <2>1. w \in Nat /\ x \in Nat /\ y \in Nat BY <1>3, <1>5, <1>8, Zenon
  <2>2. w >= 0 /\ x >= 0 /\ y >= 0 BY <2>1
  <2>3. wd = 1 => w # 0 BY <1>1, <1>3, <1>8, Zenon
  <2>4. d >= 2 BY <1>8, AxiAssumption
  <2>5. x >= y /\ w <= x BY <1>2, <1>5, <1>8, Zenon
  <2>. QED BY <1>1, <1>8, <2>2, <2>3, <2>4, <2>5, Zenon
<1>11. n.w_buffer_level = Writes'
  <2>1. w + wq - wd = w - wd + wq BY <1>9
  <2>. QED BY <1>10, <2>1, Zenon
<1>12. wq = 1 => w < x + p
  <2>. SUFFICES ASSUME wq = 1 PROVE w < x + p OBVIOUS
  <2>1. CASE ~rmw_request(b)
    <3>1. x > w BY <1>1, <1>2, <1>4, <1>8, <2>1, Zenon
    <3>. QED BY <1>9, <3>1
  <2>2. CASE rmw_request(b)
    <3>1. b.rmw = "WRITE" /\ ~b.rmw_cmd_done BY <1>6, <1>7, <2>2, Zenon
    <3>2. w = 0 BY <1>2, <1>8, <3>1, Zenon
    <3>3. CASE b.rmw_data_done
      <4>1. x >= 1 BY <1>2, <1>8, <3>1, <3>3, Zenon
      <4>. QED BY <1>9, <3>2, <4>1
    <3>4. CASE ~b.rmw_data_done /\ FifoRoom(b.w_buffer)
      <4>1. p = 1 BY <1>1, <1>4, <3>1, <3>4, Zenon
      <4>. QED BY <1>9, <1>10, <3>2, <4>1
    <3>5. CASE ~FifoRoom(b.w_buffer)
      <4>1. ~(y < d) BY <1>8, <3>5, Zenon DEF FifoRoom
      <4>. QED BY <1>9, <1>10, <3>2, <4>1
    <3>. QED BY <3>3, <3>4, <3>5
  <2>. QED BY <2>1, <2>2
<1>13. Writes' <= Level(n.w_buffer)
  <2>1. w - wd + wq <= x + p - wd BY <1>9, <1>10, <1>12
  <2>. QED BY <1>10, <2>1, Zenon
<1>14. n.w_buffer.out = <<>> => Count(port'.cmds, "write") = 0
  <2>. SUFFICES ASSUME n.w_buffer.out = <<>> PROVE Count(port'.cmds, "write") = 0 OBVIOUS
  <2>1. b.w_buffer.inner = <<>> /\ (b.w_buffer.out = <<>> \/ wd = 1) BY <1>1, Zenon
  <2>2. CASE b.w_buffer.out = <<>>
    <3>1. x = 0 BY <1>5, <1>8, <2>1, <2>2, Zenon
    <3>2. w - wd = 0 BY <1>9, <1>10, <3>1
    <3>. QED BY <1>10, <3>2, Zenon
  <2>3. CASE b.w_buffer.out # <<>>
    <3>1. x = 1 /\ wd = 1 BY <1>5, <1>8, <2>1, <2>3, Zenon
    <3>2. w - wd = 0 BY <1>9, <1>10, <3>1
    <3>. QED BY <1>10, <3>2, Zenon
  <2>. QED BY <2>2, <2>3
<1>15. wd = 1 => Writes # 0 BY <1>8, <1>10, Zenon
<1>16. Writes = 0 => Writes' = wq
  <2>1. w = 0 => w - wd + wq = wq BY <1>9, <1>10
  <2>. QED BY <1>8, <1>10, <2>1, Zenon
<1>17. b.rmw = "WRITE" /\ (p = 1 \/ b.rmw_data_done) => Level(n.w_buffer) >= 1
  <2>. SUFFICES ASSUME b.rmw = "WRITE", p = 1 \/ b.rmw_data_done PROVE Level(n.w_buffer) >= 1 OBVIOUS
  <2>1. x + p - wd >= 1
    <3>1. CASE p = 1 BY <1>9, <1>10, <3>1
    <3>2. CASE b.rmw_data_done
      <4>1. w = 0 /\ x >= 1 BY <1>2, <1>8, <3>2, Zenon
      <4>. QED BY <1>9, <1>10, <4>1
    <3>. QED BY <3>1, <3>2
  <2>. QED BY <1>10, <2>1, Zenon
<1>. QED BY <1>6, <1>7, <1>11, <1>13, <1>14, <1>15, <1>16, <1>17, Zenon DEF WritesKept

\* And of the read path, whose buffer a read-modify-write finds empty and
\* leaves so.
ReadsKept(e) ==
    LET b == bridge
        n == bridge'
    IN /\ b.rmw = "IDLE" => /\ n.r_buffer_level = Reads' + Level(n.r_buffer)
                            /\ n.r_buffer_level <= buffer_depth
       /\ b.rmw # "IDLE" \/ (rmw_request(b) /\ rmw_rgrant(b, Seen(e))) =>
              n.r_buffer_level = 0 /\ Level(n.r_buffer) = 0
       /\ b.rmw = "IDLE" /\ rmw_request(b) /\ rmw_rgrant(b, Seen(e)) => Reads' = 0
       /\ b.rmw = "READ" => Reads' = IF e.ready THEN 1 ELSE 0
       /\ b.rmw = "MODIFY" => Reads' = IF e.ret THEN 0 ELSE 1
       /\ b.rmw = "WRITE" => Reads' = 0

LEMMA AxiReturned ==
    ASSUME AxiBooks, InTime, NEW e \in PortInputs, AxiSends(Seen(e)),
           NEW t \in Bits, NEW wq \in Bits, NEW rq \in Bits, NEW rr \in Bits,
           NEW wd \in Bits, NEW g \in Bits, NEW p \in Bits, NEW s \in Bits,
           AxiTurn(e, t, wq, rq, rr, wd, g, p, s)
    PROVE  ReadsKept(e)
<1>. DEFINE b == bridge
            n == bridge'
            c == AxiCmd(b)
            i == Seen(e)
<1>1. /\ rq = 1 <=> e.ready /\ c # <<>> /\ ~Head(c).we
      /\ rr = 1 <=> e.ready /\ c # <<>> /\ ~Head(c).we /\ ~rmw_request(b)
      /\ g = 1 <=> e.ret
      /\ s = 1 <=> e.ret /\ ~r_bypass(b, i)
      /\ Reads' = Reads - g + rq
      /\ n.r_buffer_level = b.r_buffer_level + rr - t
      /\ Level(n.r_buffer) = Level(b.r_buffer) + s - t
      /\ t = 1 => Level(b.r_buffer) # 0
  BY Zenon DEF AxiTurn
<1>2. /\ b.rmw \in RmwStates /\ FifoTyped(b.r_buffer) /\ (b.rmw # "IDLE" => b.with_rmw)
      /\ IF b.rmw = "IDLE" THEN b.r_buffer_level = Reads + Level(b.r_buffer) /\ b.r_buffer_level <= buffer_depth
         ELSE b.r_buffer_level = 0 /\ Level(b.r_buffer) = 0 /\ Reads = IF b.rmw = "MODIFY" THEN 1 ELSE 0
  BY DEF AxiBooks
<1>3. Reads \in Nat /\ (e.ret => Reads # 0)
  BY PortOwes DEF InTime
<1>4. /\ ~rmw_request(b) /\ c # <<>> /\ ~Head(c).we => b.r_buffer_level # buffer_depth
      /\ rmw_request(b) /\ c # <<>> =>
            \/ b.rmw = "READ" /\ ~Head(c).we
            \/ b.rmw = "WRITE" /\ ~b.rmw_cmd_done /\ Head(c).we
      /\ b.rmw = "READ" => c # <<>>
      /\ r_buffer_queue(b, i) <=> i.cmd_ready /\ c # <<>> /\ ~Head(c).we /\ ~rmw_request(b)
  BY Zenon DEF AxiSends
<1>5. Level(b.r_buffer) \in Nat BY <1>2, Levels, Zenon
<1>6. b.rmw # "IDLE" => rmw_request(b) BY <1>2 DEF rmw_request
<1>7. rmw_request(b) => /\ rr = 0 /\ ~r_buffer_queue(b, i)
                        /\ rq = 1 => b.rmw = "READ"
                        /\ r_bypass(b, i) <=> b.r_buffer_level = 0
                        /\ rmw_rgrant(b, i) => b.r_buffer_level = 0
  <2>. HIDE DEF c
  <2>. SUFFICES ASSUME rmw_request(b)
                PROVE  /\ rr = 0 /\ ~r_buffer_queue(b, i)
                       /\ rq = 1 => b.rmw = "READ"
                       /\ r_bypass(b, i) <=> b.r_buffer_level = 0
                       /\ rmw_rgrant(b, i) => b.r_buffer_level = 0
    OBVIOUS
  <2>1. rr # 1 BY <1>1, Zenon
  <2>2. rr = 0 BY <2>1 DEF Bits
  <2>3. ~r_buffer_queue(b, i) BY <1>4, Zenon
  <2>4. rq = 1 => b.rmw = "READ" BY <1>1, <1>4, Zenon
  <2>5. r_bypass(b, i) <=> b.r_buffer_level = 0 BY <2>3, Zenon DEF r_bypass, rmw_rgrant
  <2>6. rmw_rgrant(b, i) => b.r_buffer_level = 0 BY Zenon DEF rmw_rgrant
  <2>. QED BY <2>2, <2>3, <2>4, <2>5, <2>6, Zenon
<1>. HIDE DEF c, i
<1>8. PICK r \in Int, x \in Int, d \in Int : r = Reads /\ x = Level(b.r_buffer) /\ d = buffer_depth
  <2>1. Reads \in Int /\ Level(b.r_buffer) \in Int /\ buffer_depth \in Int BY <1>3, <1>5, AxiAssumption
  <2>. QED BY <2>1, Zenon
<1>9. /\ r \in Int /\ x \in Int /\ d \in Int /\ t \in {0, 1} /\ rq \in {0, 1} /\ rr \in {0, 1}
      /\ g \in {0, 1} /\ s \in {0, 1}
  BY <1>8 DEF Bits
<1>10. r >= 0 /\ x >= 0 /\ (g = 1 => r # 0) /\ (t = 1 => x # 0) /\ d >= 2
  <2>1. r \in Nat /\ x \in Nat BY <1>3, <1>5, <1>8, Zenon
  <2>2. d >= 2 BY <1>8, AxiAssumption
  <2>3. (g = 1 => r # 0) /\ (t = 1 => x # 0) BY <1>1, <1>3, <1>8, Zenon
  <2>. QED BY <2>1, <2>2, <2>3
<1>11. Reads' = r - g + rq /\ Level(n.r_buffer) = x + s - t /\ (s = 1 => g = 1) BY <1>1, <1>8, Zenon
<1>12. ASSUME b.rmw = "IDLE" PROVE ReadsKept(e)
  <2>0. b.rmw # "READ" /\ b.rmw # "MODIFY" /\ b.rmw # "WRITE" BY <1>12
  <2>1. b.r_buffer_level = r + x /\ r + x <= d
    <3>1. b.r_buffer_level = Reads + Level(b.r_buffer) /\ b.r_buffer_level <= buffer_depth BY <1>2, <1>12
    <3>. QED BY <1>8, <3>1, Zenon
  <2>2. n.r_buffer_level = (r + x) + rr - t BY <1>1, <2>1, Zenon
  <2>3. CASE ~rmw_request(b)
    <3>1. ~r_bypass(b, i) BY <2>3, Zenon DEF r_bypass
    <3>2. s = 1 <=> g = 1 BY <1>1, <3>1, Zenon
    <3>3. rr = 1 <=> rq = 1 BY <1>1, <2>3, Zenon
    <3>4. rr = 1 => r + x # d BY <1>1, <1>4, <1>8, <2>1, <2>3, Zenon
    <3>5. (r + x) + rr - t = (r - g + rq) + (x + s - t) /\ (r + x) + rr - t <= d
      BY <1>9, <2>1, <3>2, <3>3, <3>4
    <3>6. /\ n.r_buffer_level = Reads' + Level(n.r_buffer) /\ n.r_buffer_level <= buffer_depth
      BY <1>8, <1>11, <2>2, <3>5, Zenon
    <3>. QED BY <2>0, <2>3, <3>6, <1>12, Zenon DEF ReadsKept
  <2>4. CASE rmw_request(b)
    <3>1. rr = 0 /\ rq # 1 BY <1>7, <2>0, <2>4, Zenon
    <3>2. r + x # 0 => (s = 1 <=> g = 1) BY <1>1, <1>7, <2>1, <2>4, Zenon
    <3>3. r + x = 0 => s = 0 /\ g = 0 /\ t = 0 /\ r = 0 /\ x = 0
      <4>1. r + x = 0 => g # 1 /\ t # 1 /\ r = 0 /\ x = 0 BY <1>9, <1>10
      <4>2. r + x = 0 => s # 1 BY <1>11, <4>1, Zenon
      <4>. QED BY <1>9, <4>1, <4>2
    <3>4. rq = 0 BY <1>9, <3>1
    <3>5. (r + x) + rr - t = (r - g + rq) + (x + s - t)
      <4>1. CASE r + x # 0 BY <1>9, <3>1, <3>2, <3>4, <4>1
      <4>2. CASE r + x = 0 BY <1>9, <3>1, <3>3, <3>4, <4>2
      <4>. QED BY <4>1, <4>2
    <3>6. (r + x) + rr - t <= d BY <1>9, <2>1, <3>1
    <3>7. n.r_buffer_level = Reads' + Level(n.r_buffer) /\ n.r_buffer_level <= buffer_depth
      BY <1>8, <1>11, <2>2, <3>5, <3>6, Zenon
    <3>8. rmw_rgrant(b, i) => n.r_buffer_level = 0 /\ Level(n.r_buffer) = 0 /\ Reads' = 0
      <4>. SUFFICES ASSUME rmw_rgrant(b, i) PROVE n.r_buffer_level = 0 /\ Level(n.r_buffer) = 0 /\ Reads' = 0 OBVIOUS
      <4>1. r + x = 0 BY <1>7, <2>1, <2>4, Zenon
      <4>2. (r + x) + rr - t = 0 /\ x + s - t = 0 /\ r - g + rq = 0 BY <1>9, <3>1, <3>3, <3>4, <4>1
      <4>. QED BY <1>11, <2>2, <4>2, Zenon
    <3>. QED BY <1>12, <2>0, <3>7, <3>8, Zenon DEF ReadsKept, i
  <2>. QED BY <2>3, <2>4
<1>13. ASSUME b.rmw # "IDLE" PROVE ReadsKept(e)
  <2>1. b.r_buffer_level = 0 /\ x = 0 /\ r = IF b.rmw = "MODIFY" THEN 1 ELSE 0 BY <1>2, <1>8, <1>13
  <2>2. rmw_request(b) BY <1>6, <1>13, Zenon
  <2>3. rr = 0 /\ r_bypass(b, i) BY <1>7, <2>1, <2>2, Zenon
  <2>4. s = 0 /\ t = 0
    <3>1. s # 1 BY <1>1, <2>3, Zenon
    <3>2. t # 1 BY <1>10, <2>1, Zenon
    <3>. QED BY <1>9, <3>1, <3>2
  <2>5. n.r_buffer_level = 0 /\ Level(n.r_buffer) = 0
    <3>1. 0 + rr - t = 0 /\ x + s - t = 0 BY <1>9, <2>1, <2>3, <2>4
    <3>. QED BY <1>1, <1>11, <2>1, <3>1, Zenon
  <2>6. b.rmw = "READ" => Reads' = IF e.ready THEN 1 ELSE 0
    <3>. SUFFICES ASSUME b.rmw = "READ" PROVE Reads' = IF e.ready THEN 1 ELSE 0 OBVIOUS
    <3>1. r = 0 BY <2>1
    <3>2. c # <<>> /\ ~Head(c).we
      <4>1. b.rmw # "WRITE" OBVIOUS
      <4>. QED BY <1>4, <2>2, <4>1, Zenon
    <3>3. rq = 1 <=> e.ready BY <1>1, <3>2, Zenon
    <3>4. r - g + rq = rq BY <1>9, <1>10, <3>1
    <3>5. rq = IF e.ready THEN 1 ELSE 0 BY <1>9, <3>3
    <3>. QED BY <1>11, <3>4, <3>5, Zenon
  <2>7. b.rmw # "READ" => Reads' = r - g
    <3>1. b.rmw # "READ" => rq # 1 BY <1>7, <2>2, Zenon
    <3>2. rq # 1 => r - g + rq = r - g BY <1>9
    <3>. QED BY <1>11, <3>1, <3>2, Zenon
  <2>8. b.rmw = "MODIFY" => Reads' = IF e.ret THEN 0 ELSE 1
    <3>. SUFFICES ASSUME b.rmw = "MODIFY" PROVE Reads' = IF e.ret THEN 0 ELSE 1 OBVIOUS
    <3>1. r = 1 /\ b.rmw # "READ" BY <2>1
    <3>2. CASE e.ret
      <4>1. g = 1 BY <1>1, <3>2, Zenon
      <4>2. r - g = 0 BY <3>1, <4>1
      <4>. QED BY <2>7, <3>1, <3>2, <4>2, Zenon
    <3>3. CASE ~e.ret
      <4>1. g # 1 BY <1>1, <3>3, Zenon
      <4>2. r - g = 1 BY <1>9, <3>1, <4>1
      <4>. QED BY <2>7, <3>1, <3>3, <4>2, Zenon
    <3>. QED BY <3>2, <3>3
  <2>9. b.rmw = "WRITE" => Reads' = 0
    <3>. SUFFICES ASSUME b.rmw = "WRITE" PROVE Reads' = 0 OBVIOUS
    <3>1. r = 0 /\ b.rmw # "READ" BY <2>1
    <3>2. r - g = 0 BY <1>9, <1>10, <3>1
    <3>. QED BY <2>7, <3>1, <3>2, Zenon
  <2>. QED BY <1>13, <2>5, <2>6, <2>8, <2>9, Zenon DEF ReadsKept
<1>. QED BY <1>12, <1>13, Zenon

LEMMA AxiStep ==
    ASSUME InTime, AxiBooks, NEW e \in PortInputs, AxiUserTick(e)
    PROVE  InTime' /\ AxiBooks'
<1>. DEFINE b == bridge
            n == bridge'
            i == Seen(e)
<1>1. PICK t \in Bits, wq \in Bits, rq \in Bits, rr \in Bits,
           wd \in Bits, g \in Bits, p \in Bits, s \in Bits : AxiTurn(e, t, wq, rq, rr, wd, g, p, s)
  BY AxiServes, Zenon
<1>2. InTime' BY AxiServes, Zenon
<1>3. AxiSends(i)
  <2>1. b.rmw # "IDLE" => rmw_request(b) BY DEF rmw_request, AxiBooks
  <2>. QED BY <2>1, AxiCommands, Zenon
<1>4. /\ n.w_buffer_level = Writes' /\ Writes' <= Level(n.w_buffer)
      /\ n.w_buffer.out = <<>> => Count(port'.cmds, "write") = 0
      /\ Writes = 0 => Writes' = wq
      /\ wq = 1 => b.rmw = "IDLE" \/ (b.rmw = "WRITE" /\ ~b.rmw_cmd_done)
      /\ wq = 1 => ~(b.rmw = "IDLE" /\ rmw_request(b))
      /\ b.rmw = "WRITE" /\ (p = 1 \/ b.rmw_data_done) => Level(n.w_buffer) >= 1
  <2>1. WritesKept(wq, wd, p) BY <1>1, <1>3, AxiWritten, Zenon
  <2>. QED BY <2>1, Zenon DEF WritesKept
<1>5. /\ b.rmw = "IDLE" => /\ n.r_buffer_level = Reads' + Level(n.r_buffer)
                           /\ n.r_buffer_level <= buffer_depth
      /\ b.rmw # "IDLE" \/ (rmw_request(b) /\ rmw_rgrant(b, i)) =>
             n.r_buffer_level = 0 /\ Level(n.r_buffer) = 0
      /\ b.rmw = "IDLE" /\ rmw_request(b) /\ rmw_rgrant(b, i) => Reads' = 0
      /\ b.rmw = "READ" => Reads' = IF e.ready THEN 1 ELSE 0
      /\ b.rmw = "MODIFY" => Reads' = IF e.ret THEN 0 ELSE 1
      /\ b.rmw = "WRITE" => Reads' = 0
  <2>1. ReadsKept(e) BY <1>1, <1>3, AxiReturned, Zenon
  <2>. QED BY <2>1, Zenon DEF ReadsKept
<1>6. /\ p = 1 <=> w_sink(b) # <<>> /\ FifoRoom(b.w_buffer)
      /\ wq = 1 <=> e.ready /\ AxiCmd(b) # <<>> /\ Head(AxiCmd(b)).we
      /\ AxiFields(n) /\ n.with_rmw = b.with_rmw /\ RmwMoves(n, i)
      /\ FifoTyped(n.w_buffer) /\ FifoTyped(n.r_buffer)
  BY <1>1, Zenon DEF AxiTurn
<1>7. /\ b.rmw \in RmwStates /\ (b.rmw # "IDLE" => b.with_rmw)
      /\ b.w_buffer_level = Writes
      /\ b.rmw \in {"READ", "MODIFY"} => Writes = 0 /\ ~b.rmw_cmd_done /\ ~b.rmw_data_done
      /\ b.rmw = "WRITE" => /\ b.rmw_cmd_done => ~b.rmw_data_done
                            /\ ~b.rmw_cmd_done => Writes = 0
      /\ b.rmw = "MODIFY" => Reads = 1
  BY DEF AxiBooks
<1>8. (i.cmd_ready <=> e.ready) /\ (i.rdata # <<>> <=> e.ret)
  <2>1. i.cmd_ready = e.ready /\ i.rdata = rdata(e) BY DEF Seen
  <2>2. rdata(e) # <<>> <=> e.ret BY PortOwes DEF InTime
  <2>. QED BY <2>1, <2>2, Zenon
<1>9. wq \in {0, 1} /\ 0 # 1 BY <1>1 DEF Bits
<1>. HIDE DEF i
<1>. DEFINE Kept == /\ n.rmw \in RmwStates /\ (n.rmw # "IDLE" => n.with_rmw)
                    /\ IF n.rmw = "IDLE" THEN n.r_buffer_level = Reads' + Level(n.r_buffer) /\ n.r_buffer_level <= buffer_depth
                       ELSE n.r_buffer_level = 0 /\ Level(n.r_buffer) = 0 /\ Reads' = IF n.rmw = "MODIFY" THEN 1 ELSE 0
                    /\ n.rmw \in {"READ", "MODIFY"} => Writes' = 0 /\ ~n.rmw_cmd_done /\ ~n.rmw_data_done
                    /\ n.rmw = "WRITE" => /\ n.rmw_cmd_done => ~n.rmw_data_done
                                          /\ ~n.rmw_cmd_done => Writes' = 0
                                          /\ n.rmw_data_done => Level(n.w_buffer) >= 1
<1>10. ASSUME b.rmw = "IDLE" PROVE Kept
  <2>1. /\ n.rmw_cmd_done = FALSE /\ n.rmw_data_done = FALSE
        /\ n.rmw = IF rmw_request(b) /\ rmw_rgrant(b, i) /\ rmw_wgrant(b, i) THEN "READ" ELSE "IDLE"
    BY <1>6, <1>10, Zenon DEF RmwMoves
  <2>2. CASE rmw_request(b) /\ rmw_rgrant(b, i) /\ rmw_wgrant(b, i)
    <3>1. n.rmw = "READ" BY <2>1, <2>2
    <3>2. b.with_rmw BY <2>2 DEF rmw_request
    <3>3. Writes' = 0
      <4>1. Writes = 0 BY <1>7, <2>2 DEF rmw_wgrant
      <4>2. wq # 1 BY <1>4, <1>10, <2>2, Zenon
      <4>. QED BY <1>4, <1>9, <4>1, <4>2
    <3>4. n.r_buffer_level = 0 /\ Level(n.r_buffer) = 0 /\ Reads' = 0 BY <1>5, <1>10, <2>2, Zenon
    <3>. QED BY <1>6, <2>1, <3>1, <3>2, <3>3, <3>4 DEF RmwStates
  <2>3. CASE ~(rmw_request(b) /\ rmw_rgrant(b, i) /\ rmw_wgrant(b, i))
    <3>1. n.rmw = "IDLE" BY <2>1, <2>3, Zenon
    <3>. QED BY <1>5, <1>10, <3>1 DEF RmwStates
  <2>. QED BY <2>2, <2>3, Zenon
<1>11. ASSUME b.rmw = "READ" PROVE Kept
  <2>1. /\ n.rmw_cmd_done = b.rmw_cmd_done /\ n.rmw_data_done = b.rmw_data_done
        /\ n.rmw = IF i.cmd_ready THEN "MODIFY" ELSE "READ"
    BY <1>6, <1>11, Zenon DEF RmwMoves
  <2>2. Writes = 0 /\ ~b.rmw_cmd_done /\ ~b.rmw_data_done /\ b.with_rmw BY <1>7, <1>11
  <2>3. Writes' = 0
    <3>1. wq # 1 BY <1>4, <1>11
    <3>. QED BY <1>4, <1>9, <2>2, <3>1
  <2>4. n.r_buffer_level = 0 /\ Level(n.r_buffer) = 0 /\ Reads' = IF e.ready THEN 1 ELSE 0 BY <1>5, <1>11
  <2>5. CASE e.ready
    <3>1. n.rmw = "MODIFY" /\ Reads' = 1 BY <1>8, <2>1, <2>4, <2>5
    <3>. QED BY <1>6, <2>1, <2>2, <2>3, <2>4, <3>1 DEF RmwStates
  <2>6. CASE ~e.ready
    <3>1. n.rmw = "READ" /\ Reads' = 0 BY <1>8, <2>1, <2>4, <2>6
    <3>. QED BY <1>6, <2>1, <2>2, <2>3, <2>4, <3>1 DEF RmwStates
  <2>. QED BY <2>5, <2>6, Zenon
<1>12. ASSUME b.rmw = "MODIFY" PROVE Kept
  <2>1. /\ n.rmw_cmd_done = b.rmw_cmd_done /\ n.rmw_data_done = b.rmw_data_done
        /\ n.rmw = IF i.rdata # <<>> THEN "WRITE" ELSE "MODIFY"
    BY <1>6, <1>12, Zenon DEF RmwMoves
  <2>2. Writes = 0 /\ ~b.rmw_cmd_done /\ ~b.rmw_data_done /\ b.with_rmw BY <1>7, <1>12
  <2>3. Writes' = 0
    <3>1. wq # 1 BY <1>4, <1>12
    <3>. QED BY <1>4, <1>9, <2>2, <3>1
  <2>4. n.r_buffer_level = 0 /\ Level(n.r_buffer) = 0 /\ Reads' = IF e.ret THEN 0 ELSE 1 BY <1>5, <1>12
  <2>5. CASE e.ret
    <3>1. n.rmw = "WRITE" /\ Reads' = 0 BY <1>8, <2>1, <2>4, <2>5
    <3>. QED BY <1>6, <2>1, <2>2, <2>3, <2>4, <3>1 DEF RmwStates
  <2>6. CASE ~e.ret
    <3>1. n.rmw = "MODIFY" /\ Reads' = 1 BY <1>8, <2>1, <2>4, <2>6
    <3>. QED BY <1>6, <2>1, <2>2, <2>3, <2>4, <3>1 DEF RmwStates
  <2>. QED BY <2>5, <2>6, Zenon
<1>13. ASSUME b.rmw = "WRITE" PROVE Kept
  <2>1. /\ n.rmw_cmd_done = (b.rmw_cmd_done \/ i.cmd_ready)
        /\ n.rmw_data_done = (b.rmw_data_done \/ w_taken(b))
        /\ n.rmw = IF (i.cmd_ready \/ b.rmw_cmd_done) /\ (FifoRoom(b.w_buffer) \/ b.rmw_data_done)
                   THEN "IDLE" ELSE "WRITE"
    BY <1>6, <1>13, Zenon DEF RmwMoves
  <2>2. n.r_buffer_level = 0 /\ Level(n.r_buffer) = 0 /\ Reads' = 0 BY <1>5, <1>13
  <2>3. CASE (i.cmd_ready \/ b.rmw_cmd_done) /\ (FifoRoom(b.w_buffer) \/ b.rmw_data_done)
    <3>1. n.rmw = "IDLE" BY <2>1, <2>3, Zenon
    <3>2. 0 = 0 + 0 /\ 0 <= buffer_depth BY AxiAssumption
    <3>3. n.r_buffer_level = Reads' + Level(n.r_buffer) /\ n.r_buffer_level <= buffer_depth BY <2>2, <3>2, Zenon
    <3>. QED BY <3>1, <3>3 DEF RmwStates
  <2>4. CASE ~((i.cmd_ready \/ b.rmw_cmd_done) /\ (FifoRoom(b.w_buffer) \/ b.rmw_data_done))
    <3>1. n.rmw = "WRITE" /\ n.with_rmw BY <1>6, <1>7, <1>13, <2>1, <2>4
    <3>2. n.rmw_cmd_done => ~n.rmw_data_done BY <2>1, <2>4, Zenon DEF w_taken
    <3>3. ~n.rmw_cmd_done => Writes' = 0
      <4>. SUFFICES ASSUME ~n.rmw_cmd_done PROVE Writes' = 0 OBVIOUS
      <4>1. ~b.rmw_cmd_done /\ ~e.ready BY <1>8, <2>1
      <4>2. Writes = 0 BY <1>7, <1>13, <4>1, Zenon
      <4>3. wq # 1 BY <1>6, <4>1, Zenon
      <4>. QED BY <1>4, <1>9, <4>2, <4>3
    <3>4. n.rmw_data_done => Level(n.w_buffer) >= 1 BY <1>4, <1>6, <1>13, <2>1, Zenon DEF w_taken
    <3>. QED BY <2>2, <3>1, <3>2, <3>3, <3>4 DEF RmwStates
  <2>. QED BY <2>3, <2>4, Zenon
<1>14. Kept BY <1>7, <1>10, <1>11, <1>12, <1>13 DEF RmwStates
<1>. QED BY <1>2, <1>4, <1>6, <1>14, Zenon DEF AxiBooks

-----------------------------------------------------------------------------
(* The down converter, at a ratio of two.                                    *)
DownTyped(d) ==
    /\ {"state", "cmd_count", "cmd_we", "wmux"} \subseteq DOMAIN d
    /\ d.state \in {"IDLE", "CONVERT"} /\ d.cmd_count \in {0, 1} /\ d.wmux \in {0, 1}

\* Writes that the command being converted still sends.
ToSend(d) == IF d.state = "CONVERT" /\ d.cmd_we THEN 2 - d.cmd_count ELSE 0

\* What a cycle makes of the converter d, when n is the next one.
Converts(n, d, c, i) ==
    /\ DownTyped(n)
    /\ ToSend(n) = ToSend(d) - (IF d.state = "CONVERT" /\ d.cmd_we /\ i.cmd_ready THEN 1 ELSE 0)
                             + (IF d.state = "IDLE" /\ c.cmd # <<>> /\ Head(c.cmd).we THEN 2 ELSE 0)
    /\ n.wmux = IF i.wdata_ready /\ c.wdata # <<>> THEN 1 - d.wmux ELSE d.wmux

(* A command is sent as two; the multiplexer turns with the data fetched.    *)
LEMMA ConverterMoves ==
    ASSUME NEW d, DownTyped(d), NEW c, NEW i
    PROVE  Converts(DownNext(d, 2, c, i), d, c, i)
<1>. DEFINE n == DownNext(d, 2, c, i)
            convert == d.state = "CONVERT" /\ i.cmd_ready
            accept == d.state = "IDLE" /\ c.cmd # <<>>
<1>1. /\ {"state", "cmd_count", "cmd_we", "wmux"} \subseteq DOMAIN n
      /\ n.state = IF accept THEN "CONVERT" ELSE IF convert /\ d.cmd_count = 1 THEN "IDLE" ELSE d.state
      /\ n.cmd_count = IF accept THEN 0 ELSE IF convert THEN (d.cmd_count + 1) % 2 ELSE d.cmd_count
      /\ n.cmd_we = IF accept THEN Head(c.cmd).we ELSE d.cmd_we
      /\ n.wmux = IF i.wdata_ready /\ c.wdata # <<>> THEN (d.wmux + 1) % 2 ELSE d.wmux
  BY DEF DownNext, DownCmdReady
<1>2. (0 + 1) % 2 = 1 /\ (1 + 1) % 2 = 0 OBVIOUS
<1>. SUFFICES Converts(n, d, c, i) OBVIOUS
<1>. HIDE DEF n
<1>3. /\ n.wmux = (IF i.wdata_ready /\ c.wdata # <<>> THEN 1 - d.wmux ELSE d.wmux) /\ n.wmux \in {0, 1}
  BY <1>1, <1>2 DEF DownTyped
<1>4. CASE accept
  <2>1. n.state = "CONVERT" /\ n.cmd_count = 0 /\ n.cmd_we = Head(c.cmd).we /\ d.state = "IDLE" BY <1>1, <1>4
  <2>. QED BY <1>1, <1>3, <1>4, <2>1 DEF DownTyped, ToSend, Converts
<1>5. CASE ~accept /\ convert
  <2>1. CASE d.cmd_count = 0
    <3>1. n.state = "CONVERT" /\ n.cmd_count = 1 /\ n.cmd_we = d.cmd_we /\ d.state = "CONVERT" /\ i.cmd_ready
      BY <1>1, <1>2, <1>5, <2>1
    <3>. QED BY <1>1, <1>3, <1>5, <2>1, <3>1 DEF DownTyped, ToSend, Converts
  <2>2. CASE d.cmd_count = 1
    <3>1. n.state = "IDLE" /\ n.cmd_count = 0 /\ n.cmd_we = d.cmd_we /\ d.state = "CONVERT" /\ i.cmd_ready
      BY <1>1, <1>2, <1>5, <2>2
    <3>. QED BY <1>1, <1>3, <1>5, <2>2, <3>1 DEF DownTyped, ToSend, Converts
  <2>. QED BY <2>1, <2>2 DEF DownTyped
<1>6. CASE ~accept /\ ~convert
  <2>1. n.state = d.state /\ n.cmd_count = d.cmd_count /\ n.cmd_we = d.cmd_we BY <1>1, <1>6
  <2>. QED BY <1>1, <1>3, <1>6, <2>1 DEF DownTyped, ToSend, Converts
<1>. QED BY <1>4, <1>5, <1>6

\* What port_from sees of it.
LEMMA ConverterSeen ==
    ASSUME NEW d, NEW i
    PROVE  LET s == DownSeen(d, 2, i)
           IN /\ s.cmd_ready <=> d.state = "IDLE"
              /\ s.wdata_ready <=> i.wdata_ready /\ d.wmux = 1
<1>. DEFINE s == DownSeen(d, 2, i)
            word == IF d.strobe THEN <<[l \in Lanes(2) |-> d.parts[l + 1]]>> ELSE <<>>
<1>1. s = [cmd_ready |-> DownCmdReady(d), wdata_ready |-> i.wdata_ready /\ d.wmux = 2 - 1, rdata |-> word]
  BY Zenon DEF DownSeen
<1>. HIDE DEF s, word
<1>2. s.cmd_ready = DownCmdReady(d) /\ s.wdata_ready = (i.wdata_ready /\ d.wmux = 2 - 1) BY <1>1
<1>3. 2 - 1 = 1 OBVIOUS
<1>. QED BY <1>2, <1>3, Zenon DEF s, DownCmdReady

(* What it drives.                                                           *)
LEMMA ConverterDrives ==
    ASSUME NEW d, NEW c
    PROVE  LET o == DownDrives(d, 2, c)
           IN /\ Single(o.cmd) /\ o.rdata_ready
              /\ o.cmd # <<>> /\ Head(o.cmd).we <=> d.state = "CONVERT" /\ d.cmd_we
              /\ o.wdata # <<>> <=> c.wdata # <<>>
<1>. DEFINE o == DownDrives(d, 2, c)
<1>1. \A x, y : Head(<<[we |-> x, addr |-> y]>>).we = x /\ <<[we |-> x, addr |-> y]>> # <<>> OBVIOUS
<1>2. Single(o.cmd) BY DEF Single, DownDrives
<1>3. o.wdata # <<>> <=> c.wdata # <<>> BY QueueMoves DEF DownDrives
<1>. QED BY <1>1, <1>2, <1>3 DEF DownDrives

(* The parts of the writes of the user that are under way, or are still to   *)
(* be asked for: those of its data that were not fetched.                    *)
DownBooks ==
    /\ NativeTyped /\ DownTyped(bridge)
    /\ Writes + ToSend(bridge) + 2 * Asks(master.cmd, "write") + bridge.wmux = 2 * Len(master.wdata)

LEMMA DownStep ==
    ASSUME InTime, DownBooks, NEW e \in PortInputs, DownUserTick(e)
    PROVE  InTime' /\ DownBooks'
<1>. DEFINE c == [cmd |-> master.cmd, wdata |-> master.wdata]
            i == Seen(e)
            s == DownSeen(bridge, 2, i)
            o == DownDrives(bridge, 2, c)
            sends == IF bridge.state = "CONVERT" /\ bridge.cmd_we /\ e.ready THEN 1 ELSE 0
            f == IF wdata_ready(e) THEN 1 ELSE 0
<1>1. PICK next \in NativeMoves(s.cmd_ready) :
        port' = PortNext(e, o) /\ bridge' = DownNext(bridge, 2, c, i) /\ master' = NativeNext(s, next)
  BY Zenon DEF DownUserTick
<1>2. /\ i.wdata_ready <=> wdata_ready(e)
      /\ i.cmd_ready <=> e.ready
      /\ s.cmd_ready <=> bridge.state = "IDLE"
      /\ s.wdata_ready <=> wdata_ready(e) /\ bridge.wmux = 1
      /\ c.cmd = master.cmd /\ c.wdata = master.wdata
  <2>1. i.wdata_ready = wdata_ready(e) /\ i.cmd_ready = e.ready BY DEF Seen
  <2>2. c.cmd = master.cmd /\ c.wdata = master.wdata OBVIOUS
  <2>. HIDE DEF i, c
  <2>. QED BY <2>1, <2>2, ConverterSeen, Zenon
<1>3. Writes \in Nat /\ (wdata_ready(e) => Writes > 0) BY PortOwes DEF InTime
<1>4. NativeTyped /\ DownTyped(bridge) BY DEF DownBooks
<1>5. /\ Single(o.cmd) /\ o.rdata_ready
      /\ o.cmd # <<>> /\ Head(o.cmd).we <=> bridge.state = "CONVERT" /\ bridge.cmd_we
      /\ o.wdata # <<>> <=> master.wdata # <<>>
  <2>. HIDE DEF c
  <2>. QED BY <1>2, ConverterDrives, Zenon
<1>6. Converts(bridge', bridge, c, i) BY <1>1, <1>4, ConverterMoves, Zenon
<1>7. UserMoves(master', s, next) BY <1>1, <1>4, NativeUser, Zenon
<1>. HIDE DEF c, i, s, o
<1>8. NativeTyped' BY <1>4, <1>7 DEF UserMoves, NativeTyped
<1>9. /\ Asks(master.cmd, "write") \in {0, 1} /\ ToSend(bridge) \in {0, 1, 2} /\ bridge.wmux \in {0, 1}
      /\ Len(master.wdata) \in Nat /\ (master.wdata = <<>> <=> Len(master.wdata) = 0)
      /\ sends \in {0, 1} /\ f \in {0, 1}
  <2>1. ToSend(bridge) \in {0, 1, 2} BY <1>4 DEF ToSend, DownTyped
  <2>2. Queue(master.wdata) /\ bridge.wmux \in {0, 1} BY <1>4 DEF NativeTyped, DownTyped
  <2>3. Len(master.wdata) \in Nat /\ (master.wdata = <<>> <=> Len(master.wdata) = 0) BY <2>2, QueueMoves, Zenon
  <2>4. Asks(master.cmd, "write") \in {0, 1} BY DEF Asks
  <2>. QED BY <2>1, <2>2, <2>3, <2>4
<1>10. Writes + ToSend(bridge) + 2 * Asks(master.cmd, "write") + bridge.wmux = 2 * Len(master.wdata)
  BY DEF DownBooks
<1>11. PICK w \in Int, t \in {0, 1, 2}, a \in {0, 1}, x \in {0, 1}, d \in Int :
         /\ w = Writes /\ t = ToSend(bridge) /\ a = Asks(master.cmd, "write") /\ x = bridge.wmux
         /\ d = Len(master.wdata)
  BY <1>3, <1>9
<1>12. w \in Int /\ t \in {0, 1, 2} /\ a \in {0, 1} /\ x \in {0, 1} /\ d \in Int BY <1>11
<1>13. w + t + 2 * a + x = 2 * d /\ w >= 0 /\ d >= 0 BY <1>3, <1>9, <1>10, <1>11
<1>14. wdata_ready(e) => master.wdata # <<>>
  <2>1. wdata_ready(e) => w > 0 BY <1>3, <1>11
  <2>2. w > 0 => d # 0 BY <1>12, <1>13
  <2>. QED BY <1>9, <1>11, <2>1, <2>2, Zenon
<1>15. /\ InTime'
       /\ Writes' = Writes - (IF wdata_ready(e) THEN 1 ELSE 0) + (IF e.ready /\ o.cmd # <<>> /\ Head(o.cmd).we THEN 1 ELSE 0)
  <2>1. wdata_ready(e) => o.wdata # <<>> BY <1>5, <1>14, Zenon
  <2>. QED BY <1>1, <1>5, <2>1, Served, Zenon
<1>16. Writes' = w - f + sends
  <2>1. (IF e.ready /\ o.cmd # <<>> /\ Head(o.cmd).we THEN 1 ELSE 0) = sends BY <1>5
  <2>. HIDE DEF sends
  <2>. QED BY <1>11, <1>15, <2>1, Zenon
<1>. DEFINE takes == IF bridge.state = "IDLE" THEN a ELSE 0
<1>17. DownTyped(bridge') /\ ToSend(bridge') = t - sends + 2 * takes
  <2>1. ToSend(bridge') = t - sends + (IF bridge.state = "IDLE" /\ master.cmd # <<>> /\ Head(master.cmd).we THEN 2 ELSE 0)
    BY <1>2, <1>6, <1>11 DEF Converts
  <2>2. a = IF master.cmd # <<>> /\ Head(master.cmd).we THEN 1 ELSE 0 BY <1>11 DEF Asks, Is
  <2>3. (IF bridge.state = "IDLE" /\ master.cmd # <<>> /\ Head(master.cmd).we THEN 2 ELSE 0) = 2 * takes
    BY <2>2
  <2>4. DownTyped(bridge') BY <1>6, Zenon DEF Converts
  <2>. HIDE DEF sends, takes
  <2>. QED BY <2>1, <2>3, <2>4, Zenon
<1>18. bridge'.wmux = IF f = 1 THEN 1 - x ELSE x
  <2>1. bridge'.wmux = IF wdata_ready(e) THEN 1 - bridge.wmux ELSE bridge.wmux
    BY <1>2, <1>6, <1>14 DEF Converts
  <2>. QED BY <1>11, <2>1
<1>. DEFINE p == IF f = 1 /\ x = 1 THEN 1 ELSE 0
<1>19. PICK nw \in {0, 1} :
         /\ Asks(master'.cmd, "write") = a - takes + nw
         /\ Len(master'.wdata) = d - p + nw
  <2>1. PICK nw \in {0, 1} :
          /\ Asks(next, "write") = Asks(master.cmd, "write") - (IF s.cmd_ready THEN Asks(master.cmd, "write") ELSE 0) + nw
          /\ Len(master'.wdata) = Len(master.wdata) - (IF s.wdata_ready /\ master.wdata # <<>> THEN 1 ELSE 0) + nw
          /\ master'.cmd = next
    BY <1>7 DEF UserMoves
  <2>2. (IF s.cmd_ready THEN Asks(master.cmd, "write") ELSE 0) = takes BY <1>2, <1>11
  <2>3. (IF s.wdata_ready /\ master.wdata # <<>> THEN 1 ELSE 0) = p BY <1>2, <1>11, <1>14
  <2>. HIDE DEF takes, p
  <2>. QED BY <1>11, <2>1, <2>2, <2>3, Zenon
<1>20. takes \in {0, 1} /\ (takes = 1 => a = 1) BY <1>12
<1>21. nw \in {0, 1} BY <1>19
<1>22. PICK m \in {0, 1}, g \in {0, 1}, r \in {0, 1} : m = f /\ g = sends /\ r = takes BY <1>9, <1>20
<1>23. (w - m + g) + (t - g + 2 * r) + 2 * (a - r + nw) + (IF m = 1 THEN 1 - x ELSE x)
         = 2 * (d - (IF m = 1 /\ x = 1 THEN 1 ELSE 0) + nw)
  <2>1. m \in {0, 1} /\ g \in {0, 1} /\ r \in {0, 1} BY <1>22
  <2>2. CASE m = 0 BY <1>12, <1>13, <1>21, <2>1, <2>2
  <2>3. CASE m = 1 /\ x = 0 BY <1>12, <1>13, <1>21, <2>1, <2>3
  <2>4. CASE m = 1 /\ x = 1 BY <1>12, <1>13, <1>21, <2>1, <2>4
  <2>. QED BY <1>12, <2>1, <2>2, <2>3, <2>4
<1>. HIDE DEF f, sends, takes
<1>24. Writes' + ToSend(bridge') + 2 * Asks(master'.cmd, "write") + bridge'.wmux = 2 * Len(master'.wdata)
  BY <1>16, <1>17, <1>18, <1>19, <1>22, <1>23, Zenon DEF p
<1>. QED BY <1>8, <1>15, <1>17, <1>24, Zenon DEF DownBooks

(* A bus twice as wide: the data of a write is on the bus until the last     *)
(* part was fetched.                                                         *)
WideBooks ==
    /\ {"fsm", "converter"} \subseteq DOMAIN bridge /\ {"state"} \subseteq DOMAIN bridge.fsm
    /\ DownTyped(bridge.converter)
    /\ bridge.fsm.state \in {"CMD", "WRITE", "READ"} /\ {"req"} \subseteq DOMAIN master
    /\ Writes + ToSend(bridge.converter) + bridge.converter.wmux = IF bridge.fsm.state = "WRITE" THEN 2 ELSE 0
    /\ bridge.fsm.state = "WRITE" => stb /\ req.we

LEMMA WideStep ==
    ASSUME InTime, WideBooks, NEW e \in PortInputs, WbWideTick(e)
    PROVE  InTime' /\ WideBooks'
<1>. DEFINE fsm == bridge.fsm
            conv == bridge.converter
            i == Seen(e)
            s == DownSeen(conv, 2, i)
            c == WbDrives(fsm, 2)
            a == ack(fsm, 2, s)
            o == DownDrives(conv, 2, c)
            f == IF wdata_ready(e) THEN 1 ELSE 0
            sends == IF conv.state = "CONVERT" /\ conv.cmd_we /\ e.ready THEN 1 ELSE 0
            takes == IF conv.state = "IDLE" /\ fsm.state = "CMD" /\ stb /\ req.we THEN 2 ELSE 0
<1>1. PICK next \in BusMoves(a, WbAborts) :
        /\ port' = PortNext(e, o) /\ bridge' = [fsm |-> WbNext(fsm, 2, s), converter |-> DownNext(conv, 2, c, i)]
        /\ master'.req = next /\ DOMAIN master' = DOMAIN master
  <2>1. PICK next \in BusMoves(a, WbAborts), go \in BOOLEAN :
          /\ port' = PortNext(e, o) /\ bridge' = [fsm |-> WbNext(fsm, 2, s), converter |-> DownNext(conv, 2, c, i)]
          /\ master' = BusNext(a, dat_r(s), next, go)
    BY Zenon DEF WbWideTick
  <2>2. master'.req = next /\ DOMAIN master' = DOMAIN master BY <2>1 DEF BusNext, WideBooks
  <2>. QED BY <2>1, <2>2, Zenon
<1>2. /\ i.wdata_ready <=> wdata_ready(e)
      /\ i.cmd_ready <=> e.ready
      /\ s.cmd_ready <=> conv.state = "IDLE"
      /\ s.wdata_ready <=> wdata_ready(e) /\ conv.wmux = 1
  <2>1. i.wdata_ready = wdata_ready(e) /\ i.cmd_ready = e.ready BY DEF Seen
  <2>. HIDE DEF i
  <2>. QED BY <2>1, ConverterSeen, Zenon
<1>3. Writes \in Nat /\ (wdata_ready(e) => Writes > 0) BY PortOwes DEF InTime
<1>4. /\ DownTyped(conv) /\ {"state"} \subseteq DOMAIN fsm /\ fsm.state \in {"CMD", "WRITE", "READ"}
      /\ Writes + ToSend(conv) + conv.wmux = (IF fsm.state = "WRITE" THEN 2 ELSE 0)
      /\ fsm.state = "WRITE" => stb /\ req.we
  BY DEF WideBooks
<1>5. /\ c.cmd # <<>> <=> fsm.state = "CMD" /\ stb
      /\ c.cmd # <<>> => (Head(c.cmd).we <=> req.we)
      /\ c.wdata # <<>> <=> stb /\ req.we
  <2>1. \A x, y, z : Head(<<[we |-> x, adr |-> y, last |-> z]>>).we = x /\ <<[we |-> x, adr |-> y, last |-> z]>> # <<>>
    OBVIOUS
  <2>2. ~(2 <= 1) OBVIOUS
  <2>3. <<req.dat>> # <<>> BY QueueMoves
  <2>. QED BY <2>1, <2>2, <2>3 DEF WbDrives
<1>6. /\ fsm' = WbNext(fsm, 2, s) /\ conv' = DownNext(conv, 2, c, i) /\ {"fsm", "converter"} \subseteq DOMAIN bridge'
  BY <1>1
<1>7. /\ Single(o.cmd) /\ o.rdata_ready
      /\ o.cmd # <<>> /\ Head(o.cmd).we <=> conv.state = "CONVERT" /\ conv.cmd_we
      /\ o.wdata # <<>> <=> c.wdata # <<>>
  <2>. HIDE DEF c, conv
  <2>. QED BY ConverterDrives, Zenon
<1>8. Converts(conv', conv, c, i) BY <1>4, <1>6, ConverterMoves, Zenon
<1>9. ToSend(conv) \in {0, 1, 2} /\ conv.wmux \in {0, 1} BY <1>4 DEF ToSend, DownTyped
<1>10. PICK w \in Int, t \in {0, 1, 2}, x \in {0, 1} : w = Writes /\ t = ToSend(conv) /\ x = conv.wmux
  BY <1>3, <1>9
<1>11. /\ w \in Int /\ t \in {0, 1, 2} /\ x \in {0, 1} /\ w >= 0
       /\ w + t + x = (IF fsm.state = "WRITE" THEN 2 ELSE 0) /\ (wdata_ready(e) => w > 0)
  BY <1>3, <1>4, <1>10
<1>12. wdata_ready(e) => fsm.state = "WRITE" /\ c.wdata # <<>>
  <2>1. wdata_ready(e) => fsm.state = "WRITE" BY <1>11
  <2>. QED BY <1>4, <1>5, <2>1, Zenon
<1>13. wdata_ready(e) => o.wdata # <<>> BY <1>7, <1>12, Zenon
<1>14. port' = PortNext(e, o) BY <1>1
<1>15. WbDone(fsm, 2, s) /\ fsm.state = "WRITE" <=> fsm.state = "WRITE" /\ wdata_ready(e) /\ x = 1
  <2>1. fsm.state = "WRITE" => (WbDone(fsm, 2, s) <=> c.wdata # <<>> /\ s.wdata_ready) BY DEF WbDone
  <2>. QED BY <1>2, <1>10, <1>12, <2>1
<1>16. /\ {"state"} \subseteq DOMAIN fsm'
       /\ fsm.state = "CMD" => fsm'.state = IF stb /\ conv.state = "IDLE" THEN (IF req.we THEN "WRITE" ELSE "READ") ELSE "CMD"
       /\ fsm.state = "WRITE" => fsm'.state = IF wdata_ready(e) /\ x = 1 THEN "CMD" ELSE "WRITE"
       /\ fsm.state = "READ" => fsm'.state \in {"CMD", "READ"}
  <2>. DEFINE done == WbDone(fsm, 2, s)
              n == WbNext(fsm, 2, s)
  <2>1. CASE fsm.state = "CMD"
    <3>1. n = [state |-> IF stb /\ s.cmd_ready THEN (IF req.we THEN "WRITE" ELSE "READ") ELSE "CMD", aborted |-> FALSE]
      BY <2>1 DEF WbNext
    <3>. HIDE DEF n, s
    <3>. QED BY <1>2, <1>6, <2>1, <3>1 DEF n
  <2>2. CASE fsm.state \in {"WRITE", "READ"}
    <3>1. n = [state |-> IF done THEN "CMD" ELSE fsm.state, aborted |-> fsm.aborted \/ ~cyc]
      BY <2>2 DEF WbNext
    <3>. HIDE DEF n, done
    <3>2. {"state"} \subseteq DOMAIN n /\ n.state = IF done THEN "CMD" ELSE fsm.state BY <3>1
    <3>3. fsm.state = "WRITE" => (done <=> wdata_ready(e) /\ x = 1) BY <1>15 DEF done
    <3>4. fsm' = n BY <1>6 DEF n
    <3>. HIDE DEF s
    <3>. QED BY <2>2, <3>2, <3>3, <3>4
  <2>. QED BY <1>4, <2>1, <2>2
<1>17. fsm.state = "CMD" \/ (fsm.state = "WRITE" /\ ~(wdata_ready(e) /\ x = 1)) => ~a
  <2>1. fsm.state = "CMD" => ~WbDone(fsm, 2, s) BY DEF WbDone
  <2>. QED BY <1>15, <2>1 DEF ack
<1>18. stb /\ req.we /\ ~a => stb' /\ req'.we
  BY <1>1 DEF BusMoves, WbAborts, stb, req
<1>19. DOMAIN master' = DOMAIN master BY <1>1
<1>20. /\ DownTyped(conv') /\ ToSend(conv') = t - sends + takes
       /\ conv'.wmux = IF wdata_ready(e) THEN 1 - x ELSE x
  <2>. HIDE DEF i, s, c, a, o, conv, fsm
  <2>1. DownTyped(conv') BY <1>8 DEF Converts
  <2>2. conv'.wmux = IF wdata_ready(e) THEN 1 - conv.wmux ELSE conv.wmux BY <1>2, <1>8, <1>12 DEF Converts
  <2>3. ToSend(conv') = ToSend(conv) - sends + takes BY <1>2, <1>5, <1>8 DEF Converts
  <2>. QED BY <1>10, <2>1, <2>2, <2>3
<1>21. /\ InTime'
       /\ Writes' = Writes - (IF wdata_ready(e) THEN 1 ELSE 0) + (IF e.ready /\ o.cmd # <<>> /\ Head(o.cmd).we THEN 1 ELSE 0)
  <2>. HIDE DEF o
  <2>. QED BY <1>7, <1>13, <1>14, Served, Zenon
<1>22. Writes' = w - f + sends
  <2>1. (IF e.ready /\ o.cmd # <<>> /\ Head(o.cmd).we THEN 1 ELSE 0) = sends BY <1>7
  <2>. HIDE DEF sends, o
  <2>. QED BY <1>10, <1>21, <2>1, Zenon
<1>23. fsm.state = "CMD" /\ stb /\ req.we /\ conv.state = "IDLE" <=> takes = 2 OBVIOUS
<1>24. takes \in {0, 2} /\ f \in {0, 1} /\ sends \in {0, 1} /\ (f = 1 <=> wdata_ready(e)) OBVIOUS
<1>. HIDE DEF i, s, c, a, o, f, sends, takes, conv, fsm
<1>25. Writes' + ToSend(conv') + conv'.wmux = IF fsm'.state = "WRITE" THEN 2 ELSE 0
  <2>. DEFINE m == IF f = 1 THEN 1 - x ELSE x
              total == IF fsm'.state = "WRITE" THEN 2 ELSE 0
              before == IF fsm.state = "WRITE" THEN 2 ELSE 0
  <2>1. Writes' + ToSend(conv') + conv'.wmux = (w - f + sends) + (t - sends + takes) + m
    <3>1. conv'.wmux = m BY <1>20, <1>24
    <3>. QED BY <1>20, <1>22, <3>1, Zenon
  <2>2. total = before + takes - (IF f = 1 /\ x = 1 THEN 2 ELSE 0)
    BY <1>4, <1>12, <1>16, <1>23, <1>24
  <2>3. w + t + x = before BY <1>11
  <2>. HIDE DEF total, before
  <2>4. before \in {0, 2} BY DEF before
  <2>5. (w - f + sends) + (t - sends + takes) + m = before + takes - (IF f = 1 /\ x = 1 THEN 2 ELSE 0)
    <3>1. CASE f = 0 BY <1>11, <1>24, <2>3, <2>4, <3>1
    <3>2. CASE f = 1 /\ x = 0 BY <1>11, <1>24, <2>3, <2>4, <3>2
    <3>3. CASE f = 1 /\ x = 1 BY <1>11, <1>24, <2>3, <2>4, <3>3
    <3>. QED BY <1>11, <1>24, <3>1, <3>2, <3>3
  <2>. HIDE DEF m
  <2>. QED BY <2>1, <2>2, <2>5, Zenon DEF total
<1>26. fsm'.state \in {"CMD", "WRITE", "READ"} BY <1>4, <1>16
<1>27. fsm'.state = "WRITE" => stb' /\ req'.we BY <1>4, <1>16, <1>17, <1>18
<1>28. {"req"} \subseteq DOMAIN master' BY <1>19 DEF WideBooks
<1>. QED BY <1>6, <1>16, <1>20, <1>21, <1>25, <1>26, <1>27, <1>28 DEF WideBooks, fsm, conv

-----------------------------------------------------------------------------
(* The up converter, at a ratio of two.                                      *)
UpFields(u) == {"state", "cmd_we", "wdata_pending", "wdata_buffer", "rdata_fifo"} \subseteq DOMAIN u

\* What a cycle makes of the converter u, when n is the next one.
UpMoves(n, u, i) ==
    /\ UpFields(n)
    /\ u.state = "NEW" =>
          \/ n.state = "NEW"
          \/ n.state \in {"FILL", "CMD"} /\ (n.cmd_we <=> n.state = "FILL")
    /\ u.state = "CMD" =>
          /\ n.cmd_we = u.cmd_we
          /\ n.state = IF ~i.cmd_ready THEN "CMD" ELSE IF u.cmd_we THEN "NEW" ELSE "FILL"
    /\ u.state = "FILL" => n.cmd_we = u.cmd_we /\ n.state \in {"FILL", "COMMIT"}
    /\ u.state = "COMMIT" =>
          /\ n.cmd_we = u.cmd_we
          /\ n.state = IF wdata_finished(u, i) \/ rdata_finished(u) THEN (IF u.cmd_we THEN "CMD" ELSE "NEW")
                       ELSE "COMMIT"
    /\ n.rdata_fifo = (IF rdata_finished(u) THEN Tail(u.rdata_fifo) ELSE u.rdata_fifo)
                      \o (IF UpDrives(u, 2).rdata_ready THEN i.rdata ELSE <<>>)
    /\ n.wdata_buffer = (IF i.wdata_ready /\ u.wdata_buffer # <<>> THEN Tail(u.wdata_buffer) ELSE u.wdata_buffer)
                        \o (IF wdata_finished(u, i) THEN <<u.wdata_word>> ELSE <<>>)
    /\ n.wdata_pending => ~wdata_finished(u, i) /\ (u.wdata_pending \/ wdata_accept(u))

LEMMA UpFieldsNext ==
    ASSUME NEW u, UpFields(u), NEW c, NEW i
    PROVE  UpMoves(UpNext(u, 2, c, i), u, i)
<1>. DEFINE v1 == UpFsm(u, 2, c, i)
            v2 == UpLock(v1, u, 2, c, i)
            v3 == UpRead(v2, u, 2, i)
            n == UpWrite(v3, u, 2, c, i)
<1>1. /\ UpFields(v1)
      /\ v1.rdata_fifo = u.rdata_fifo /\ v1.wdata_buffer = u.wdata_buffer /\ v1.wdata_pending = u.wdata_pending
      /\ u.state = "NEW" =>
          \/ v1.state = "NEW"
          \/ v1.state \in {"FILL", "CMD"} /\ (v1.cmd_we <=> v1.state = "FILL")
      /\ u.state = "CMD" =>
            /\ v1.cmd_we = u.cmd_we
            /\ v1.state = IF ~i.cmd_ready THEN "CMD" ELSE IF u.cmd_we THEN "NEW" ELSE "FILL"
      /\ u.state = "FILL" => v1.cmd_we = u.cmd_we /\ v1.state \in {"FILL", "COMMIT"}
      /\ u.state = "COMMIT" =>
            /\ v1.cmd_we = u.cmd_we
            /\ v1.state = IF wdata_finished(u, i) \/ rdata_finished(u) THEN (IF u.cmd_we THEN "CMD" ELSE "NEW")
                          ELSE "COMMIT"
  <2>. DEFINE accept == c.cmd # <<>> /\ UpCmdReady(u, 2, c)
              part == c.adr % 2
              end == wdata_finished(u, i) \/ rdata_finished(u)
  <2>1. CASE u.state = "NEW" /\ accept
    <3>1. v1 = [u EXCEPT !.state = IF c.we THEN "FILL" ELSE "CMD", !.cmd_addr = c.adr,
                         !.cmd_we = c.we, !.cmd_last = c.last, !.cmd_order = <<part>>]
      BY <2>1 DEF UpFsm
    <3>. HIDE DEF v1, part, accept
    <3>. QED BY <2>1, <3>1 DEF UpFields
  <2>2. CASE u.state = "CMD" /\ i.cmd_ready
    <3>1. v1 = [u EXCEPT !.state = IF u.cmd_we THEN "NEW" ELSE "FILL"] BY <2>2 DEF UpFsm
    <3>. HIDE DEF v1, part, accept
    <3>. QED BY <2>2, <3>1 DEF UpFields
  <2>3. CASE u.state = "FILL" /\ next_cmd(u, 2, c)
    <3>1. v1 = [u EXCEPT !.state = "COMMIT"] BY <2>3 DEF UpFsm
    <3>. HIDE DEF v1, part, accept
    <3>. QED BY <2>3, <3>1 DEF UpFields
  <2>4. CASE u.state = "FILL" /\ ~next_cmd(u, 2, c)
    <3>1. v1 = [u EXCEPT !.cmd_last = c.last, !.cmd_order = IF accept THEN Append(@, part) ELSE @]
      BY <2>4 DEF UpFsm
    <3>. HIDE DEF v1, part, accept
    <3>. QED BY <2>4, <3>1 DEF UpFields
  <2>5. CASE u.state = "COMMIT" /\ end
    <3>1. v1 = [u EXCEPT !.state = IF u.cmd_we THEN "CMD" ELSE "NEW"] BY <2>5 DEF UpFsm
    <3>. HIDE DEF v1, part, accept
    <3>. QED BY <2>5, <3>1 DEF UpFields
  <2>6. CASE ~(\/ u.state = "NEW" /\ accept
               \/ u.state = "CMD" /\ i.cmd_ready
               \/ u.state = "FILL"
               \/ u.state = "COMMIT" /\ end)
    <3>1. v1 = u BY <2>6 DEF UpFsm
    <3>. HIDE DEF v1, part, accept
    <3>. QED BY <2>6, <3>1 DEF UpFields
  <2>. HIDE DEF v1, accept, end
  <2>. QED BY <2>1, <2>2, <2>3, <2>4, <2>5, <2>6
<1>2. /\ UpFields(v2) /\ v2.state = v1.state /\ v2.cmd_we = v1.cmd_we
      /\ v2.rdata_fifo = v1.rdata_fifo /\ v2.wdata_buffer = v1.wdata_buffer /\ v2.wdata_pending = v1.wdata_pending
  <2>. DEFINE lock == IF wdata_finished(u, i) THEN FALSE
                      ELSE v1.read_lock \/ (rw_collision(u, 2, c) /\ u.state # "CMD" /\ ~u.read_unlocked)
              unlocked == IF c.cmd # <<>> /\ UpCmdReady(u, 2, c) THEN FALSE
                          ELSE v1.read_unlocked \/ wdata_finished(u, i)
  <2>1. v2 = [v1 EXCEPT !.read_lock = lock, !.read_unlocked = unlocked] BY Zenon DEF UpLock
  <2>. HIDE DEF v1, v2, lock, unlocked
  <2>. QED BY <1>1, <2>1 DEF UpFields
<1>3. /\ UpFields(v3) /\ v3.state = v2.state /\ v3.cmd_we = v2.cmd_we
      /\ v3.rdata_fifo = (IF rdata_finished(u) THEN Tail(v2.rdata_fifo) ELSE v2.rdata_fifo)
                         \o (IF UpDrives(u, 2).rdata_ready THEN i.rdata ELSE <<>>)
      /\ v3.wdata_buffer = v2.wdata_buffer /\ v3.wdata_pending = v2.wdata_pending
  <2>. DEFINE words == (IF rdata_finished(u) THEN Tail(v2.rdata_fifo) ELSE v2.rdata_fifo)
                       \o (IF UpDrives(u, 2).rdata_ready THEN i.rdata ELSE <<>>)
              count == IF rdata_finished(u) THEN 0 ELSE IF up_rdata_valid(u) THEN v2.rdata_count + 1 ELSE v2.rdata_count
  <2>1. v3 = [v2 EXCEPT !.rdata_fifo = words, !.rdata_count = count] BY Zenon DEF UpRead
  <2>. HIDE DEF v2, v3, words, count
  <2>2. v3.rdata_fifo = words BY <1>2, <2>1 DEF UpFields
  <2>3. /\ UpFields(v3) /\ v3.state = v2.state /\ v3.cmd_we = v2.cmd_we
        /\ v3.wdata_buffer = v2.wdata_buffer /\ v3.wdata_pending = v2.wdata_pending
    BY <1>2, <2>1 DEF UpFields
  <2>. QED BY <2>2, <2>3, Zenon DEF words
<1>4. /\ UpFields(n) /\ n.state = v3.state /\ n.cmd_we = v3.cmd_we
      /\ n.rdata_fifo = v3.rdata_fifo
      /\ n.wdata_buffer = (IF i.wdata_ready /\ v3.wdata_buffer # <<>> THEN Tail(v3.wdata_buffer) ELSE v3.wdata_buffer)
                          \o (IF wdata_finished(u, i) THEN <<u.wdata_word>> ELSE <<>>)
      /\ n.wdata_pending => ~wdata_finished(u, i) /\ (v3.wdata_pending \/ wdata_accept(u))
  <2>. DEFINE part == u.cmd_order[u.wdata_count + 1]
              word == Head(u.wdata_fifo)
              last == u.wdata_count = Len(u.cmd_order) - 1
              fifo == (IF wdata_accept(u) THEN Tail(v3.wdata_fifo) ELSE v3.wdata_fifo)
                      \o (IF UpSeen(u, 2, c).wdata_ready /\ c.wdata # <<>> THEN <<Head(c.wdata)>> ELSE <<>>)
              buffer == (IF i.wdata_ready /\ v3.wdata_buffer # <<>> THEN Tail(v3.wdata_buffer) ELSE v3.wdata_buffer)
                        \o (IF wdata_finished(u, i) THEN <<u.wdata_word>> ELSE <<>>)
              newword == IF wdata_finished(u, i) THEN [data |-> Zero(2), we |-> {}]
                         ELSE IF wdata_accept(u)
                         THEN [data |-> [v3.wdata_word.data EXCEPT ![part] = word[0]], we |-> v3.wdata_word.we \cup {part}]
                         ELSE v3.wdata_word
              pending == IF wdata_finished(u, i) THEN FALSE ELSE v3.wdata_pending \/ (wdata_accept(u) /\ last)
              count == IF wdata_finished(u, i) THEN 0
                       ELSE IF wdata_accept(u) /\ ~last THEN v3.wdata_count + 1 ELSE v3.wdata_count
  <2>1. n = [v3 EXCEPT !.wdata_fifo = fifo, !.wdata_buffer = buffer, !.wdata_word = newword,
                       !.wdata_pending = pending, !.wdata_count = count]
    BY Zenon DEF UpWrite
  <2>. HIDE DEF v3, n, fifo, buffer, newword, count, pending
  <2>2. n.wdata_buffer = buffer /\ n.wdata_pending = pending BY <1>3, <2>1 DEF UpFields
  <2>3. UpFields(n) /\ n.state = v3.state /\ n.cmd_we = v3.cmd_we /\ n.rdata_fifo = v3.rdata_fifo
    BY <1>3, <2>1 DEF UpFields
  <2>4. pending => ~wdata_finished(u, i) /\ (v3.wdata_pending \/ wdata_accept(u)) BY Zenon DEF pending
  <2>. QED BY <2>2, <2>3, <2>4, Zenon DEF buffer
<1>5. UpNext(u, 2, c, i) = n BY Zenon DEF UpNext
<1>. HIDE DEF v1, v2, v3, n
<1>6. n.state = v1.state /\ n.cmd_we = v1.cmd_we BY <1>2, <1>3, <1>4, Zenon
<1>7. UpMoves(n, u, i)
  <2>1. /\ n.rdata_fifo = (IF rdata_finished(u) THEN Tail(u.rdata_fifo) ELSE u.rdata_fifo)
                          \o (IF UpDrives(u, 2).rdata_ready THEN i.rdata ELSE <<>>)
        /\ n.wdata_buffer = (IF i.wdata_ready /\ u.wdata_buffer # <<>> THEN Tail(u.wdata_buffer) ELSE u.wdata_buffer)
                            \o (IF wdata_finished(u, i) THEN <<u.wdata_word>> ELSE <<>>)
        /\ n.wdata_pending => ~wdata_finished(u, i) /\ (u.wdata_pending \/ wdata_accept(u))
    <3>1. /\ v2.rdata_fifo = u.rdata_fifo /\ n.rdata_fifo = v3.rdata_fifo
          /\ v3.wdata_buffer = u.wdata_buffer /\ v3.wdata_pending = u.wdata_pending
      BY <1>1, <1>2, <1>3, <1>4, Zenon
    <3>2. n.rdata_fifo = (IF rdata_finished(u) THEN Tail(u.rdata_fifo) ELSE u.rdata_fifo)
                          \o (IF UpDrives(u, 2).rdata_ready THEN i.rdata ELSE <<>>)
      BY <1>3, <3>1
    <3>3. n.wdata_buffer = (IF i.wdata_ready /\ u.wdata_buffer # <<>> THEN Tail(u.wdata_buffer) ELSE u.wdata_buffer)
                            \o (IF wdata_finished(u, i) THEN <<u.wdata_word>> ELSE <<>>)
      BY <1>4, <3>1
    <3>. QED BY <1>4, <3>1, <3>2, <3>3
  <2>. QED BY <1>1, <1>4, <1>6, <2>1, Zenon DEF UpMoves
<1>. QED BY <1>5, <1>7, Zenon

(* The word of a write is in the buffer before its command is sent, and until *)
(* it is fetched; the FIFO for the word of a read is empty until it comes.    *)
UpBooks ==
    /\ UpFields(bridge) /\ bridge.state \in {"NEW", "FILL", "CMD", "COMMIT"}
    /\ Single(bridge.wdata_buffer) /\ Queue(bridge.rdata_fifo)
    /\ Len(bridge.wdata_buffer) = Writes + (IF bridge.state = "CMD" /\ bridge.cmd_we THEN 1 ELSE 0)
    /\ Reads + Len(bridge.rdata_fifo) = (IF bridge.state \in {"FILL", "COMMIT"} /\ ~bridge.cmd_we THEN 1 ELSE 0)
    /\ bridge.wdata_pending => bridge.state = "COMMIT" /\ bridge.cmd_we

LEMMA UpStep ==
    ASSUME InTime, UpBooks, NEW e \in PortInputs, UpUserTick(e)
    PROVE  InTime' /\ UpBooks'
<1>. DEFINE u == bridge
            c == UpUserDrives
            i == Seen(e)
            o == UpDrives(u, 2)
            wend == wdata_finished(u, i)
            rend == rdata_finished(u)
            f == IF wdata_ready(e) THEN 1 ELSE 0
            g == IF e.ret THEN 1 ELSE 0
            ws == IF e.ready /\ u.state = "CMD" /\ u.cmd_we THEN 1 ELSE 0
            rs == IF e.ready /\ u.state = "CMD" /\ ~u.cmd_we THEN 1 ELSE 0
            p == IF wend THEN 1 ELSE 0
            q == IF rend THEN 1 ELSE 0
<1>1. port' = PortNext(e, o) /\ bridge' = UpNext(u, 2, c, i)
  BY Zenon DEF UpUserTick
<1>2. /\ i.wdata_ready <=> wdata_ready(e)
      /\ i.cmd_ready <=> e.ready
      /\ i.rdata = rdata(e)
  BY DEF Seen
<1>3. /\ Writes \in Nat /\ Reads \in Nat /\ (wdata_ready(e) => Writes > 0) /\ (e.ret => Reads > 0)
      /\ Single(rdata(e)) /\ (rdata(e) # <<>> <=> e.ret)
  BY PortOwes DEF InTime, Single, rdata
<1>4. /\ UpFields(u) /\ u.state \in {"NEW", "FILL", "CMD", "COMMIT"}
      /\ Single(u.wdata_buffer) /\ Queue(u.rdata_fifo)
      /\ Len(u.wdata_buffer) = Writes + (IF u.state = "CMD" /\ u.cmd_we THEN 1 ELSE 0)
      /\ Reads + Len(u.rdata_fifo) = (IF u.state \in {"FILL", "COMMIT"} /\ ~u.cmd_we THEN 1 ELSE 0)
      /\ u.wdata_pending => u.state = "COMMIT" /\ u.cmd_we
  BY DEF UpBooks
<1>5. /\ Len(u.rdata_fifo) \in Nat /\ (u.rdata_fifo = <<>> <=> Len(u.rdata_fifo) = 0)
      /\ Queue(u.wdata_buffer) /\ Len(u.wdata_buffer) = (IF u.wdata_buffer # <<>> THEN 1 ELSE 0)
  <2>1. Len(u.rdata_fifo) \in Nat /\ (u.rdata_fifo = <<>> <=> Len(u.rdata_fifo) = 0) BY <1>4, QueueMoves, Zenon
  <2>2. Queue(u.wdata_buffer) /\ Len(u.wdata_buffer) = (IF u.wdata_buffer # <<>> THEN 1 ELSE 0)
    BY <1>4, SingleMoves, Zenon
  <2>. QED BY <2>1, <2>2
<1>6. /\ rend => u.state = "COMMIT" /\ ~u.cmd_we /\ u.rdata_fifo # <<>>
      /\ wend => u.wdata_pending /\ (u.wdata_buffer = <<>> \/ wdata_ready(e))
      /\ e.ret => u.rdata_fifo = <<>>
      /\ o.rdata_ready <=> u.rdata_fifo = <<>> \/ rend
  <2>1. rend => u.state = "COMMIT" /\ ~u.cmd_we /\ u.rdata_fifo # <<>> BY DEF rdata_finished, up_rdata_valid
  <2>2. wend => u.wdata_pending /\ (Len(u.wdata_buffer) < 1 \/ wdata_ready(e)) BY <1>2 DEF wdata_finished, FifoReady
  <2>3. e.ret => u.rdata_fifo = <<>> BY <1>3, <1>4, <1>5
  <2>4. o.rdata_ready = FifoReady(u.rdata_fifo, 2 - 1, rend) BY DEF UpDrives
  <2>5. 2 - 1 = 1 OBVIOUS
  <2>6. o.rdata_ready <=> Len(u.rdata_fifo) < 1 \/ rend BY <2>4, <2>5 DEF FifoReady
  <2>7. Len(u.rdata_fifo) < 1 <=> u.rdata_fifo = <<>> BY <1>5
  <2>8. Len(u.wdata_buffer) < 1 <=> u.wdata_buffer = <<>> BY <1>5
  <2>. HIDE DEF wend, rend, o
  <2>. QED BY <2>1, <2>2, <2>3, <2>6, <2>7, <2>8, Zenon
<1>7. /\ Single(o.cmd) /\ o.wdata = u.wdata_buffer
      /\ o.cmd # <<>> /\ Head(o.cmd).we <=> u.state = "CMD" /\ u.cmd_we
      /\ o.cmd # <<>> /\ ~Head(o.cmd).we <=> u.state = "CMD" /\ ~u.cmd_we
  <2>1. \A x, y : Head(<<[we |-> x, addr |-> y]>>).we = x /\ <<[we |-> x, addr |-> y]>> # <<>> OBVIOUS
  <2>. DEFINE cmd == IF u.state = "CMD" THEN <<[we |-> u.cmd_we, addr |-> u.cmd_addr \div 2]>> ELSE <<>>
  <2>2. o.cmd = cmd /\ o.wdata = u.wdata_buffer BY DEF UpDrives
  <2>3. Single(cmd) BY DEF Single
  <2>. HIDE DEF o
  <2>. QED BY <2>1, <2>2, <2>3
<1>8. UpMoves(bridge', u, i) BY <1>1, <1>4, UpFieldsNext, Zenon
<1>9. wdata_ready(e) => o.wdata # <<>> BY <1>3, <1>4, <1>5, <1>7
<1>10. e.ret => o.rdata_ready BY <1>6
<1>. HIDE DEF o, c
<1>11. /\ InTime'
       /\ Writes' = Writes - (IF wdata_ready(e) THEN 1 ELSE 0) + (IF e.ready /\ o.cmd # <<>> /\ Head(o.cmd).we THEN 1 ELSE 0)
       /\ Reads' = Reads - (IF e.ret THEN 1 ELSE 0) + (IF e.ready /\ o.cmd # <<>> /\ ~Head(o.cmd).we THEN 1 ELSE 0)
  BY <1>1, <1>7, <1>9, <1>10, Served, Zenon
<1>12. Writes' = Writes - f + ws /\ Reads' = Reads - g + rs
  <2>1. /\ (IF e.ready /\ o.cmd # <<>> /\ Head(o.cmd).we THEN 1 ELSE 0) = ws
        /\ (IF e.ready /\ o.cmd # <<>> /\ ~Head(o.cmd).we THEN 1 ELSE 0) = rs
    BY <1>7
  <2>. QED BY <1>11, <2>1, Zenon
<1>. HIDE DEF i, wend, rend
<1>13. /\ UpFields(bridge')
       /\ bridge'.rdata_fifo = (IF rend THEN Tail(u.rdata_fifo) ELSE u.rdata_fifo) \o (IF o.rdata_ready THEN i.rdata ELSE <<>>)
       /\ bridge'.wdata_buffer = (IF i.wdata_ready /\ u.wdata_buffer # <<>> THEN Tail(u.wdata_buffer) ELSE u.wdata_buffer)
                                 \o (IF wend THEN <<u.wdata_word>> ELSE <<>>)
       /\ bridge'.wdata_pending => ~wend /\ (u.wdata_pending \/ wdata_accept(u))
  BY <1>8, Zenon DEF UpMoves, wend, rend, o
<1>14. /\ u.state = "NEW" =>
           \/ bridge'.state = "NEW"
           \/ bridge'.state \in {"FILL", "CMD"} /\ (bridge'.cmd_we <=> bridge'.state = "FILL")
       /\ u.state = "CMD" =>
            /\ bridge'.cmd_we = u.cmd_we
            /\ bridge'.state = IF ~e.ready THEN "CMD" ELSE IF u.cmd_we THEN "NEW" ELSE "FILL"
       /\ u.state = "FILL" => bridge'.cmd_we = u.cmd_we /\ bridge'.state \in {"FILL", "COMMIT"}
       /\ u.state = "COMMIT" =>
            /\ bridge'.cmd_we = u.cmd_we
            /\ bridge'.state = IF wend \/ rend THEN (IF u.cmd_we THEN "CMD" ELSE "NEW") ELSE "COMMIT"
  BY <1>2, <1>8 DEF UpMoves, wend, rend
<1>15. /\ Single(bridge'.wdata_buffer)
       /\ Len(bridge'.wdata_buffer) = Len(u.wdata_buffer) - f + p
  <2>. DEFINE kept == IF i.wdata_ready /\ u.wdata_buffer # <<>> THEN Tail(u.wdata_buffer) ELSE u.wdata_buffer
              added == IF wend THEN <<u.wdata_word>> ELSE <<>>
  <2>1. wdata_ready(e) => u.wdata_buffer # <<>> BY <1>7, <1>9
  <2>2. Queue(kept) /\ Len(kept) = Len(u.wdata_buffer) - f /\ Len(u.wdata_buffer) \in {0, 1} /\ f \in {0, 1}
    <3>1. Len(u.wdata_buffer) \in {0, 1} /\ f \in {0, 1} BY <1>5
    <3>2. CASE wdata_ready(e)
      <4>1. kept = Tail(u.wdata_buffer) /\ u.wdata_buffer # <<>> /\ f = 1 BY <1>2, <2>1, <3>2
      <4>2. Queue(u.wdata_buffer) BY <1>5
      <4>. HIDE DEF kept, f
      <4>3. Queue(kept) /\ Len(kept) = Len(u.wdata_buffer) - 1 BY <4>1, <4>2, QueueMoves, Zenon
      <4>. QED BY <3>1, <4>1, <4>3
    <3>3. CASE ~wdata_ready(e)
      <4>1. kept = u.wdata_buffer /\ f = 0 BY <1>2, <3>3
      <4>2. Queue(u.wdata_buffer) BY <1>5
      <4>. HIDE DEF kept, f
      <4>3. Len(kept) = Len(u.wdata_buffer) - 0 BY <3>1, <4>1
      <4>. QED BY <3>1, <4>1, <4>2, <4>3
    <3>. QED BY <3>2, <3>3
  <2>3. (wend => kept = <<>>) /\ (kept = <<>> <=> Len(kept) = 0)
    <3>. HIDE DEF kept
    <3>1. kept = <<>> <=> Len(kept) = 0 BY <2>2, QueueMoves, Zenon
    <3>2. wend => Len(kept) = 0 BY <1>5, <1>6, <2>1, <2>2
    <3>. QED BY <3>1, <3>2
  <2>4. Single(u.wdata_buffer) BY <1>4
  <2>5. bridge'.wdata_buffer = kept \o added BY <1>13
  <2>. HIDE DEF f
  <2>6. CASE wend
    <3>1. added = <<u.wdata_word>> /\ kept = <<>> /\ p = 1 /\ Len(kept) = 0 BY <2>3, <2>6
    <3>2. <<>> \o <<u.wdata_word>> = <<u.wdata_word>> OBVIOUS
    <3>. HIDE DEF kept, added, p
    <3>3. bridge'.wdata_buffer = <<u.wdata_word>> BY <2>5, <3>1, <3>2
    <3>4. Len(bridge'.wdata_buffer) = 1 BY <3>3, QueueMoves
    <3>5. Single(bridge'.wdata_buffer) BY <3>3 DEF Single
    <3>6. Len(u.wdata_buffer) - f + 1 = 1 BY <2>2, <3>1
    <3>. QED BY <3>1, <3>4, <3>5, <3>6, Zenon
  <2>7. CASE ~wend
    <3>1. added = <<>> /\ p = 0 BY <2>7
    <3>2. Single(kept)
      <4>1. CASE wdata_ready(e)
        <5>1. Len(kept) = 0 BY <1>5, <2>1, <2>2, <4>1 DEF f
        <5>. QED BY <2>3, <5>1 DEF Single
      <4>2. CASE ~wdata_ready(e)
        <5>1. kept = u.wdata_buffer BY <1>2, <4>2
        <5>. QED BY <2>4, <5>1
      <4>. QED BY <4>1, <4>2
    <3>. HIDE DEF kept, added, p
    <3>3. kept \o <<>> = kept
      <4>1. PICK S : kept \in Seq(S) BY <2>2 DEF Queue
      <4>. QED BY <4>1, ConcatEmptySeq
    <3>4. bridge'.wdata_buffer = kept BY <2>5, <3>1, <3>3
    <3>5. Len(u.wdata_buffer) - f = Len(u.wdata_buffer) - f + 0 BY <2>2
    <3>. QED BY <2>2, <3>1, <3>2, <3>4, <3>5, Zenon
  <2>. QED BY <2>6, <2>7
<1>16. /\ Queue(bridge'.rdata_fifo)
       /\ Len(bridge'.rdata_fifo) = Len(u.rdata_fifo) - q + g
  <2>. DEFINE kept == IF rend THEN Tail(u.rdata_fifo) ELSE u.rdata_fifo
              added == IF o.rdata_ready THEN i.rdata ELSE <<>>
  <2>1. Queue(kept) /\ Len(kept) = Len(u.rdata_fifo) - q BY <1>4, <1>5, <1>6, QueueMoves
  <2>2. added = i.rdata
    <3>1. CASE o.rdata_ready BY <3>1
    <3>2. CASE ~o.rdata_ready
      <4>1. i.rdata = <<>> BY <1>2, <1>3, <1>10, <3>2
      <4>. QED BY <3>2, <4>1
    <3>. QED BY <3>1, <3>2
  <2>3. Queue(i.rdata) /\ Len(i.rdata) = g
    <3>1. Queue(rdata(e)) /\ Len(rdata(e)) = (IF rdata(e) # <<>> THEN 1 ELSE 0) BY <1>3, SingleMoves, Zenon
    <3>. QED BY <1>2, <1>3, <3>1
  <2>4. bridge'.rdata_fifo = kept \o i.rdata BY <1>13, <2>2
  <2>. HIDE DEF kept, g, q
  <2>5. Queue(kept \o i.rdata) /\ Len(kept \o i.rdata) = Len(kept) + Len(i.rdata) BY <2>1, <2>3, QueueMoves, Zenon
  <2>. QED BY <2>1, <2>3, <2>4, <2>5
<1>17. /\ (p = 1 <=> wend) /\ p \in {0, 1} /\ (q = 1 <=> rend) /\ q \in {0, 1}
       /\ f \in {0, 1} /\ g \in {0, 1} /\ ws \in {0, 1} /\ rs \in {0, 1}
       /\ (ws = 1 <=> e.ready /\ u.state = "CMD" /\ u.cmd_we)
       /\ (rs = 1 <=> e.ready /\ u.state = "CMD" /\ ~u.cmd_we)
  OBVIOUS
<1>18. bridge'.state \in {"NEW", "FILL", "CMD", "COMMIT"} BY <1>4, <1>14
<1>19. bridge'.wdata_pending => bridge'.state = "COMMIT" /\ bridge'.cmd_we
  <2>1. wdata_accept(u) => u.state = "COMMIT" /\ u.cmd_we BY DEF wdata_accept
  <2>. QED BY <1>4, <1>6, <1>13, <1>14, <2>1
<1>. HIDE DEF f, g, ws, rs, p, q
<1>20. Len(bridge'.wdata_buffer) = Writes' + (IF bridge'.state = "CMD" /\ bridge'.cmd_we THEN 1 ELSE 0)
  <2>. DEFINE before == IF u.state = "CMD" /\ u.cmd_we THEN 1 ELSE 0
              after == IF bridge'.state = "CMD" /\ bridge'.cmd_we THEN 1 ELSE 0
  <2>1. after = before - ws + p BY <1>4, <1>6, <1>14, <1>17
  <2>2. PICK w \in Int, l \in Int : w = Writes /\ l = Len(u.wdata_buffer)
    <3>1. Writes \in Int /\ Len(u.wdata_buffer) \in Int BY <1>3, <1>5
    <3>. QED BY <3>1, Zenon
  <2>3. l = w + before BY <1>4, <2>2
  <2>4. before \in {0, 1} OBVIOUS
  <2>. HIDE DEF before, after
  <2>5. l - f + p = (w - f + ws) + (before - ws + p)
    <3>1. w \in Int /\ l \in Int BY <2>2
    <3>. QED BY <1>17, <2>3, <2>4, <3>1
  <2>. QED BY <1>12, <1>15, <2>1, <2>2, <2>5, Zenon DEF after
<1>21. Reads' + Len(bridge'.rdata_fifo) = (IF bridge'.state \in {"FILL", "COMMIT"} /\ ~bridge'.cmd_we THEN 1 ELSE 0)
  <2>. DEFINE before == IF u.state \in {"FILL", "COMMIT"} /\ ~u.cmd_we THEN 1 ELSE 0
              after == IF bridge'.state \in {"FILL", "COMMIT"} /\ ~bridge'.cmd_we THEN 1 ELSE 0
  <2>1. after = before + rs - q BY <1>4, <1>6, <1>14, <1>17
  <2>2. PICK r \in Int, l \in Int : r = Reads /\ l = Len(u.rdata_fifo)
    <3>1. Reads \in Int /\ Len(u.rdata_fifo) \in Int BY <1>3, <1>5
    <3>. QED BY <3>1, Zenon
  <2>3. r + l = before BY <1>4, <2>2
  <2>4. before \in {0, 1} OBVIOUS
  <2>. HIDE DEF before, after
  <2>5. (r - g + rs) + (l - q + g) = before + rs - q
    <3>1. r \in Int /\ l \in Int BY <2>2
    <3>. QED BY <1>17, <2>3, <2>4, <3>1
  <2>. QED BY <1>12, <1>16, <2>1, <2>2, <2>5, Zenon DEF after
<1>. QED BY <1>11, <1>13, <1>15, <1>16, <1>18, <1>19, <1>20, <1>21 DEF UpBooks

-----------------------------------------------------------------------------
(* The BIST: software runs the generator, then the checker.  The generator of *)
(* a pattern is done when its last command was accepted, so that its writes   *)
(* may be under way when the checker starts.  The port performs them first.   *)

\* No read is before a write.
WritesFirst(q) == \A j \in Kind(q, "read"), k \in Kind(q, "write") : k < j

(* It stays so, and once a read is the first there are no writes.             *)
LEMMA FirstMoves ==
    /\ WritesFirst(<<>>)
    /\ \A q : Queue(q) /\ q # <<>> /\ WritesFirst(q) =>
          WritesFirst(Tail(q)) /\ (~Head(q).we => Count(q, "write") = 0)
    /\ \A q, c : Queue(q) /\ WritesFirst(q) /\ (c.we => Count(q, "read") = 0) => WritesFirst(q \o <<c>>)
<1>1. WritesFirst(<<>>) BY DEF WritesFirst, Kind
<1>2. ASSUME NEW q, Queue(q), q # <<>>, WritesFirst(q)
      PROVE  WritesFirst(Tail(q)) /\ (~Head(q).we => Count(q, "write") = 0)
  <2>1. PICK S : q \in Seq(S) BY <1>2 DEF Queue
  <2>2. /\ Len(q) \in Nat \ {0} /\ Len(Tail(q)) = Len(q) - 1 /\ Head(q) = q[1]
        /\ \A k \in 1..(Len(q) - 1) : Tail(q)[k] = q[k + 1]
    BY <1>2, <2>1
  <2>3. ASSUME NEW op, NEW k \in Kind(Tail(q), op) PROVE k \in Nat /\ k + 1 \in Kind(q, op)
    BY <2>2 DEF Kind
  <2>4. WritesFirst(Tail(q))
    <3>. SUFFICES ASSUME NEW j \in Kind(Tail(q), "read"), NEW k \in Kind(Tail(q), "write") PROVE k < j
      BY DEF WritesFirst
    <3>1. j + 1 \in Kind(q, "read") /\ k + 1 \in Kind(q, "write") /\ j \in Nat /\ k \in Nat BY <2>3
    <3>2. k + 1 < j + 1 BY <1>2, <3>1 DEF WritesFirst
    <3>. QED BY <3>1, <3>2
  <2>5. ASSUME ~Head(q).we PROVE Count(q, "write") = 0
    <3>1. 1 \in Kind(q, "read") BY <2>2, <2>5 DEF Kind, Is
    <3>2. ASSUME NEW k \in Kind(q, "write") PROVE FALSE
      <4>1. k < 1 BY <1>2, <3>1 DEF WritesFirst
      <4>2. k \in 1..Len(q) BY DEF Kind
      <4>. QED BY <2>2, <4>1, <4>2
    <3>3. Kind(q, "write") = {} BY <3>2
    <3>. QED BY <3>3, FS_EmptySet DEF Count
  <2>. QED BY <2>4, <2>5
<1>3. ASSUME NEW q, NEW c, Queue(q), WritesFirst(q), c.we => Count(q, "read") = 0
      PROVE  WritesFirst(q \o <<c>>)
  <2>1. PICK S : q \in Seq(S) BY <1>3 DEF Queue
  <2>2. q \in Seq(S \cup {c}) /\ <<c>> \in Seq(S \cup {c}) /\ Len(q) \in Nat BY <2>1
  <2>3. /\ Len(q \o <<c>>) = Len(q) + 1 /\ (q \o <<c>>)[Len(q) + 1] = c
        /\ \A k \in 1..Len(q) : (q \o <<c>>)[k] = q[k]
    BY <2>2
  <2>4. ASSUME NEW op, NEW k \in Kind(q \o <<c>>, op)
        PROVE  k \in Nat /\ (k \in Kind(q, op) \/ (k = Len(q) + 1 /\ Is(c, op)))
    BY <2>2, <2>3 DEF Kind
  <2>5. ASSUME NEW k \in Kind(q, "read") PROVE Count(q, "read") # 0
    <3>1. IsFiniteSet(1..Len(q)) BY <2>2, FS_Interval
    <3>2. Kind(q, "read") \in SUBSET (1..Len(q)) BY DEF Kind
    <3>3. IsFiniteSet(Kind(q, "read")) BY <3>1, <3>2, FS_Subset
    <3>. QED BY <3>3, FS_EmptySet DEF Count
  <2>6. ASSUME NEW j \in Kind(q \o <<c>>, "read"), NEW k \in Kind(q \o <<c>>, "write") PROVE k < j
    <3>1. Is(c, "write") <=> c.we BY DEF Is
    <3>2. Is(c, "read") <=> ~c.we BY DEF Is
    <3>3. CASE j \in Kind(q, "read") /\ k \in Kind(q, "write") BY <1>3, <3>3 DEF WritesFirst
    <3>4. CASE j = Len(q) + 1 /\ Is(c, "read")
      <4>1. k \in Kind(q, "write") BY <2>4, <3>1, <3>2, <3>4
      <4>. QED BY <2>2, <3>4, <4>1 DEF Kind
    <3>5. CASE j \in Kind(q, "read") /\ k = Len(q) + 1 /\ Is(c, "write") BY <1>3, <2>5, <3>1, <3>5
    <3>. QED BY <2>4, <3>3, <3>4, <3>5
  <2>. QED BY <2>6 DEF WritesFirst
<1>. QED BY <1>1, <1>2, <1>3, Zenon

\* The commands the port accepted and did not perform.
Line == port.cmds \o port.fresh

(* Nothing else is under way but the words read.                              *)
LEMMA LineCounts ==
    ASSUME PortTyped
    PROVE  /\ Queue(Line) /\ Count(Line, "write") = Writes
           /\ Reads = Count(Line, "read") + Len(port.returns)
           /\ Count(Line, "read") \in Nat /\ Len(port.returns) \in Nat
           /\ \A e \in PortInputs : e.do => Line # <<>> /\ Head(Line) = Head(port.cmds)
                                            /\ Tail(Line) = Tail(port.cmds) \o port.fresh
<1>1. PICK S : port.cmds \in Seq(S) BY DEF PortTyped, Queue
<1>2. PICK T : port.fresh \in Seq(T) BY DEF PortTyped, Queue
<1>3. port.cmds \in Seq(S \cup T) /\ port.fresh \in Seq(S \cup T) BY <1>1, <1>2
<1>4. Line \in Seq(S \cup T) BY <1>3 DEF Line
<1>5. Queue(Line) /\ Len(port.returns) \in Nat BY <1>4, QueueMoves DEF Queue, PortTyped
<1>6. ASSUME NEW op \in {"write", "read"}
      PROVE  Count(Line, op) = Count(port.cmds, op) + Count(port.fresh, op) /\ Count(Line, op) \in Nat
  <2>1. Queue(port.cmds) /\ Count(port.cmds, op) \in Nat /\ Count(Line, op) \in Nat
    BY <1>5, CountMoves DEF PortTyped
  <2>2. CASE port.fresh = <<>>
    <3>1. Line = port.cmds BY <1>3, <2>2, ConcatEmptySeq DEF Line
    <3>2. Count(port.fresh, op) = 0 BY <2>2, CountMoves
    <3>. QED BY <2>1, <3>1, <3>2
  <2>3. ASSUME NEW c, port.fresh = <<c>> PROVE Count(Line, op) = Count(port.cmds, op) + Count(port.fresh, op)
    <3>1. Count(port.cmds \o <<c>>, op) = Count(port.cmds, op) + IF Is(c, op) THEN 1 ELSE 0 BY <2>1, CountMoves
    <3>2. Count(<<c>>, op) = IF Is(c, op) THEN 1 ELSE 0 BY CountMoves
    <3>. QED BY <2>3, <3>1, <3>2 DEF Line
  <2>. QED BY <2>1, <2>2, <2>3 DEF PortTyped, Single
<1>7. ASSUME NEW e \in PortInputs, e.do
      PROVE  Line # <<>> /\ Head(Line) = Head(port.cmds) /\ Tail(Line) = Tail(port.cmds) \o port.fresh
  <2>1. port.cmds # <<>> BY <1>7 DEF PortInputs
  <2>2. port.cmds = <<Head(port.cmds)>> \o Tail(port.cmds) /\ Head(port.cmds) \in S \cup T
        /\ Tail(port.cmds) \in Seq(S \cup T)
    BY <1>3, <2>1
  <2>. DEFINE h == Head(port.cmds)
              t == Tail(port.cmds)
  <2>3. Line # <<>> /\ Head(Line) = h /\ Tail(Line) = t \o port.fresh
    <3>1. Line = (<<h>> \o t) \o port.fresh BY <2>2 DEF Line
    <3>2. h \in S \cup T /\ t \in Seq(S \cup T) BY <2>2
    <3>. HIDE DEF h, t
    <3>3. <<h>> \in Seq(S \cup T) BY <3>2
    <3>4. Line = <<h>> \o (t \o port.fresh)
      <4>1. ASSUME NEW a \in Seq(S \cup T), NEW b \in Seq(S \cup T), NEW r \in Seq(S \cup T)
            PROVE  (a \o b) \o r = a \o (b \o r)
        BY ConcatAssociative
      <4>2. (<<h>> \o t) \o port.fresh = <<h>> \o (t \o port.fresh) BY <1>3, <3>2, <3>3, <4>1, Zenon
      <4>. QED BY <3>1, <4>2
    <3>5. t \o port.fresh \in Seq(S \cup T) BY <1>3, <3>2
    <3>6. ASSUME NEW r \in Seq(S \cup T)
          PROVE  <<h>> \o r # <<>> /\ Head(<<h>> \o r) = h /\ Tail(<<h>> \o r) = r
      BY <3>2
    <3>. QED BY <3>4, <3>5, <3>6
  <2>. QED BY <2>3
<1>. QED BY <1>5, <1>6, <1>7 DEF Writes, Reads

(* A clock edge of the port, when no write is added behind a read.            *)
LEMMA LineEdge ==
    ASSUME PortTyped, NEW e \in PortInputs, NEW o, Single(o.cmd), port' = PortNext(e, o), WritesFirst(Line),
           o.cmd # <<>> /\ Head(o.cmd).we => Reads = 0
    PROVE  /\ WritesFirst(Line)'
           /\ \E done \in 0 .. 1 :
                 /\ Count(Line, "read")' = Count(Line, "read") - done
                                           + (IF e.ready /\ o.cmd # <<>> /\ ~Head(o.cmd).we THEN 1 ELSE 0)
                 /\ done = 1 => Writes = 0
<1>. DEFINE kept == IF e.do THEN Tail(Line) ELSE Line
            new == IF e.ready THEN o.cmd ELSE <<>>
            done == IF e.do /\ ~Head(port.cmds).we THEN 1 ELSE 0
<1>1. /\ Queue(Line) /\ Count(Line, "write") = Writes /\ Reads = Count(Line, "read") + Len(port.returns)
      /\ Count(Line, "read") \in Nat /\ Len(port.returns) \in Nat
      /\ e.do => Line # <<>> /\ Head(Line) = Head(port.cmds) /\ Tail(Line) = Tail(port.cmds) \o port.fresh
  BY LineCounts
<1>2. Line' = kept \o new
  <2>1. port'.fresh = new /\ port'.cmds = (IF e.do THEN Tail(port.cmds) ELSE port.cmds) \o port.fresh
    BY DEF PortNext, PortTyped
  <2>2. port'.cmds = kept BY <1>1, <2>1 DEF Line
  <2>. QED BY <2>1, <2>2 DEF Line
<1>3. /\ Queue(kept) /\ WritesFirst(kept)
      /\ Count(kept, "read") = Count(Line, "read") - done /\ Count(kept, "read") \in Nat
      /\ done = 1 => Writes = 0
  <2>1. CASE e.do
    <3>1. Queue(Tail(Line)) BY <1>1, <2>1, QueueMoves
    <3>2. WritesFirst(Tail(Line)) /\ (~Head(Line).we => Count(Line, "write") = 0) BY <1>1, <2>1, FirstMoves
    <3>3. Count(Tail(Line), "read") = Count(Line, "read") - IF Head(Line).we THEN 0 ELSE 1
      BY <1>1, <2>1, Counting
    <3>4. Count(Tail(Line), "read") \in Nat BY <3>1, Counting
    <3>. QED BY <1>1, <2>1, <3>1, <3>2, <3>3, <3>4
  <2>2. CASE ~e.do BY <1>1, <2>2
  <2>. QED BY <2>1, <2>2
<1>. HIDE DEF kept
<1>4. ASSUME new = <<>>
      PROVE  /\ WritesFirst(Line)'
             /\ Count(Line, "read")' = Count(Line, "read") - done
                                       + (IF e.ready /\ o.cmd # <<>> /\ ~Head(o.cmd).we THEN 1 ELSE 0)
  <2>1. Line' = kept
    <3>1. PICK S : kept \in Seq(S) BY <1>3 DEF Queue
    <3>. QED BY <1>2, <1>4, <3>1, ConcatEmptySeq
  <2>2. WritesFirst(Line)' BY <1>3, <2>1 DEF WritesFirst
  <2>3. Count(Line, "read")' = Count(kept, "read") BY <2>1 DEF Count
  <2>4. ~(e.ready /\ o.cmd # <<>>) BY <1>4
  <2>. HIDE DEF done
  <2>5. Count(Line, "read")' = Count(Line, "read") - done + 0
    <3>1. PICK a \in Int, b \in Int : a = Count(kept, "read") /\ b = Count(Line, "read") - done BY <1>3
    <3>. QED BY <1>3, <2>3, <3>1
  <2>. QED BY <2>2, <2>4, <2>5
<1>5. ASSUME NEW c, e.ready, o.cmd = <<c>>
      PROVE  /\ WritesFirst(Line)'
             /\ Count(Line, "read")' = Count(Line, "read") - done
                                       + (IF e.ready /\ o.cmd # <<>> /\ ~Head(o.cmd).we THEN 1 ELSE 0)
  <2>1. o.cmd # <<>> /\ Head(o.cmd) = c /\ new = <<c>> BY <1>5, QueueMoves
  <2>2. c.we => Count(kept, "read") = 0
    <3>1. ASSUME Reads = 0 PROVE Count(kept, "read") = 0
      <4>1. PICK a \in Int, b \in Int : a = Count(kept, "read") /\ b = done BY <1>3
      <4>2. Count(Line, "read") = 0 BY <1>1, <3>1
      <4>. QED BY <1>3, <4>1, <4>2
    <3>. QED BY <2>1, <3>1
  <2>3. Count(kept \o <<c>>, "read") = Count(kept, "read") + IF c.we THEN 0 ELSE 1 BY <1>3, Counting
  <2>4. WritesFirst(kept \o <<c>>) BY <1>3, <2>2, FirstMoves
  <2>5. Line' = kept \o <<c>> BY <1>2, <2>1
  <2>6. WritesFirst(Line)' BY <2>4, <2>5 DEF WritesFirst
  <2>7. Count(Line, "read")' = Count(kept \o <<c>>, "read") BY <2>5 DEF Count
  <2>. HIDE DEF done
  <2>8. Count(Line, "read")' = Count(Line, "read") - done + (IF c.we THEN 0 ELSE 1)
    BY <1>3, <2>3, <2>7, Zenon
  <2>. QED BY <1>5, <2>1, <2>6, <2>8
<1>6. /\ WritesFirst(Line)'
      /\ Count(Line, "read")' = Count(Line, "read") - done
                                + (IF e.ready /\ o.cmd # <<>> /\ ~Head(o.cmd).we THEN 1 ELSE 0)
  <2>1. new = <<>> \/ \E c : e.ready /\ o.cmd = <<c>> BY DEF Single
  <2>2. CASE new = <<>>
    <3>1. /\ WritesFirst(Line)'
          /\ Count(Line, "read")' = Count(Line, "read") - done
                                    + (IF e.ready /\ o.cmd # <<>> /\ ~Head(o.cmd).we THEN 1 ELSE 0)
      BY <1>4, <2>2
    <3>. QED BY <3>1
  <2>. QED BY <1>5, <2>1, <2>2
<1>7. done \in 0 .. 1 OBVIOUS
<1>. HIDE DEF done
<1>. QED BY <1>3, <1>6, <1>7

GenStates == {"IDLE", "RUN", "WAIT", "AWAIT_FIFO_EMPTY", "DONE"}

(* The generator leaves IDLE when it is started and DONE when it is reset.    *)
LEMMA GenMoves ==
    ASSUME NEW g, "state" \in DOMAIN g, g.state \in GenStates, NEW p, NEW fifo, NEW i,
           NEW reset \in BOOLEAN, NEW start \in BOOLEAN, NEW cascade \in BOOLEAN
    PROVE  LET next == GenNext(g, p, fifo, reset, start, cascade, i)
           IN /\ "state" \in DOMAIN next /\ next.state \in GenStates
              /\ reset => next.state = "IDLE"
              /\ ~reset /\ g.state = "IDLE" => next.state = IF start THEN "RUN" ELSE "IDLE"
              /\ ~reset /\ g.state # "IDLE" => next.state # "IDLE"
              /\ ~reset /\ g.state = "DONE" => next.state = "DONE"
              /\ Single(GenSink(g, p)) /\ (GenSink(g, p) # <<>> => g.state = "RUN")
<1>. DEFINE next == GenNext(g, p, fifo, reset, start, cascade, i)
<1>1. CASE reset
  <2>1. next = [g EXCEPT !.state = "IDLE"] BY <1>1 DEF GenNext
  <2>. QED BY <1>1, <2>1 DEF GenStates, GenSink, Single
<1>2. CASE ~reset
  <2>1. CASE g.state = "IDLE" BY <1>2, <2>1 DEF GenNext, GenStates, GenSink, Single
  <2>2. CASE g.state = "WAIT" BY <1>2, <2>2 DEF GenNext, GenStates, GenSink, Single
  <2>3. CASE g.state = "RUN"
    <3>1. CASE WriterReady(fifo, i)
      <4>1. next = [ cmd_counter |-> g.cmd_counter + 1,
                     state |-> IF g.cmd_counter = BistLength(p) - 1
                               THEN (IF p.init = <<>> THEN "AWAIT_FIFO_EMPTY" ELSE "DONE")
                               ELSE IF ~cascade THEN "WAIT" ELSE "RUN" ]
        BY <1>2, <2>3, <3>1 DEF GenNext
      <4>2. next.state \in {"AWAIT_FIFO_EMPTY", "DONE", "WAIT", "RUN"} /\ "state" \in DOMAIN next
        BY <4>1
      <4>. HIDE DEF next
      <4>3. Single(GenSink(g, p)) BY DEF GenSink, Single
      <4>. QED BY <1>2, <2>3, <4>2, <4>3 DEF GenStates, next
    <3>2. CASE ~WriterReady(fifo, i)
      <4>1. next = g BY <1>2, <2>3, <3>2 DEF GenNext
      <4>. QED BY <1>2, <2>3, <4>1 DEF GenStates, GenSink, Single
    <3>. QED BY <3>1, <3>2
  <2>4. CASE g.state = "AWAIT_FIFO_EMPTY" BY <1>2, <2>4 DEF GenNext, GenStates, GenSink, Single
  <2>5. CASE g.state = "DONE"
    <3>1. next = g BY <1>2, <2>5 DEF GenNext
    <3>. QED BY <1>2, <2>5, <3>1 DEF GenStates, GenSink, Single
  <2>. QED BY <2>1, <2>2, <2>3, <2>4, <2>5 DEF GenStates
<1>. QED BY <1>1, <1>2

ChkFields == {"cmd", "cmd_counter", "data", "data_counter", "errors"}
CmdStates == {"IDLE", "WAIT", "RUN", "DONE"}
DataStates == {"IDLE", "RUN", "DONE"}

\* The FSMs of the checker in a cycle without a reset, of t words: they start
\* together, one counts the words it sent for, the other one those it took.
ChkRuns(c, next, start, issues, took, t) ==
    /\ ChkFields \subseteq DOMAIN next
    /\ next.cmd_counter = IF c.cmd = "IDLE" /\ start THEN 0
                          ELSE IF issues THEN c.cmd_counter + 1 ELSE c.cmd_counter
    /\ next.data_counter = IF c.data = "IDLE" /\ start THEN 0
                           ELSE IF took THEN c.data_counter + 1 ELSE c.data_counter
    /\ next.cmd \in IF c.cmd = "IDLE" THEN (IF start THEN {"WAIT", "RUN"} ELSE {"IDLE"})
                    ELSE IF c.cmd = "DONE" \/ (issues /\ c.cmd_counter = t - 1) THEN {"DONE"} ELSE {"WAIT", "RUN"}
    /\ next.data = IF c.data = "IDLE" THEN (IF start THEN "RUN" ELSE "IDLE")
                   ELSE IF c.data = "DONE" \/ (took /\ c.data_counter = t - 1) THEN "DONE" ELSE "RUN"

(* So they do.                                                                *)
LEMMA ChkFsms ==
    ASSUME NEW c, ChkFields \subseteq DOMAIN c, c.cmd \in CmdStates, c.data \in DataStates,
           NEW p, NEW r, NEW i, NEW start \in BOOLEAN, NEW cascade \in BOOLEAN
    PROVE  ChkRuns(c, ChkDataFsm(ChkCmdFsm(c, p, r, start, cascade, i), p, r, start), start,
                   c.cmd = "RUN" /\ ReaderReady(r, TRUE, i), c.data = "RUN" /\ ReaderSource(r) # <<>>, BistLength(p))
<1>. DEFINE mid == ChkCmdFsm(c, p, r, start, cascade, i)
            next == ChkDataFsm(mid, p, r, start)
            issues == c.cmd = "RUN" /\ ReaderReady(r, TRUE, i)
            took == c.data = "RUN" /\ ReaderSource(r) # <<>>
            cmds == IF c.cmd = "IDLE" THEN (IF start THEN {"WAIT", "RUN"} ELSE {"IDLE"})
                    ELSE IF c.cmd = "DONE" \/ (issues /\ c.cmd_counter = BistLength(p) - 1) THEN {"DONE"} ELSE {"WAIT", "RUN"}
<1>1. /\ DOMAIN mid = DOMAIN c /\ mid.data = c.data /\ mid.data_counter = c.data_counter
      /\ mid.cmd_counter = IF c.cmd = "IDLE" /\ start THEN 0 ELSE IF issues THEN c.cmd_counter + 1 ELSE c.cmd_counter
      /\ mid.cmd \in cmds
  <2>0. {"cmd", "cmd_counter", "data", "data_counter"} \subseteq DOMAIN c BY DEF ChkFields
  <2>1. CASE c.cmd = "IDLE"
    <3>1. mid = IF start THEN [c EXCEPT !.cmd_counter = 0, !.cmd = IF p.init # <<>> /\ cascade THEN "RUN" ELSE "WAIT"]
                ELSE c
      BY <2>1 DEF ChkCmdFsm
    <3>. HIDE DEF mid
    <3>. QED BY <2>0, <2>1, <3>1
  <2>2. CASE c.cmd = "WAIT"
    <3>1. mid = IF cascade THEN [c EXCEPT !.cmd = "RUN"] ELSE c BY <2>2 DEF ChkCmdFsm
    <3>. HIDE DEF mid
    <3>. QED BY <2>0, <2>2, <3>1
  <2>3. CASE c.cmd = "RUN"
    <3>1. mid = IF issues THEN [c EXCEPT !.cmd_counter = @ + 1,
                                       !.cmd = IF c.cmd_counter = BistLength(p) - 1 THEN "DONE"
                                               ELSE IF ~cascade THEN "WAIT" ELSE @]
                ELSE c
      BY <2>3 DEF ChkCmdFsm
    <3>. HIDE DEF mid
    <3>. QED BY <2>0, <2>3, <3>1
  <2>4. CASE c.cmd = "DONE"
    <3>1. mid = c BY <2>4 DEF ChkCmdFsm
    <3>. HIDE DEF mid
    <3>. QED BY <2>0, <2>4, <3>1
  <2>. QED BY <2>1, <2>2, <2>3, <2>4 DEF CmdStates
<1>. HIDE DEF mid
<1>2. /\ DOMAIN next = DOMAIN mid /\ next.cmd = mid.cmd /\ next.cmd_counter = mid.cmd_counter
      /\ next.data_counter = IF c.data = "IDLE" /\ start THEN 0 ELSE IF took THEN c.data_counter + 1 ELSE c.data_counter
      /\ next.data = IF c.data = "IDLE" THEN (IF start THEN "RUN" ELSE "IDLE")
                       ELSE IF c.data = "DONE" \/ (took /\ c.data_counter = BistLength(p) - 1) THEN "DONE" ELSE "RUN"
  <2>0. ChkFields \subseteq DOMAIN mid BY <1>1
  <2>1. CASE c.data = "IDLE"
    <3>1. next = IF start THEN [mid EXCEPT !.data_counter = 0, !.errors = 0, !.data = "RUN"] ELSE mid
      BY <1>1, <2>1 DEF ChkDataFsm
    <3>. HIDE DEF next
    <3>. QED BY <1>1, <2>0, <2>1, <3>1 DEF ChkFields
  <2>2. CASE c.data = "RUN"
    <3>1. next = IF took THEN [mid EXCEPT !.data_counter = @ + 1,
                                 !.errors = @ + (IF Head(ReaderSource(r)) # BistData(p, mid.data_counter) THEN 1 ELSE 0),
                                 !.data = IF mid.data_counter = BistLength(p) - 1 THEN "DONE" ELSE @]
                 ELSE mid
      BY <1>1, <2>2 DEF ChkDataFsm
    <3>. HIDE DEF next
    <3>. QED BY <1>1, <2>0, <2>2, <3>1 DEF ChkFields
  <2>3. CASE c.data = "DONE"
    <3>1. next = mid BY <1>1, <2>3 DEF ChkDataFsm
    <3>. HIDE DEF next
    <3>. QED BY <1>1, <2>0, <2>3, <3>1 DEF ChkFields
  <2>. QED BY <2>1, <2>2, <2>3 DEF DataStates
<1>. HIDE DEF next
<1>. QED BY <1>1, <1>2 DEF next, mid, ChkRuns

\* The words the checker asked for, of t: f it has not looked at, n under way.
Checks(c, f, n, t) ==
    /\ ChkFields \subseteq DOMAIN c /\ c.cmd \in CmdStates /\ c.data \in DataStates
    /\ c.cmd_counter \in Nat /\ c.data_counter \in Nat
    /\ c.cmd = "IDLE" <=> c.data = "IDLE"
    /\ c.cmd = "IDLE" => f = 0 /\ n = 0
    /\ c.cmd # "IDLE" => /\ c.cmd_counter = c.data_counter + f + n
                         /\ IF c.cmd = "DONE" THEN c.cmd_counter = t ELSE c.cmd_counter < t
                         /\ IF c.data = "DONE" THEN c.data_counter = t ELSE c.data_counter < t

\* It may be reset.
Rests(c) == c.cmd = "IDLE" \/ c.data = "DONE"

(* Then nothing is left of what it asked for.                                 *)
LEMMA RestsEmpty ==
    ASSUME NEW c, NEW f \in Nat, NEW n \in Nat, NEW t \in Nat, Checks(c, f, n, t), Rests(c)
    PROVE  f = 0 /\ n = 0 /\ c.cmd \in {"IDLE", "DONE"} /\ (c.cmd = "DONE" => c.cmd_counter = t)
<1>1. CASE c.cmd = "IDLE" BY <1>1 DEF Checks
<1>2. CASE c.cmd # "IDLE"
  <2>1. c.data = "DONE" /\ c.data_counter = t /\ c.cmd_counter = c.data_counter + f + n /\ c.cmd_counter <= t
        /\ (c.cmd # "DONE" => c.cmd_counter < t) /\ c.cmd \in CmdStates /\ c.cmd_counter \in Nat
    BY <1>2 DEF Checks, Rests
  <2>. QED BY <1>2, <2>1 DEF CmdStates
<1>. QED BY <1>1, <1>2

\* An edge of the checker, of t words, and of its reader with n words under way.
ChkEdge(c, next, r, reader, cmd, n, i, start, t) ==
    LET new == IF i.cmd_ready /\ cmd # <<>> THEN 1 ELSE 0
        left == n - (IF i.rdata # <<>> THEN 1 ELSE 0) + new
    IN /\ Single(cmd) /\ (cmd # <<>> => ~Head(cmd).we /\ c.cmd = "RUN")
       /\ i.rdata # <<>> => ReaderRoom(r)
       /\ Reserved(reader, left) /\ Checks(next, Len(reader.fifo), left, t)
       /\ c.cmd = "IDLE" => IF start THEN next.cmd # "IDLE" /\ next.cmd_counter = 0 ELSE next.cmd = "IDLE"
       /\ c.cmd # "IDLE" => next.cmd # "IDLE" /\ next.cmd_counter = c.cmd_counter + new
       /\ c.data = "DONE" => next.data = "DONE"

\* It takes a word when there is one.
Takes(c) == c.data = "RUN"

(* The counts stay right.                                                     *)
LEMMA ChkMoves ==
    ASSUME NEW c, NEW r, NEW n \in Nat, NEW p, BistLength(p) \in Nat \ {0},
           Checks(c, Len(r.fifo), n, BistLength(p)), Reserved(r, n),
           NEW i, Single(i.rdata), i.rdata # <<>> => n > 0,
           NEW start \in BOOLEAN, NEW cascade \in BOOLEAN
    PROVE  ChkEdge(c, ChkDataFsm(ChkCmdFsm(c, p, r, start, cascade, i), p, r, start), r,
                   ReaderNext(r, TRUE, ChkSink(c, p), Takes(c), i), ReaderCmd(r, TRUE, ChkSink(c, p)), n, i,
                   start, BistLength(p))
<1>. DEFINE t == BistLength(p)
            f == Len(r.fifo)
            sink == ChkSink(c, p)
            cmd == ReaderCmd(r, TRUE, sink)
            next == ChkDataFsm(ChkCmdFsm(c, p, r, start, cascade, i), p, r, start)
            reader == ReaderNext(r, TRUE, sink, c.data = "RUN", i)
            new == IF i.cmd_ready /\ cmd # <<>> THEN 1 ELSE 0
            got == IF i.rdata # <<>> THEN 1 ELSE 0
            pop == IF r.fifo # <<>> /\ c.data = "RUN" THEN 1 ELSE 0
            left == n - got + new
            issues == c.cmd = "RUN" /\ ReaderReady(r, TRUE, i)
            took == c.data = "RUN" /\ ReaderSource(r) # <<>>
<1>1. /\ Queue(r.fifo) /\ f \in Nat /\ r.res = n + f /\ r.res \in Nat /\ t \in Nat \ {0}
      /\ r.fifo = <<>> <=> f = 0
  BY QueueMoves DEF Reserved
<1>2. ChkFields \subseteq DOMAIN c /\ c.cmd \in CmdStates /\ c.data \in DataStates BY DEF Checks
<1>3. /\ Single(sink) /\ (sink # <<>> <=> c.cmd = "RUN")
  BY QueueMoves DEF ChkSink, Single
<1>4. (new = 1 <=> issues) /\ (new = 0 <=> ~issues)
  <2>1. cmd # <<>> <=> sink # <<>> /\ r.res < dma_depth BY QueueMoves DEF ReaderCmd
  <2>2. issues <=> i.cmd_ready /\ cmd # <<>> BY <1>3, <2>1 DEF ReaderReady
  <2>. HIDE DEF cmd, issues
  <2>. QED BY <2>2
<1>5. (pop = 1 <=> took) /\ (pop = 0 <=> ~took)
  <2>1. ReaderSource(r) # <<>> <=> r.fifo # <<>>
    <3>1. r.fifo # <<>> => r.res > 0 BY <1>1
    <3>. QED BY <3>1, QueueMoves DEF ReaderSource
  <2>. QED BY <2>1
<1>6. /\ Single(cmd) /\ (cmd # <<>> => ~Head(cmd).we) /\ (i.rdata # <<>> => ReaderRoom(r))
      /\ Reserved(reader, left)
  <2>1. TRUE \in BOOLEAN /\ (c.data = "RUN") \in BOOLEAN OBVIOUS
  <2>. HIDE DEF sink
  <2>. QED BY <1>3, <2>1, ReaderMoves, Zenon
<1>7. cmd # <<>> => c.cmd = "RUN" BY <1>3 DEF ReaderCmd
<1>8. reader.res = r.res + new - pop
  <2>1. reader.res = r.res + (IF cmd # <<>> /\ i.cmd_ready THEN 1 ELSE 0)
                           - (IF (r.fifo # <<>> /\ c.data = "RUN") /\ r.res > 0 THEN 1 ELSE 0)
    <3>. HIDE DEF sink
    <3>. QED BY DEF ReaderNext
  <2>2. r.fifo # <<>> => r.res > 0 BY <1>1
  <2>. HIDE DEF cmd, reader
  <2>. QED BY <2>1, <2>2
<1>9. /\ new \in 0 .. 1 /\ got \in 0 .. 1 /\ pop \in 0 .. 1 /\ (got = 1 => n > 0) /\ (pop = 1 => f > 0)
  BY <1>1
<1>10. ChkRuns(c, next, start, issues, took, t) BY <1>2, ChkFsms, Zenon
<1>. DEFINE g == Len(reader.fifo)
<1>11. reader.res = left + g /\ g \in Nat BY <1>6, QueueMoves DEF Reserved
<1>12. (issues => c.cmd = "RUN") /\ (took => c.data = "RUN") OBVIOUS
<1>. HIDE DEF sink, cmd, next, reader, new, got, pop, issues, took, f, t, g
<1>13. g = f - pop + got /\ left \in Nat /\ left = n - got + new
  <2>1. /\ n \in Int /\ got \in Int /\ new \in Int /\ pop \in Int /\ f \in Int /\ g \in Int
    BY <1>1, <1>9, <1>11
  <2>2. n + f + new - pop = (n - got + new) + g BY <1>1, <1>8, <1>11
  <2>3. got = 0 \/ n > 0 BY <1>9
  <2>. QED BY <1>9, <2>1, <2>2, <2>3
<1>. HIDE DEF left
<1>18. /\ ChkFields \subseteq DOMAIN next
       /\ next.cmd_counter = IF c.cmd = "IDLE" /\ start THEN 0
                             ELSE IF issues THEN c.cmd_counter + 1 ELSE c.cmd_counter
       /\ next.data_counter = IF c.data = "IDLE" /\ start THEN 0
                              ELSE IF took THEN c.data_counter + 1 ELSE c.data_counter
       /\ next.cmd \in IF c.cmd = "IDLE" THEN (IF start THEN {"WAIT", "RUN"} ELSE {"IDLE"})
                       ELSE IF c.cmd = "DONE" \/ (issues /\ c.cmd_counter = t - 1) THEN {"DONE"} ELSE {"WAIT", "RUN"}
       /\ next.data = IF c.data = "IDLE" THEN (IF start THEN "RUN" ELSE "IDLE")
                      ELSE IF c.data = "DONE" \/ (took /\ c.data_counter = t - 1) THEN "DONE" ELSE "RUN"
  BY <1>10 DEF ChkRuns
<1>14. Checks(next, g, left, t)
  <2>0. Checks(c, f, n, t) BY DEF f, t
  <2>1. CASE c.cmd = "IDLE"
    <3>1. c.data = "IDLE" /\ f = 0 /\ n = 0 BY <2>0, <2>1 DEF Checks
    <3>2. ~issues /\ ~took /\ new = 0 /\ pop = 0 /\ got = 0 BY <1>4, <1>5, <1>9, <1>12, <2>1, <3>1
    <3>3. g = 0 /\ left = 0 BY <1>13, <3>1, <3>2
    <3>4. CASE start
      <4>1. next.cmd \in {"WAIT", "RUN"} /\ next.data = "RUN" /\ next.cmd_counter = 0 /\ next.data_counter = 0
        BY <1>18, <2>1, <3>1, <3>4
      <4>2. ChkFields \subseteq DOMAIN next /\ 0 < t /\ 0 = 0 + 0 + 0 BY <1>1, <1>18
      <4>. QED BY <3>3, <4>1, <4>2 DEF Checks, CmdStates, DataStates
    <3>5. CASE ~start
      <4>1. next.cmd = "IDLE" /\ next.data = "IDLE" /\ next.cmd_counter = c.cmd_counter
            /\ next.data_counter = c.data_counter
        BY <1>18, <2>1, <3>1, <3>2, <3>5
      <4>. QED BY <1>18, <2>0, <3>3, <4>1 DEF Checks, CmdStates, DataStates
    <3>. QED BY <3>4, <3>5
  <2>2. CASE c.cmd # "IDLE"
    <3>1. /\ c.data # "IDLE" /\ c.cmd_counter \in Nat /\ c.data_counter \in Nat
          /\ c.cmd_counter = c.data_counter + f + n
          /\ IF c.cmd = "DONE" THEN c.cmd_counter = t ELSE c.cmd_counter < t
          /\ IF c.data = "DONE" THEN c.data_counter = t ELSE c.data_counter < t
      BY <2>0, <2>2 DEF Checks
    <3>2. next.cmd_counter = c.cmd_counter + new /\ next.data_counter = c.data_counter + pop
      BY <1>4, <1>5, <1>9, <1>18, <2>2, <3>1
    <3>3. next.cmd_counter = next.data_counter + g + left
      <4>1. /\ n \in Int /\ got \in Int /\ new \in Int /\ pop \in Int /\ f \in Int /\ g \in Int
            /\ c.cmd_counter \in Int /\ c.data_counter \in Int
        BY <1>1, <1>9, <1>11, <3>1
      <4>. QED BY <1>13, <3>1, <3>2, <4>1
    <3>4. /\ next.cmd \in CmdStates \ {"IDLE"}
          /\ IF next.cmd = "DONE" THEN next.cmd_counter = t ELSE next.cmd_counter < t
      <4>1. CASE c.cmd = "WAIT" BY <1>1, <1>18, <1>12, <3>1, <4>1 DEF CmdStates
      <4>2. CASE c.cmd = "RUN"
        <5>1. CASE issues /\ c.cmd_counter = t - 1
          <6>1. next.cmd = "DONE" /\ next.cmd_counter = t BY <1>1, <1>18, <3>1, <4>2, <5>1
          <6>. QED BY <6>1 DEF CmdStates
        <5>2. CASE issues /\ c.cmd_counter # t - 1
          <6>1. next.cmd \in {"WAIT", "RUN"} /\ next.cmd_counter = c.cmd_counter + 1 BY <1>18, <4>2, <5>2
          <6>2. c.cmd_counter \in Nat /\ c.cmd_counter < t /\ c.cmd_counter # t - 1 BY <3>1, <4>2, <5>2
          <6>3. c.cmd_counter + 1 < t BY <1>1, <6>2
          <6>. QED BY <6>1, <6>3 DEF CmdStates
        <5>3. CASE ~issues
          <6>1. next.cmd \in {"WAIT", "RUN"} /\ next.cmd_counter = c.cmd_counter BY <1>18, <4>2, <5>3
          <6>. QED BY <3>1, <4>2, <6>1 DEF CmdStates
        <5>. QED BY <5>1, <5>2, <5>3
      <4>3. CASE c.cmd = "DONE" BY <1>1, <1>18, <1>12, <3>1, <4>3 DEF CmdStates
      <4>. QED BY <1>2, <2>2, <4>1, <4>2, <4>3 DEF CmdStates
    <3>5. /\ next.data \in DataStates \ {"IDLE"}
          /\ IF next.data = "DONE" THEN next.data_counter = t ELSE next.data_counter < t
      <4>1. CASE c.data = "RUN"
        <5>1. CASE took /\ c.data_counter = t - 1
          <6>1. next.data = "DONE" /\ next.data_counter = t BY <1>1, <1>18, <3>1, <4>1, <5>1
          <6>. QED BY <6>1 DEF DataStates
        <5>2. CASE took /\ c.data_counter # t - 1
          <6>1. next.data = "RUN" /\ next.data_counter = c.data_counter + 1 BY <1>18, <4>1, <5>2
          <6>2. c.data_counter \in Nat /\ c.data_counter < t /\ c.data_counter # t - 1 BY <3>1, <4>1, <5>2
          <6>3. c.data_counter + 1 < t BY <1>1, <6>2
          <6>. QED BY <6>1, <6>3 DEF DataStates
        <5>3. CASE ~took
          <6>1. next.data = "RUN" /\ next.data_counter = c.data_counter BY <1>18, <4>1, <5>3
          <6>. QED BY <3>1, <4>1, <6>1 DEF DataStates
        <5>. QED BY <5>1, <5>2, <5>3
      <4>2. CASE c.data = "DONE" BY <1>1, <1>18, <1>12, <3>1, <4>2 DEF DataStates
      <4>. QED BY <1>2, <3>1, <4>1, <4>2 DEF DataStates
    <3>6. next.cmd_counter \in Nat /\ next.data_counter \in Nat BY <1>9, <3>1, <3>2
    <3>. QED BY <1>18, <3>3, <3>4, <3>5, <3>6 DEF Checks
  <2>. QED BY <2>1, <2>2
<1>15. c.cmd = "IDLE" => IF start THEN next.cmd # "IDLE" /\ next.cmd_counter = 0 ELSE next.cmd = "IDLE"
  BY <1>18
<1>16. c.cmd # "IDLE" => next.cmd # "IDLE" /\ next.cmd_counter = c.cmd_counter + new
  <2>1. ASSUME c.cmd # "IDLE" PROVE next.cmd # "IDLE" BY <1>2, <1>18, <2>1 DEF CmdStates
  <2>2. ASSUME c.cmd # "IDLE" PROVE next.cmd_counter = c.cmd_counter + new
    <3>1. c.cmd_counter \in Nat BY DEF Checks
    <3>. QED BY <1>4, <1>9, <1>18, <2>2, <3>1
  <2>. QED BY <2>1, <2>2
<1>17. c.data = "DONE" => next.data = "DONE" BY <1>18
<1>. QED BY <1>6, <1>7, <1>14, <1>15, <1>16, <1>17 DEF sink, cmd, next, reader, new, got, left, g, t, ChkEdge, Takes

gen == bridge.gen
chk == bridge.chk

\* What the cores keep while software uses them as it does.
CoreBooks ==
    /\ {"gen", "fifo", "chk", "reader", "cdc", "control", "status"} \subseteq DOMAIN bridge
    /\ "state" \in DOMAIN gen /\ gen.state \in GenStates
    /\ Queue(bridge.fifo) /\ Len(bridge.fifo) = Writes
    /\ Reserved(bridge.reader, Reads)
    /\ BistLength(master.p) \in Nat \ {0}
    /\ Checks(chk, Len(bridge.reader.fifo), Reads, BistLength(master.p))
    /\ WritesFirst(Line)

\* Once a word of the checker was read there are no writes.
WritesOver == chk.cmd_counter > Count(Line, "read") => Writes = 0

\* Software's strobes.
ResetGen == <<"gen", "reset">>
StartGen == <<"gen", "start">>
ResetChk == <<"chk", "reset">>
StartChk == <<"chk", "start">>

\* What the cores do with a strobe.
GenGoes(s) ==
    /\ s = ResetGen => gen'.state = "IDLE"
    /\ s # ResetGen =>
          /\ gen.state = "IDLE" => gen'.state = IF s = StartGen THEN "RUN" ELSE "IDLE"
          /\ gen.state # "IDLE" => gen'.state # "IDLE"
          /\ gen.state = "DONE" => gen'.state = "DONE"
    /\ gen.state # "RUN" /\ Writes = 0 => Writes' = 0
ChkGoes(s) ==
    /\ s = ResetChk => chk'.cmd = "IDLE"
    /\ s # ResetChk =>
          /\ chk.cmd = "IDLE" => IF s = StartChk THEN chk'.cmd # "IDLE" /\ WritesOver'
                                 ELSE chk'.cmd = "IDLE"
          /\ chk.cmd # "IDLE" => chk'.cmd # "IDLE"
          /\ chk.data = "DONE" => chk'.data = "DONE"
          /\ gen.state # "RUN" /\ chk.cmd # "IDLE" /\ WritesOver => WritesOver'

(* A write and a read are not sent at once.                                   *)
LEMMA OneCommand ==
    ASSUME NEW w, NEW r, Single(w), Single(r), w # <<>> => Head(w).we, r # <<>> => ~Head(r).we, w = <<>> \/ r = <<>>
    PROVE  /\ Single(w \o r)
           /\ w \o r # <<>> /\ Head(w \o r).we <=> w # <<>>
           /\ w \o r # <<>> /\ ~Head(w \o r).we <=> r # <<>>
<1>1. Queue(w) /\ Queue(r) BY SingleMoves
<1>2. CASE w = <<>>
  <2>1. w \o r = r
    <3>1. PICK S : r \in Seq(S) BY <1>1 DEF Queue
    <3>. QED BY <1>2, <3>1, ConcatEmptySeq
  <2>. QED BY <1>2, <2>1
<1>3. CASE r = <<>>
  <2>1. w \o r = w
    <3>1. PICK S : w \in Seq(S) BY <1>1 DEF Queue
    <3>. QED BY <1>3, <3>1, ConcatEmptySeq
  <2>. QED BY <1>3, <2>1
<1>. QED BY <1>2, <1>3

(* An edge of the checker.                                                    *)
LEMMA CheckerEdge ==
    ASSUME InTime, CoreBooks, NEW e \in PortInputs, NEW start \in BOOLEAN, NEW cascade \in BOOLEAN, NEW i, i = Seen(e)
    PROVE  ChkEdge(chk, ChkDataFsm(ChkCmdFsm(chk, master.p, bridge.reader, start, cascade, i), master.p, bridge.reader, start),
                   bridge.reader, ReaderNext(bridge.reader, TRUE, ChkSink(chk, master.p), chk.data = "RUN", i),
                   ReaderCmd(bridge.reader, TRUE, ChkSink(chk, master.p)), Reads, i, start, BistLength(master.p))
<1>1. i.rdata = rdata(e) BY DEF Seen
<1>2. Reads \in Nat /\ Single(i.rdata) /\ (i.rdata # <<>> => Reads > 0)
  BY <1>1, PortOwes DEF InTime, Single, rdata
<1>3. /\ BistLength(master.p) \in Nat \ {0} /\ Checks(chk, Len(bridge.reader.fifo), Reads, BistLength(master.p))
      /\ Reserved(bridge.reader, Reads)
  BY DEF CoreBooks
<1>4. ChkEdge(chk, ChkDataFsm(ChkCmdFsm(chk, master.p, bridge.reader, start, cascade, i), master.p, bridge.reader, start),
              bridge.reader, ReaderNext(bridge.reader, TRUE, ChkSink(chk, master.p), Takes(chk), i),
              ReaderCmd(bridge.reader, TRUE, ChkSink(chk, master.p)), Reads, i, start, BistLength(master.p))
  BY <1>2, <1>3, ChkMoves, Zenon
<1>. QED BY <1>4, Zenon DEF Takes

(* An edge of the cores, when they are reset at rest only and the generator   *)
(* runs only while the checker rests.                                         *)
LEMMA CoreStep ==
    ASSUME InTime, CoreBooks, NEW e \in PortInputs, NEW s, NEW cascade \in BOOLEAN,
           BistCoreTick(e, s, cascade), master'.p = master.p,
           gen.state = "RUN" => Rests(chk),
           s = ResetGen => gen.state # "RUN" /\ Writes = 0,
           s = ResetChk => Rests(chk)
    PROVE  InTime' /\ CoreBooks' /\ GenGoes(s) /\ ChkGoes(s)
<1>. DEFINE i == Seen(e)
            p == master.p
            sink == GenSink(gen, p)
            rsink == ChkSink(chk, p)
            wcmd == WriterCmd(bridge.fifo, sink)
            rcmd == ReaderCmd(bridge.reader, TRUE, rsink)
            o == [ cmd |-> wcmd \o rcmd, wdata |-> WriterData(bridge.fifo), rdata_ready |-> ReaderRoom(bridge.reader) ]
            greset == s = <<"gen", "reset">>
            gstart == s = <<"gen", "start">>
            creset == s = <<"chk", "reset">>
            cstart == s = <<"chk", "start">>
            cnext == ChkDataFsm(ChkCmdFsm(chk, p, bridge.reader, cstart, cascade, i), p, bridge.reader, cstart)
            wnext == WriterNext(bridge.fifo, sink, i)
            rnext == ReaderNext(bridge.reader, TRUE, rsink, chk.data = "RUN", i)
<1>1. /\ port' = PortNext(e, o) /\ DOMAIN bridge' = DOMAIN bridge
      /\ gen' = GenNext(gen, p, bridge.fifo, greset, gstart, cascade, i)
      /\ bridge'.fifo = IF greset THEN <<>> ELSE wnext
      /\ chk' = IF creset THEN [chk EXCEPT !.cmd = "IDLE", !.data = "IDLE", !.errors = 0] ELSE cnext
      /\ bridge'.reader = IF creset THEN ReaderInit ELSE rnext
  <2>1. {"gen", "fifo", "chk", "reader", "cdc", "control", "status"} \subseteq DOMAIN bridge BY DEF CoreBooks
  <2>2. port' = PortNext(e, o) BY Zenon DEF BistCoreTick, gen, chk
  <2>3. bridge' = [bridge EXCEPT
             !.gen = GenNext(bridge.gen, p, bridge.fifo, greset, gstart, cascade, i),
             !.fifo = IF greset THEN <<>> ELSE wnext,
             !.chk = ChkNext(bridge.chk, p, bridge.reader, creset, cstart, cascade, i),
             !.reader = IF creset THEN ReaderInit ELSE rnext,
             !.control = IF bridge.cdc /\ @ # <<>> THEN Tail(@) ELSE @,
             !.status = IF bridge.cdc /\ @ = <<>> THEN <<Status>> ELSE @]
    BY Zenon DEF BistCoreTick, gen, chk
  <2>4. ChkNext(chk, p, bridge.reader, creset, cstart, cascade, i)
          = IF creset THEN [chk EXCEPT !.cmd = "IDLE", !.data = "IDLE", !.errors = 0] ELSE cnext
    BY Zenon DEF ChkNext
  <2>. HIDE DEF i, p, sink, rsink, o, greset, gstart, creset, cstart, cnext, wnext, rnext
  <2>. QED BY <2>1, <2>2, <2>3, <2>4 DEF gen, chk
<1>2. /\ i.wdata_ready <=> wdata_ready(e)
      /\ i.cmd_ready <=> e.ready
      /\ i.rdata = rdata(e)
  BY DEF Seen
<1>3. /\ Writes \in Nat /\ Reads \in Nat /\ (wdata_ready(e) => Writes > 0) /\ (e.ret => Reads > 0)
      /\ Single(rdata(e)) /\ (rdata(e) # <<>> <=> e.ret)
  BY PortOwes DEF InTime, Single, rdata
<1>4. /\ Queue(bridge.fifo) /\ Len(bridge.fifo) = Writes /\ Reserved(bridge.reader, Reads)
      /\ BistLength(p) \in Nat \ {0} /\ Checks(chk, Len(bridge.reader.fifo), Reads, BistLength(p))
      /\ "state" \in DOMAIN gen /\ gen.state \in GenStates /\ WritesFirst(Line)
  BY DEF CoreBooks
<1>5. i.wdata_ready => bridge.fifo # <<>>
  <2>1. bridge.fifo = <<>> => Len(bridge.fifo) = 0 BY <1>4, QueueMoves
  <2>. QED BY <1>2, <1>3, <1>4, <2>1
<1>6. greset \in BOOLEAN /\ gstart \in BOOLEAN /\ creset \in BOOLEAN /\ cstart \in BOOLEAN OBVIOUS
<1>. HIDE DEF i, greset, gstart, creset, cstart
<1>7. /\ "state" \in DOMAIN gen' /\ gen'.state \in GenStates
      /\ greset => gen'.state = "IDLE"
      /\ ~greset /\ gen.state = "IDLE" => gen'.state = IF gstart THEN "RUN" ELSE "IDLE"
      /\ ~greset /\ gen.state # "IDLE" => gen'.state # "IDLE"
      /\ ~greset /\ gen.state = "DONE" => gen'.state = "DONE"
      /\ Single(sink) /\ (sink # <<>> => gen.state = "RUN")
  BY <1>1, <1>4, <1>6, GenMoves
<1>. HIDE DEF sink, p
<1>8. /\ Single(wcmd) /\ (wcmd # <<>> => Head(wcmd).we) /\ (wcmd # <<>> => gen.state = "RUN")
      /\ o.wdata = <<>> <=> bridge.fifo = <<>>
      /\ Queue(wnext)
      /\ Len(wnext) = Writes - (IF wdata_ready(e) THEN 1 ELSE 0) + (IF e.ready /\ wcmd # <<>> THEN 1 ELSE 0)
  <2>1. wcmd # <<>> => gen.state = "RUN" BY <1>7 DEF WriterCmd
  <2>. HIDE DEF wcmd
  <2>. QED BY <1>2, <1>4, <1>5, <1>7, <2>1, WriterMoves DEF wcmd
<1>. DEFINE new == IF e.ready /\ rcmd # <<>> THEN 1 ELSE 0
            got == IF e.ret THEN 1 ELSE 0
<1>9. /\ Single(rcmd) /\ (rcmd # <<>> => ~Head(rcmd).we) /\ (rcmd # <<>> => chk.cmd = "RUN")
      /\ e.ret => o.rdata_ready
      /\ Reserved(rnext, Reads - got + new)
      /\ Checks(cnext, Len(rnext.fifo), Reads - got + new, BistLength(p))
      /\ chk.cmd = "IDLE" => IF cstart THEN cnext.cmd # "IDLE" /\ cnext.cmd_counter = 0 ELSE cnext.cmd = "IDLE"
      /\ chk.cmd # "IDLE" => cnext.cmd # "IDLE" /\ cnext.cmd_counter = chk.cmd_counter + new
      /\ chk.data = "DONE" => cnext.data = "DONE"
  <2>2. (i.rdata # <<>> <=> e.ret) /\ (i.cmd_ready <=> e.ready) BY <1>2, <1>3
  <2>3. ChkEdge(chk, cnext, bridge.reader, rnext, rcmd, Reads, i, cstart, BistLength(p))
    BY <1>6, CheckerEdge, Zenon DEF i, p
  <2>. HIDE DEF rcmd, rnext, cnext
  <2>. QED BY <2>2, <2>3 DEF ChkEdge
<1>. HIDE DEF rcmd, wcmd, wnext, rnext, cnext
<1>10. Rests(chk) => Reads = 0 /\ Len(bridge.reader.fifo) = 0 /\ chk.cmd # "RUN" /\ rcmd = <<>>
  <2>1. Len(bridge.reader.fifo) \in Nat BY <1>4, QueueMoves DEF Reserved
  <2>. QED BY <1>3, <1>4, <1>9, <2>1, RestsEmpty
<1>11. wcmd = <<>> \/ rcmd = <<>> BY <1>8, <1>10
<1>12. /\ Single(o.cmd)
       /\ o.cmd # <<>> /\ Head(o.cmd).we <=> wcmd # <<>>
       /\ o.cmd # <<>> /\ ~Head(o.cmd).we <=> rcmd # <<>>
  BY <1>8, <1>9, <1>11, OneCommand
<1>13. port' = PortNext(e, o) /\ (wdata_ready(e) => o.wdata # <<>>) BY <1>1, <1>2, <1>5, <1>8
<1>. HIDE DEF o
<1>14. /\ InTime'
       /\ Writes' = Writes - (IF wdata_ready(e) THEN 1 ELSE 0) + (IF e.ready /\ wcmd # <<>> THEN 1 ELSE 0)
       /\ Reads' = Reads - got + new
  <2>1. /\ InTime'
        /\ Writes' = Writes - (IF wdata_ready(e) THEN 1 ELSE 0) + (IF e.ready /\ o.cmd # <<>> /\ Head(o.cmd).we THEN 1 ELSE 0)
        /\ Reads' = Reads - (IF e.ret THEN 1 ELSE 0) + (IF e.ready /\ o.cmd # <<>> /\ ~Head(o.cmd).we THEN 1 ELSE 0)
    BY <1>9, <1>12, <1>13, Served, Zenon
  <2>. QED BY <1>12, <2>1
<1>15. PICK done \in 0 .. 1 :
          /\ Count(Line, "read")' = Count(Line, "read") - done + new
          /\ done = 1 => Writes = 0
          /\ WritesFirst(Line)'
  <2>1. o.cmd # <<>> /\ Head(o.cmd).we => Reads = 0 BY <1>8, <1>10, <1>12
  <2>2. PortTyped BY DEF InTime
  <2>3. /\ WritesFirst(Line)'
        /\ \E done \in 0 .. 1 :
              /\ Count(Line, "read")' = Count(Line, "read") - done
                                        + (IF e.ready /\ o.cmd # <<>> /\ ~Head(o.cmd).we THEN 1 ELSE 0)
              /\ done = 1 => Writes = 0
    BY <1>4, <1>12, <1>13, <2>1, <2>2, LineEdge, Zenon
  <2>. QED BY <1>12, <2>3
<1>. HIDE DEF new, got
<1>16. Queue(bridge'.fifo) /\ Len(bridge'.fifo) = Writes'
  <2>1. CASE greset
    <3>1. Writes = 0 /\ wcmd = <<>> BY <1>8, <2>1 DEF greset, ResetGen
    <3>2. Writes' = 0
      <4>1. ~wdata_ready(e) BY <1>3, <3>1
      <4>2. Writes' = 0 - 0 + 0 BY <1>14, <3>1, <4>1
      <4>. QED BY <4>2
    <3>. QED BY <1>1, <2>1, <3>2, QueueMoves
  <2>2. CASE ~greset BY <1>1, <1>8, <1>14, <2>2
  <2>. QED BY <2>1, <2>2
<1>17. /\ Reserved(bridge'.reader, Reads') /\ Checks(chk', Len(bridge'.reader.fifo), Reads', BistLength(p))
       /\ creset => chk'.cmd = "IDLE"
  <2>1. CASE creset
    <3>1. Reads = 0 /\ rcmd = <<>> BY <1>10, <2>1 DEF creset, ResetChk
    <3>2. Reads' = 0
      <4>1. got = 0 /\ new = 0 BY <1>3, <3>1 DEF new, got
      <4>2. Reads' = 0 - 0 + 0 BY <1>14, <3>1, <4>1
      <4>. QED BY <4>2
    <3>3. bridge'.reader = [res |-> 0, fifo |-> <<>>] BY <1>1, <2>1 DEF ReaderInit
    <3>4. Reserved(bridge'.reader, 0) /\ Len(bridge'.reader.fifo) = 0
      BY <3>3, QueueMoves, DmaAssumption DEF Reserved
    <3>5. chk' = [chk EXCEPT !.cmd = "IDLE", !.data = "IDLE", !.errors = 0] BY <1>1, <2>1
    <3>6. ChkFields \subseteq DOMAIN chk /\ chk.cmd_counter \in Nat /\ chk.data_counter \in Nat BY <1>4 DEF Checks
    <3>7. Checks(chk', 0, 0, BistLength(p)) BY <3>5, <3>6 DEF Checks, CmdStates, DataStates, ChkFields
    <3>8. chk'.cmd = "IDLE" BY <3>5, <3>6 DEF ChkFields
    <3>. QED BY <3>2, <3>4, <3>7, <3>8
  <2>2. CASE ~creset BY <1>1, <1>9, <1>14, <2>2
  <2>. QED BY <2>1, <2>2
<1>18. CoreBooks'
  <2>1. BistLength(master.p)' = BistLength(p) BY DEF p
  <2>2. {"gen", "fifo", "chk", "reader", "cdc", "control", "status"} \subseteq DOMAIN bridge' BY <1>1 DEF CoreBooks
  <2>. QED BY <1>4, <1>7, <1>15, <1>16, <1>17, <2>1, <2>2 DEF CoreBooks
<1>19. GenGoes(s)
  <2>1. gen.state # "RUN" /\ Writes = 0 => Writes' = 0 BY <1>3, <1>8, <1>14
  <2>. QED BY <1>7, <2>1 DEF GenGoes, greset, gstart, ResetGen, StartGen
<1>20. ChkGoes(s)
  <2>1. ASSUME ~creset, gen.state # "RUN", chk.cmd # "IDLE", WritesOver PROVE WritesOver'
    <3>1. chk'.cmd_counter = chk.cmd_counter + new /\ chk.cmd_counter \in Nat BY <1>1, <1>4, <1>9, <2>1 DEF Checks
    <3>2. new \in 0 .. 1 /\ Count(Line, "read") \in Nat BY LineCounts DEF new, InTime
    <3>3. Writes = 0 => Writes' = 0 BY <1>3, <1>8, <1>14, <2>1
    <3>4. CASE done = 1 BY <1>15, <3>3, <3>4 DEF WritesOver
    <3>5. CASE done = 0
      <4>1. Count(Line, "read")' = Count(Line, "read") + new BY <1>15, <3>2, <3>5
      <4>2. chk'.cmd_counter > Count(Line, "read")' => chk.cmd_counter > Count(Line, "read")
        <5>1. PICK a \in Int, b \in Int, x \in Int : a = chk.cmd_counter /\ b = Count(Line, "read") /\ x = new
          BY <3>1, <3>2
        <5>2. a + x > b + x => a > b BY <5>1
        <5>. QED BY <3>1, <4>1, <5>1, <5>2
      <4>. QED BY <2>1, <3>3, <4>2 DEF WritesOver
    <3>. QED BY <1>15, <3>4, <3>5
  <2>2. ~creset => chk' = cnext BY <1>1
  <2>3. /\ creset => chk'.cmd = "IDLE"
        /\ ~creset => /\ chk.cmd = "IDLE" => IF cstart THEN chk'.cmd # "IDLE" /\ chk'.cmd_counter = 0
                                             ELSE chk'.cmd = "IDLE"
                      /\ chk.cmd # "IDLE" => chk'.cmd # "IDLE"
                      /\ chk.data = "DONE" => chk'.data = "DONE"
    BY <1>9, <1>17, <2>2
  <2>4. chk'.cmd_counter = 0 => WritesOver'
    <3>1. Queue(port'.cmds) /\ Queue(port'.fresh) BY <1>14, SingleMoves DEF InTime, PortTyped
    <3>2. Queue(Line)' BY <3>1, QueueMoves DEF Line
    <3>3. Count(Line, "read")' \in Nat BY <3>2, CountMoves
    <3>. QED BY <3>3 DEF WritesOver
  <2>. QED BY <2>1, <2>3, <2>4 DEF ChkGoes, creset, cstart, ResetChk, StartChk
<1>. QED BY <1>14, <1>18, <1>19, <1>20

\* How far software is, with the strobes on their way to the cores: w writes
\* and r reads are under way.
Idle(g, c, w) == g.state \in {"IDLE", "DONE"} /\ w = 0 /\ Rests(c)
Scripted(step, control, g, c, w, r) ==
    \/ step = "reset gen" /\ control = <<>> /\ Idle(g, c, w)
    \/ /\ step = "start gen" /\ Idle(g, c, w)
       /\ (control = <<>> /\ g.state = "IDLE") \/ control = <<ResetGen>>
    \/ /\ step = "generating" /\ Rests(c)
       /\ \/ control = <<>> /\ g.state # "IDLE"
          \/ control \in {<<StartGen>>, <<ResetGen, StartGen>>} /\ g.state = "IDLE" /\ w = 0
    \/ step = "reset chk" /\ control = <<>> /\ g.state = "DONE" /\ Rests(c)
    \/ /\ step = "start chk" /\ g.state = "DONE" /\ Rests(c)
       /\ (control = <<>> /\ c.cmd = "IDLE") \/ control = <<ResetChk>>
    \/ /\ step = "checking" /\ g.state = "DONE"
       /\ \/ control = <<>> /\ c.cmd # "IDLE" /\ (c.cmd_counter > r => w = 0)
          \/ control \in {<<StartChk>>, <<ResetChk, StartChk>>} /\ c.cmd = "IDLE"
    \/ step = "over" /\ control = <<>> /\ g.state = "DONE" /\ c.data = "DONE" /\ w = 0
Script(step, control) == Scripted(step, control, gen, chk, Writes, Count(Line, "read"))

(* The strobes are different ones.                                            *)
LEMMA StrobesApart ==
    /\ <<>> # ResetGen /\ <<>> # StartGen /\ <<>> # ResetChk /\ <<>> # StartChk
    /\ ResetGen # StartGen /\ ResetGen # ResetChk /\ ResetGen # StartChk
    /\ StartGen # ResetChk /\ StartGen # StartChk /\ ResetChk # StartChk
<1>1. /\ ResetGen # StartGen /\ ResetGen # ResetChk /\ ResetGen # StartChk
      /\ StartGen # ResetChk /\ StartGen # StartChk /\ ResetChk # StartChk
  BY DEF ResetGen, StartGen, ResetChk, StartChk
<1>2. ASSUME NEW a, NEW b PROVE <<>> # <<a, b>>
  <2>1. <<>> \in Seq({a, b}) /\ <<a, b>> \in Seq({a, b}) OBVIOUS
  <2>2. Len(<<>>) = 0 /\ Len(<<a, b>>) = 2 OBVIOUS
  <2>. QED BY <2>2
<1>3. <<>> # ResetGen /\ <<>> # StartGen /\ <<>> # ResetChk /\ <<>> # StartChk
  BY <1>2, Zenon DEF ResetGen, StartGen, ResetChk, StartChk
<1>. QED BY <1>1, <1>3

(* One or two strobes on their way.                                           *)
LEMMA StrobesQueue ==
    /\ \A x : /\ <<x>> # <<>> /\ Head(<<x>>) = x /\ Tail(<<x>>) = <<>> /\ Append(<<>>, x) = <<x>>
              /\ Len(<<x>>) = 1
    /\ \A x, y : <<x, y>> # <<>> /\ Head(<<x, y>>) = x /\ Tail(<<x, y>>) = <<y>> /\ Append(<<x>>, y) = <<x, y>>
<1>1. ASSUME NEW x
      PROVE  /\ <<x>> # <<>> /\ Head(<<x>>) = x /\ Tail(<<x>>) = <<>> /\ Append(<<>>, x) = <<x>>
             /\ Len(<<x>>) = 1
  <2>1. <<x>> \in Seq({x}) /\ <<>> \in Seq({x}) OBVIOUS
  <2>2. <<x>> # <<>> /\ Len(<<x>>) = 1 /\ Head(<<x>>) = x BY <2>1
  <2>3. Tail(<<x>>) = <<>> BY <2>1
  <2>4. Append(<<>>, x) = <<x>> BY <2>1
  <2>. QED BY <2>2, <2>3, <2>4
<1>2. ASSUME NEW x, NEW y
      PROVE  <<x, y>> # <<>> /\ Head(<<x, y>>) = x /\ Tail(<<x, y>>) = <<y>> /\ Append(<<x>>, y) = <<x, y>>
  <2>1. <<x, y>> \in Seq({x, y}) /\ <<x>> \in Seq({x, y}) /\ <<y>> \in Seq({x, y}) OBVIOUS
  <2>2. <<x, y>> # <<>> /\ Head(<<x, y>>) = x BY <2>1
  <2>3. Tail(<<x, y>>) = <<y>> BY <2>1
  <2>4. Append(<<x>>, y) = <<x, y>>
    <3>1. /\ Append(<<x>>, y) \in Seq({x, y}) /\ Len(Append(<<x>>, y)) = 2
          /\ Append(<<x>>, y)[1] = x /\ Append(<<x>>, y)[2] = y
      BY <2>1, AppendProperties
    <3>2. Len(<<x, y>>) = 2 /\ \A k \in 1 .. 2 : Append(<<x>>, y)[k] = <<x, y>>[k] BY <3>1
    <3>. QED BY <2>1, <3>1, <3>2, SeqEqual
  <2>. QED BY <2>2, <2>3, <2>4
<1>. QED BY <1>1, <1>2

\* A strobe reaches the cores, or none does; left are the others.
Reaches(s, control, left) ==
    \/ s = <<>> /\ control = <<>> /\ left = <<>>
    \/ control # <<>> /\ s = Head(control) /\ left = Tail(control)

\* The ways there are.
Ways(step, s, control, left) ==
    \/ s = <<>> /\ control = <<>> /\ left = <<>>
    \/ step = "start gen" /\ control = <<ResetGen>> /\ s = ResetGen /\ left = <<>>
    \/ step = "generating" /\ control = <<StartGen>> /\ s = StartGen /\ left = <<>>
    \/ step = "generating" /\ control = <<ResetGen, StartGen>> /\ s = ResetGen /\ left = <<StartGen>>
    \/ step = "start chk" /\ control = <<ResetChk>> /\ s = ResetChk /\ left = <<>>
    \/ step = "checking" /\ control = <<StartChk>> /\ s = StartChk /\ left = <<>>
    \/ step = "checking" /\ control = <<ResetChk, StartChk>> /\ s = ResetChk /\ left = <<StartChk>>

(* They are what Script allows.                                               *)
LEMMA ScriptWays ==
    ASSUME NEW step, NEW control, NEW s, NEW left, Script(step, control), Reaches(s, control, left)
    PROVE  Ways(step, s, control, left)
<1>1. CASE control = <<>> BY <1>1 DEF Reaches, Ways
<1>2. ASSUME NEW x, control = <<x>> PROVE s = x /\ left = <<>>
  BY <1>2, StrobesQueue DEF Reaches
<1>3. ASSUME NEW x, NEW y, control = <<x, y>> PROVE s = x /\ left = <<y>>
  BY <1>3, StrobesQueue DEF Reaches
<1>4. CASE control = <<ResetGen>> /\ step = "start gen" BY <1>2, <1>4 DEF Ways
<1>5. CASE control = <<StartGen>> /\ step = "generating" BY <1>2, <1>5 DEF Ways
<1>6. CASE control = <<ResetGen, StartGen>> /\ step = "generating" BY <1>3, <1>6 DEF Ways
<1>7. CASE control = <<ResetChk>> /\ step = "start chk" BY <1>2, <1>7 DEF Ways
<1>8. CASE control = <<StartChk>> /\ step = "checking" BY <1>2, <1>8 DEF Ways
<1>9. CASE control = <<ResetChk, StartChk>> /\ step = "checking" BY <1>3, <1>9 DEF Ways
<1>. QED BY <1>1, <1>4, <1>5, <1>6, <1>7, <1>8, <1>9 DEF Script, Scripted

(* The cores do what software waits for.                                      *)
LEMMA CoresFollow ==
    ASSUME CoreBooks, CoreBooks', NEW step, NEW control, NEW s, NEW left,
           Script(step, control), Ways(step, s, control, left), GenGoes(s), ChkGoes(s)
    PROVE  Scripted(step, left, gen', chk', Writes', Count(Line, "read")')
<1>0. /\ chk.cmd = "IDLE" => chk.data # "DONE"
      /\ chk'.cmd = "IDLE" => chk'.data # "DONE"
  BY DEF CoreBooks, Checks
<1>1. s # ResetGen => /\ gen.state = "IDLE" => gen'.state = IF s = StartGen THEN "RUN" ELSE "IDLE"
                      /\ gen.state # "IDLE" => gen'.state # "IDLE"
                      /\ gen.state = "DONE" => gen'.state = "DONE"
  BY DEF GenGoes
<1>2. /\ s = ResetGen => gen'.state = "IDLE"
      /\ gen.state # "RUN" /\ Writes = 0 => Writes' = 0
  BY DEF GenGoes
<1>3. s # ResetChk => /\ chk.cmd = "IDLE" => IF s = StartChk
                                             THEN chk'.cmd # "IDLE" /\ (chk'.cmd_counter > Count(Line, "read")' => Writes' = 0)
                                             ELSE chk'.cmd = "IDLE"
                      /\ chk.cmd # "IDLE" => chk'.cmd # "IDLE"
                      /\ chk.data = "DONE" => chk'.data = "DONE"
                      /\ gen.state # "RUN" /\ chk.cmd # "IDLE" /\ (chk.cmd_counter > Count(Line, "read") => Writes = 0)
                         => (chk'.cmd_counter > Count(Line, "read")' => Writes' = 0)
  BY DEF ChkGoes, WritesOver
<1>4. s = ResetChk => chk'.cmd = "IDLE" BY DEF ChkGoes
<1>5. s # StartChk /\ Rests(chk) => Rests(chk') BY <1>0, <1>3, <1>4 DEF Rests
<1>6. s \notin {StartGen, ResetChk, StartChk} /\ Idle(gen, chk, Writes) => Idle(gen', chk', Writes') BY <1>1, <1>2, <1>5 DEF Idle
<1>7. CASE s = <<>> /\ control = <<>> /\ left = <<>>
  <2>1. s # ResetGen /\ s # StartGen /\ s # ResetChk /\ s # StartChk BY <1>7, StrobesApart
  <2>. QED BY <1>1, <1>2, <1>3, <1>5, <1>6, <1>7, <2>1, StrobesQueue DEF Script, Scripted
<1>8. CASE s = ResetGen
  <2>1. s \notin {StartGen, ResetChk, StartChk, <<>>} BY <1>8, StrobesApart
  <2>2. \/ step = "start gen" /\ control = <<ResetGen>> /\ left = <<>>
        \/ step = "generating" /\ control = <<ResetGen, StartGen>> /\ left = <<StartGen>>
    BY <1>8, <2>1 DEF Ways
  <2>3. step = "start gen" => Idle(gen, chk, Writes) /\ Idle(gen', chk', Writes')
    BY <1>6, <2>1, StrobesQueue DEF Script, Scripted
  <2>4. step = "generating" => Rests(chk) /\ gen.state = "IDLE" /\ Writes = 0 BY <2>2, StrobesQueue DEF Script, Scripted
  <2>5. step = "generating" => Rests(chk') /\ gen'.state = "IDLE" /\ Writes' = 0 BY <1>2, <1>5, <1>8, <2>1, <2>4
  <2>6. CASE step = "start gen"
    <3>1. left = <<>> BY <2>2, <2>6
    <3>. QED BY <1>2, <1>8, <2>3, <2>6, <3>1 DEF Script, Scripted
  <2>7. CASE step = "generating"
    <3>1. left = <<StartGen>> BY <2>2, <2>7
    <3>. QED BY <2>5, <2>7, <3>1 DEF Script, Scripted
  <2>. QED BY <2>2, <2>6, <2>7
<1>9. CASE s = StartGen
  <2>1. s \notin {ResetGen, ResetChk, StartChk, <<>>} BY <1>9, StrobesApart
  <2>. QED BY <1>1, <1>5, <1>9, <2>1, StrobesQueue DEF Script, Scripted, Ways
<1>10. CASE s = ResetChk
  <2>1. s \notin {ResetGen, StartGen, StartChk, <<>>} BY <1>10, StrobesApart
  <2>2. \/ step = "start chk" /\ control = <<ResetChk>> /\ left = <<>>
        \/ step = "checking" /\ control = <<ResetChk, StartChk>> /\ left = <<StartChk>>
    BY <1>10, <2>1 DEF Ways
  <2>3. gen.state = "DONE" BY <2>2 DEF Script, Scripted
  <2>4. gen'.state = "DONE" BY <1>1, <2>1, <2>3
  <2>5. chk'.cmd = "IDLE" /\ Rests(chk') BY <1>4, <1>10 DEF Rests
  <2>6. CASE step = "start chk" BY <2>2, <2>4, <2>5, <2>6 DEF Script, Scripted
  <2>7. CASE step = "checking"
    <3>1. left = <<StartChk>> BY <2>2, <2>7
    <3>. QED BY <2>4, <2>5, <2>7, <3>1 DEF Script, Scripted
  <2>. QED BY <2>2, <2>6, <2>7
<1>11. CASE s = StartChk
  <2>1. s \notin {ResetGen, StartGen, ResetChk, <<>>} BY <1>11, StrobesApart
  <2>. QED BY <1>1, <1>3, <1>11, <2>1, StrobesQueue DEF Script, Scripted, Ways
<1>. QED BY <1>7, <1>8, <1>9, <1>10, <1>11 DEF Ways

(* A core is reset only when it is at rest.                                   *)
LEMMA CoresMay ==
    ASSUME NEW step, NEW control, NEW s, NEW left, Script(step, control), Ways(step, s, control, left)
    PROVE  /\ gen.state = "RUN" => Rests(chk)
           /\ s = ResetGen => gen.state # "RUN" /\ Writes = 0
           /\ s = ResetChk => Rests(chk)
<1>1. gen.state = "RUN" => Rests(chk) BY DEF Script, Scripted, Idle
<1>2. s = ResetGen => gen.state # "RUN" /\ Writes = 0
  BY StrobesApart, StrobesQueue DEF Script, Scripted, Ways, Idle
<1>3. s = ResetChk => Rests(chk)
  BY StrobesApart, StrobesQueue DEF Script, Scripted, Ways, Rests
<1>. QED BY <1>1, <1>2, <1>3

\* What software is shown of a core, what of it is on its way (q), and how it
\* is now: the same, or late while the core is reset (falls) or works (rises).
Follows(core, falls, rises, step, shown, q, now) ==
    IF step = falls
    THEN /\ ~shown[core] => ~now[core] /\ (q # <<>> => ~Head(q)[core])
         /\ q # <<>> /\ ~Head(q)[core] => ~now[core]
    ELSE IF step = rises
    THEN /\ shown[core] => now[core] /\ (q # <<>> => Head(q)[core])
         /\ q # <<>> /\ Head(q)[core] => now[core]
    ELSE /\ shown[core] <=> now[core]
         /\ q # <<>> => (Head(q)[core] <=> now[core])
Sees(step, shown, q, now) ==
    /\ Follows("gen", "start gen", "generating", step, shown, q, now)
    /\ Follows("chk", "start chk", "checking", step, shown, q, now)

(* What a status says.                                                        *)
LEMMA StatusSays ==
    /\ Status["gen"] <=> gen.state = "DONE"
    /\ Status["chk"] <=> chk.data = "DONE"
    /\ Status'["gen"] <=> gen'.state = "DONE"
    /\ Status'["chk"] <=> chk'.data = "DONE"
BY DEF Status, gen, chk

(* It stays so when the cores move, and a status may leave them.              *)
LEMMA SeesCores ==
    ASSUME CoreBooks, CoreBooks', NEW step, NEW control, NEW s, NEW left, NEW shown, NEW q,
           Script(step, control), Ways(step, s, control, left), GenGoes(s), ChkGoes(s),
           Sees(step, shown, q, Status)
    PROVE  Sees(step, shown, IF q = <<>> THEN <<Status>> ELSE q, Status')
<1>. DEFINE onway == IF q = <<>> THEN <<Status>> ELSE q
<1>1. onway # <<>> /\ (q = <<>> => Head(onway) = Status) /\ (q # <<>> => Head(onway) = Head(q))
  BY StrobesQueue
<1>. HIDE DEF onway
<1>2. step \notin {"start gen", "generating"} => (gen.state = "DONE" <=> gen'.state = "DONE")
  <2>1. ASSUME step \notin {"start gen", "generating"} PROVE s # ResetGen /\ s # StartGen
    BY <2>1, StrobesApart DEF Ways
  <2>2. ASSUME step \notin {"start gen", "generating"} PROVE gen.state \in {"IDLE", "DONE"}
    BY <2>2 DEF Script, Scripted, Idle
  <2>. QED BY <2>1, <2>2 DEF GenGoes
<1>3. step = "start gen" /\ gen'.state = "DONE" => gen.state = "DONE"
  <2>1. ASSUME step = "start gen" PROVE s # StartGen /\ gen.state \in {"IDLE", "DONE"}
    BY <2>1, StrobesApart DEF Ways, Script, Scripted, Idle
  <2>. QED BY <2>1 DEF GenGoes
<1>4. step = "generating" /\ gen.state = "DONE" => gen'.state = "DONE"
  <2>1. ASSUME step = "generating", gen.state = "DONE" PROVE control = <<>>
    BY <2>1 DEF Script, Scripted
  <2>2. ASSUME step = "generating", gen.state = "DONE" PROVE s # ResetGen
    BY <2>1, <2>2, StrobesApart, StrobesQueue DEF Ways
  <2>. QED BY <2>2 DEF GenGoes
<1>5. /\ chk.cmd = "IDLE" => chk.data # "DONE"
      /\ chk'.cmd = "IDLE" => chk'.data # "DONE"
  BY DEF CoreBooks, Checks
<1>6. step \notin {"start chk", "checking"} => (chk.data = "DONE" <=> chk'.data = "DONE")
  <2>1. ASSUME step \notin {"start chk", "checking"} PROVE s # ResetChk /\ s # StartChk
    BY <2>1, StrobesApart DEF Ways
  <2>2. ASSUME step \notin {"start chk", "checking"} PROVE Rests(chk) \/ chk.data = "DONE"
    BY <2>2 DEF Script, Scripted, Idle
  <2>. QED BY <1>5, <2>1, <2>2 DEF ChkGoes, Rests
<1>7. step = "start chk" /\ chk'.data = "DONE" => chk.data = "DONE"
  <2>1. ASSUME step = "start chk" PROVE s # StartChk /\ Rests(chk)
    BY <2>1, StrobesApart DEF Ways, Script, Scripted
  <2>. QED BY <1>5, <2>1 DEF ChkGoes, Rests
<1>8. step = "checking" /\ chk.data = "DONE" => chk'.data = "DONE"
  <2>1. ASSUME step = "checking", chk.data = "DONE" PROVE control = <<>>
    BY <1>5, <2>1 DEF Script, Scripted
  <2>2. ASSUME step = "checking", chk.data = "DONE" PROVE s # ResetChk
    BY <2>1, <2>2, StrobesApart, StrobesQueue DEF Ways
  <2>. QED BY <2>2 DEF ChkGoes
<1>9. Follows("gen", "start gen", "generating", step, shown, onway, Status')
  <2>1. Follows("gen", "start gen", "generating", step, shown, q, Status) BY DEF Sees
  <2>. QED BY <1>1, <1>2, <1>3, <1>4, <2>1, StatusSays DEF Follows
<1>10. Follows("chk", "start chk", "checking", step, shown, onway, Status')
  <2>1. Follows("chk", "start chk", "checking", step, shown, q, Status) BY DEF Sees
  <2>. QED BY <1>1, <1>6, <1>7, <1>8, <2>1, StatusSays DEF Follows
<1>. QED BY <1>9, <1>10 DEF Sees, onway

(* Software goes on: its strobe, if any, finds room on the way to the cores,  *)
(* and what it waits for is what it is shown next.                            *)
LEMMA SoftwareGoes ==
    ASSUME InTime, CoreBooks, NEW control, NEW q, Script(master.step, control), Sees(master.step, Shown, q, Status)
    PROVE  /\ BistStrobe # <<>> => Len(control) < 2
           /\ Script(BistStep, IF BistStrobe = <<>> THEN control ELSE Append(control, BistStrobe))
           /\ Sees(BistStep, IF q = <<>> THEN Shown ELSE Head(q), <<>>, Status)
<1>. DEFINE onway == IF BistStrobe = <<>> THEN control ELSE Append(control, BistStrobe)
            next == IF q = <<>> THEN Shown ELSE Head(q)
<1>1. /\ chk.cmd = "IDLE" => chk.data # "DONE"
      /\ chk.data = "DONE" /\ WritesOver => Writes = 0
  <2>1. /\ Checks(chk, Len(bridge.reader.fifo), Reads, BistLength(master.p)) /\ BistLength(master.p) \in Nat \ {0}
        /\ Len(bridge.reader.fifo) \in Nat
    BY QueueMoves DEF CoreBooks, Reserved
  <2>2. Reads \in Nat /\ Count(Line, "read") \in Nat /\ Count(Line, "read") <= Reads
    <3>1. PortTyped BY DEF InTime
    <3>2. Reads = Count(Line, "read") + Len(port.returns) /\ Count(Line, "read") \in Nat /\ Len(port.returns) \in Nat
      BY <3>1, LineCounts, Zenon
    <3>. QED BY <3>2
  <2>3. chk.cmd = "IDLE" => chk.data # "DONE" BY <2>1 DEF Checks
  <2>4. ASSUME chk.data = "DONE", WritesOver PROVE Writes = 0
    <3>1. Rests(chk) /\ chk.cmd # "IDLE" BY <2>3, <2>4 DEF Rests
    <3>2. Reads = 0 /\ chk.cmd \in {"IDLE", "DONE"} /\ (chk.cmd = "DONE" => chk.cmd_counter = BistLength(master.p))
      BY <2>1, <2>2, <3>1, RestsEmpty, Zenon
    <3>3. chk.cmd_counter > Count(Line, "read") BY <2>1, <2>2, <3>1, <3>2
    <3>. QED BY <2>4, <3>3 DEF WritesOver
  <2>. QED BY <2>3, <2>4
<1>. DEFINE step == master.step
<1>2. /\ Status["gen"] <=> gen.state = "DONE"
      /\ Status["chk"] <=> chk.data = "DONE"
  BY StatusSays
<1>3. /\ IF step = "start gen" THEN (~Shown["gen"] => ~Status["gen"] /\ ~next["gen"]) /\ (~next["gen"] => ~Status["gen"])
         ELSE IF step = "generating" THEN (Shown["gen"] => Status["gen"] /\ next["gen"]) /\ (next["gen"] => Status["gen"])
         ELSE next["gen"] <=> Status["gen"]
      /\ IF step = "start chk" THEN (~Shown["chk"] => ~Status["chk"] /\ ~next["chk"]) /\ (~next["chk"] => ~Status["chk"])
         ELSE IF step = "checking" THEN (Shown["chk"] => Status["chk"] /\ next["chk"]) /\ (next["chk"] => Status["chk"])
         ELSE next["chk"] <=> Status["chk"]
  BY DEF Sees, Follows
<1>. HIDE DEF next
<1>4. /\ Shown.gen = Shown["gen"] /\ Shown.chk = Shown["chk"] OBVIOUS
<1>5. /\ Len(<<>>) = 0 /\ \A x : Len(<<x>>) = 1 /\ Append(<<>>, x) = <<x>>
      /\ \A x, y : Append(<<x>>, y) = <<x, y>>
  BY StrobesQueue
<1>6. CASE step = "reset gen"
  <2>1. control = <<>> /\ Idle(gen, chk, Writes) BY <1>6 DEF Script, Scripted
  <2>2. BistStrobe = ResetGen /\ BistStep = "start gen" BY <1>6 DEF BistStrobe, BistStep, ResetGen
  <2>3. onway = <<ResetGen>> /\ Len(control) < 2
    <3>1. onway = Append(control, ResetGen) BY <2>2, StrobesApart
    <3>2. onway = <<ResetGen>> BY <1>5, <2>1, <3>1, Zenon
    <3>3. Len(control) = 0 BY <1>5, <2>1
    <3>. QED BY <3>2, <3>3
  <2>. HIDE DEF onway
  <2>4. Script(BistStep, onway) BY <2>1, <2>2, <2>3 DEF Script, Scripted
  <2>5. Sees(BistStep, next, <<>>, Status) BY <1>3, <1>6, <2>2 DEF Sees, Follows
  <2>. QED BY <2>3, <2>4, <2>5 DEF onway, next
<1>7. CASE step = "start gen"
  <2>1. Idle(gen, chk, Writes) /\ ((control = <<>> /\ gen.state = "IDLE") \/ control = <<ResetGen>>)
    BY <1>7 DEF Script, Scripted
  <2>2. CASE ~Shown["gen"]
    <3>1. BistStrobe = StartGen /\ BistStep = "generating" BY <1>4, <1>7, <2>2 DEF BistStrobe, BistStep, StartGen
    <3>2. (onway = <<StartGen>> \/ onway = <<ResetGen, StartGen>>) /\ Len(control) < 2
      <4>1. onway = Append(control, StartGen) BY <3>1, StrobesApart
      <4>2. CASE control = <<>>
        <5>1. onway = <<StartGen>> BY <1>5, <4>1, <4>2, Zenon
        <5>. QED BY <1>5, <4>2, <5>1
      <4>3. CASE control = <<ResetGen>>
        <5>1. onway = <<ResetGen, StartGen>> BY <1>5, <4>1, <4>3, Zenon
        <5>2. Len(control) = 1 BY <1>5, <4>3, Zenon
        <5>. QED BY <5>1, <5>2
      <4>. QED BY <2>1, <4>2, <4>3
    <3>. HIDE DEF onway
    <3>3. gen.state = "IDLE" /\ Writes = 0 /\ Rests(chk) BY <1>2, <1>3, <1>7, <2>1, <2>2 DEF Idle
    <3>4. Script(BistStep, onway) BY <3>1, <3>2, <3>3 DEF Script, Scripted
    <3>5. Sees(BistStep, next, <<>>, Status) BY <1>3, <1>7, <2>2, <3>1 DEF Sees, Follows
    <3>. QED BY <3>2, <3>4, <3>5 DEF onway, next
  <2>3. CASE Shown["gen"]
    <3>1. BistStrobe = <<>> /\ BistStep = step BY <1>4, <1>7, <2>3 DEF BistStrobe, BistStep
    <3>2. onway = control BY <3>1
    <3>. HIDE DEF onway
    <3>5. Sees(BistStep, next, <<>>, Status) BY <1>3, <1>7, <3>1 DEF Sees, Follows
    <3>. QED BY <3>1, <3>2, <3>5 DEF onway, next
  <2>. QED BY <2>2, <2>3
<1>8. CASE step = "generating"
  <2>2. CASE Shown["gen"]
    <3>1. BistStrobe = <<>> /\ BistStep = "reset chk" BY <1>4, <1>8, <2>2 DEF BistStrobe, BistStep
    <3>2. onway = control BY <3>1
    <3>. HIDE DEF onway
    <3>3. gen.state = "DONE" BY <1>2, <1>3, <1>8, <2>2
    <3>4. Script(BistStep, onway) BY <1>8, <3>1, <3>2, <3>3 DEF Script, Scripted
    <3>5. Sees(BistStep, next, <<>>, Status) BY <1>3, <1>8, <2>2, <3>1 DEF Sees, Follows
    <3>. QED BY <3>1, <3>4, <3>5 DEF onway, next
  <2>3. CASE ~Shown["gen"]
    <3>1. BistStrobe = <<>> /\ BistStep = step BY <1>4, <1>8, <2>3 DEF BistStrobe, BistStep
    <3>2. onway = control BY <3>1
    <3>. HIDE DEF onway
    <3>5. Sees(BistStep, next, <<>>, Status) BY <1>3, <1>8, <3>1 DEF Sees, Follows
    <3>. QED BY <3>1, <3>2, <3>5 DEF onway, next
  <2>. QED BY <2>2, <2>3
<1>9. CASE step = "reset chk"
  <2>1. control = <<>> /\ gen.state = "DONE" /\ Rests(chk) BY <1>9 DEF Script, Scripted
  <2>2. BistStrobe = ResetChk /\ BistStep = "start chk" BY <1>9 DEF BistStrobe, BistStep, ResetChk
  <2>3. onway = <<ResetChk>> /\ Len(control) < 2
    <3>1. onway = Append(control, ResetChk) BY <2>2, StrobesApart
    <3>2. onway = <<ResetChk>> BY <1>5, <2>1, <3>1, Zenon
    <3>3. Len(control) = 0 BY <1>5, <2>1
    <3>. QED BY <3>2, <3>3
  <2>. HIDE DEF onway
  <2>4. Script(BistStep, onway) BY <2>1, <2>2, <2>3 DEF Script, Scripted
  <2>5. Sees(BistStep, next, <<>>, Status) BY <1>3, <1>9, <2>2 DEF Sees, Follows
  <2>. QED BY <2>3, <2>4, <2>5 DEF onway, next
<1>10. CASE step = "start chk"
  <2>1. gen.state = "DONE" /\ Rests(chk) /\ ((control = <<>> /\ chk.cmd = "IDLE") \/ control = <<ResetChk>>)
    BY <1>10 DEF Script, Scripted
  <2>2. CASE ~Shown["chk"]
    <3>1. BistStrobe = StartChk /\ BistStep = "checking" BY <1>4, <1>10, <2>2 DEF BistStrobe, BistStep, StartChk
    <3>2. (onway = <<StartChk>> \/ onway = <<ResetChk, StartChk>>) /\ Len(control) < 2
      <4>1. onway = Append(control, StartChk) BY <3>1, StrobesApart
      <4>2. CASE control = <<>>
        <5>1. onway = <<StartChk>> BY <1>5, <4>1, <4>2, Zenon
        <5>. QED BY <1>5, <4>2, <5>1
      <4>3. CASE control = <<ResetChk>>
        <5>1. onway = <<ResetChk, StartChk>> BY <1>5, <4>1, <4>3, Zenon
        <5>2. Len(control) = 1 BY <1>5, <4>3, Zenon
        <5>. QED BY <5>1, <5>2
      <4>. QED BY <2>1, <4>2, <4>3
    <3>. HIDE DEF onway
    <3>3. chk.cmd = "IDLE" BY <1>2, <1>3, <1>10, <2>1, <2>2 DEF Rests
    <3>4. Script(BistStep, onway) BY <2>1, <3>1, <3>2, <3>3 DEF Script, Scripted
    <3>5. Sees(BistStep, next, <<>>, Status) BY <1>3, <1>10, <2>2, <3>1 DEF Sees, Follows
    <3>. QED BY <3>2, <3>4, <3>5 DEF onway, next
  <2>3. CASE Shown["chk"]
    <3>1. BistStrobe = <<>> /\ BistStep = step BY <1>4, <1>10, <2>3 DEF BistStrobe, BistStep
    <3>2. onway = control BY <3>1
    <3>. HIDE DEF onway
    <3>5. Sees(BistStep, next, <<>>, Status) BY <1>3, <1>10, <3>1 DEF Sees, Follows
    <3>. QED BY <3>1, <3>2, <3>5 DEF onway, next
  <2>. QED BY <2>2, <2>3
<1>11. CASE step = "checking"
  <2>2. CASE Shown["chk"]
    <3>1. BistStrobe = <<>> /\ BistStep = "over" BY <1>4, <1>11, <2>2 DEF BistStrobe, BistStep
    <3>2. onway = control BY <3>1
    <3>. HIDE DEF onway
    <3>3. chk.data = "DONE" /\ chk.cmd # "IDLE" BY <1>1, <1>2, <1>3, <1>11, <2>2
    <3>4. control = <<>> /\ gen.state = "DONE" /\ WritesOver BY <1>11, <3>3 DEF Script, Scripted, WritesOver
    <3>5. Writes = 0 BY <1>1, <3>3, <3>4
    <3>6. Script(BistStep, onway) BY <3>1, <3>2, <3>3, <3>4, <3>5 DEF Script, Scripted
    <3>7. Sees(BistStep, next, <<>>, Status) BY <1>3, <1>11, <2>2, <3>1 DEF Sees, Follows
    <3>. QED BY <3>1, <3>6, <3>7 DEF onway, next
  <2>3. CASE ~Shown["chk"]
    <3>1. BistStrobe = <<>> /\ BistStep = step BY <1>4, <1>11, <2>3 DEF BistStrobe, BistStep
    <3>2. onway = control BY <3>1
    <3>. HIDE DEF onway
    <3>5. Sees(BistStep, next, <<>>, Status) BY <1>3, <1>11, <3>1 DEF Sees, Follows
    <3>. QED BY <3>1, <3>2, <3>5 DEF onway, next
  <2>. QED BY <2>2, <2>3
<1>12. CASE step = "over"
  <2>1. control = <<>> /\ gen.state = "DONE" /\ chk.data = "DONE" /\ Writes = 0 BY <1>12 DEF Script, Scripted
  <2>2. BistStrobe = <<>> /\ BistStep = "reset gen" BY <1>12 DEF BistStrobe, BistStep
  <2>3. onway = control BY <2>2
  <2>. HIDE DEF onway
  <2>4. Script(BistStep, onway) BY <2>1, <2>2, <2>3 DEF Script, Scripted, Idle, Rests
  <2>5. Sees(BistStep, next, <<>>, Status) BY <1>3, <1>12, <2>2 DEF Sees, Follows
  <2>. QED BY <2>2, <2>4, <2>5 DEF onway, next
<1>13. step \in {"reset gen", "start gen", "generating", "reset chk", "start chk", "checking", "over"}
  BY DEF Script, Scripted
<1>. HIDE DEF step, onway, next
<1>. QED BY <1>6, <1>7, <1>8, <1>9, <1>10, <1>11, <1>12, <1>13 DEF onway, next

\* What the BIST keeps: the cores' books, and software in step with them.
MasterFields == {"step", "p", "done", "disturbed", "answered", "wrong"}
BistBooks ==
    /\ CoreBooks
    /\ Script(master.step, bridge.control)
    /\ IF bridge.cdc THEN Sees(master.step, master.done, bridge.status, Status) /\ Single(bridge.status)
       ELSE bridge.control = <<>> /\ bridge.status = <<>>
    /\ MasterFields \subseteq DOMAIN master

(* Where software reads the cores' own registers it sees what they do.        *)
LEMMA SeesItself ==
    ASSUME NEW step, NEW now PROVE Sees(step, now, <<>>, now)
BY DEF Sees, Follows

(* What an edge of software changes of its state.                             *)
LEMMA SoftwareMoves ==
    ASSUME NEW strobed \in BOOLEAN, BistStrobe # <<>> => strobed, MasterFields \subseteq DOMAIN master
    PROVE  LET next == BistMasterNext(strobed)
           IN next.step = BistStep /\ next.p = master.p /\ next.done = master.done /\ DOMAIN next = DOMAIN master
<1>. DEFINE next == BistMasterNext(strobed)
            to == IF BistStrobe # <<>> /\ ~strobed THEN master.step ELSE BistStep
            verdict == to = "over" /\ master.step # "over"
            d == IF to = "reset gen" THEN {} ELSE master.disturbed
            a == to # master.step
            w == master.wrong \/ (verdict /\ Shown.errors # Truth(master.p))
<1>1. next = [master EXCEPT !.step = to, !.disturbed = d, !.answered = a, !.wrong = w] BY Zenon DEF BistMasterNext
<1>2. to = BistStep OBVIOUS
<1>. HIDE DEF next, to, d, a, w
<1>3. next.step = to /\ next.p = master.p /\ next.done = master.done /\ DOMAIN next = DOMAIN master
  BY <1>1 DEF MasterFields
<1>. QED BY <1>2, <1>3 DEF next

(* An edge of the cores: a strobe arrives, a status leaves.                   *)
LEMMA CoreSends ==
    ASSUME CoreBooks, NEW e \in PortInputs, NEW s, NEW cascade \in BOOLEAN, BistCoreTick(e, s, cascade)
    PROVE  /\ bridge'.cdc = bridge.cdc
           /\ bridge'.control = IF bridge.cdc /\ bridge.control # <<>> THEN Tail(bridge.control) ELSE bridge.control
           /\ bridge'.status = IF bridge.cdc /\ bridge.status = <<>> THEN <<Status>> ELSE bridge.status
<1>. DEFINE i == Seen(e)
            p == master.p
            g == GenNext(bridge.gen, p, bridge.fifo, s = <<"gen", "reset">>, s = <<"gen", "start">>, cascade, i)
            f == IF s = <<"gen", "reset">> THEN <<>> ELSE WriterNext(bridge.fifo, GenSink(bridge.gen, p), i)
            c == ChkNext(bridge.chk, p, bridge.reader, s = <<"chk", "reset">>, s = <<"chk", "start">>, cascade, i)
            r == IF s = <<"chk", "reset">> THEN ReaderInit
                 ELSE ReaderNext(bridge.reader, TRUE, ChkSink(bridge.chk, p), bridge.chk.data = "RUN", i)
            control == IF bridge.cdc /\ bridge.control # <<>> THEN Tail(bridge.control) ELSE bridge.control
            status == IF bridge.cdc /\ bridge.status = <<>> THEN <<Status>> ELSE bridge.status
<1>1. bridge' = [bridge EXCEPT !.gen = g, !.fifo = f, !.chk = c, !.reader = r, !.control = control, !.status = status]
  BY Zenon DEF BistCoreTick
<1>2. {"gen", "fifo", "chk", "reader", "cdc", "control", "status"} \subseteq DOMAIN bridge BY DEF CoreBooks
<1>. HIDE DEF g, f, c, r, control, status
<1>3. bridge'.cdc = bridge.cdc /\ bridge'.control = control /\ bridge'.status = status BY <1>1, <1>2
<1>. QED BY <1>3 DEF control, status

(* An edge, with registers in the clock of the cores.                         *)
LEMMA BistEdge ==
    ASSUME InTime, BistBooks, NEW e \in PortInputs, NEW cascade \in BOOLEAN, BistTick(e, cascade)
    PROVE  InTime' /\ BistBooks'
<1>. DEFINE s == BistStrobe
            onway == IF s = <<>> THEN <<>> ELSE <<s>>
<1>1. ~bridge.cdc /\ BistCoreTick(e, s, cascade) /\ master' = BistMasterNext(TRUE) BY Zenon DEF BistTick
<1>2. CoreBooks /\ Script(master.step, <<>>) /\ bridge.control = <<>> /\ bridge.status = <<>>
      /\ MasterFields \subseteq DOMAIN master
  BY <1>1 DEF BistBooks
<1>3. master'.step = BistStep /\ master'.p = master.p /\ DOMAIN master' = DOMAIN master
  BY <1>1, <1>2, SoftwareMoves
<1>4. Shown = Status BY <1>1 DEF Shown
<1>5. Script(BistStep, onway)
  <2>1. Sees(master.step, Shown, <<>>, Status) BY <1>4, SeesItself
  <2>2. Script(BistStep, IF BistStrobe = <<>> THEN <<>> ELSE Append(<<>>, BistStrobe))
    BY <1>2, <2>1, SoftwareGoes, Zenon
  <2>3. Append(<<>>, BistStrobe) = <<BistStrobe>> BY StrobesQueue, Zenon
  <2>. QED BY <2>2, <2>3
<1>6. Reaches(s, onway, <<>>) BY StrobesQueue DEF Reaches
<1>. HIDE DEF s, onway
<1>7. Ways(BistStep, s, onway, <<>>) BY <1>5, <1>6, ScriptWays, Zenon
<1>8. /\ gen.state = "RUN" => Rests(chk)
      /\ s = ResetGen => gen.state # "RUN" /\ Writes = 0
      /\ s = ResetChk => Rests(chk)
  BY <1>5, <1>7, CoresMay, Zenon
<1>9. InTime' /\ CoreBooks' /\ GenGoes(s) /\ ChkGoes(s) BY <1>1, <1>2, <1>3, <1>8, CoreStep, Zenon
<1>10. Scripted(BistStep, <<>>, gen', chk', Writes', Count(Line, "read")')
  BY <1>2, <1>5, <1>7, <1>9, CoresFollow, Zenon
<1>11. Script(master.step, <<>>)' BY <1>3, <1>10 DEF Script
<1>12. bridge'.cdc = bridge.cdc /\ bridge'.control = <<>> /\ bridge'.status = <<>>
  BY <1>1, <1>2, CoreSends
<1>. QED BY <1>1, <1>2, <1>3, <1>9, <1>11, <1>12 DEF BistBooks, MasterFields

(* An edge of the cores, with registers in another clock.                     *)
LEMMA BistCoreStep ==
    ASSUME InTime, BistBooks, NEW e \in PortInputs, NEW cascade \in BOOLEAN, BistCdcCoreTick(e, cascade)
    PROVE  InTime' /\ BistBooks'
<1>. DEFINE s == IF bridge.control = <<>> THEN <<>> ELSE Head(bridge.control)
            left == IF bridge.control # <<>> THEN Tail(bridge.control) ELSE bridge.control
            onway == IF bridge.status = <<>> THEN <<Status>> ELSE bridge.status
<1>1. bridge.cdc /\ BistCoreTick(e, s, cascade) /\ master' = master BY Zenon DEF BistCdcCoreTick
<1>2. /\ CoreBooks /\ Script(master.step, bridge.control) /\ MasterFields \subseteq DOMAIN master
      /\ Sees(master.step, master.done, bridge.status, Status) /\ Single(bridge.status)
  BY <1>1 DEF BistBooks
<1>3. Reaches(s, bridge.control, left) BY DEF Reaches
<1>4. bridge'.cdc = bridge.cdc /\ bridge'.control = left /\ bridge'.status = onway BY <1>1, <1>2, CoreSends
<1>5. Single(onway) BY <1>2 DEF Single
<1>6. onway = IF bridge.status = <<>> THEN <<Status>> ELSE bridge.status OBVIOUS
<1>. HIDE DEF s, left, onway
<1>7. Ways(master.step, s, bridge.control, left) BY <1>2, <1>3, ScriptWays, Zenon
<1>8. /\ gen.state = "RUN" => Rests(chk)
      /\ s = ResetGen => gen.state # "RUN" /\ Writes = 0
      /\ s = ResetChk => Rests(chk)
  BY <1>2, <1>7, CoresMay, Zenon
<1>9. master'.p = master.p /\ master'.step = master.step /\ master'.done = master.done BY <1>1
<1>10. InTime' /\ CoreBooks' /\ GenGoes(s) /\ ChkGoes(s) BY <1>1, <1>2, <1>8, <1>9, CoreStep, Zenon
<1>11. Scripted(master.step, left, gen', chk', Writes', Count(Line, "read")')
  BY <1>2, <1>7, <1>10, CoresFollow, Zenon
<1>12. Sees(master.step, master.done, onway, Status') BY <1>2, <1>6, <1>7, <1>10, SeesCores, Zenon
<1>13. Script(master.step, bridge.control)' BY <1>4, <1>9, <1>11 DEF Script
<1>14. Sees(master.step, master.done, bridge.status, Status)' BY <1>4, <1>9, <1>12
<1>. QED BY <1>1, <1>2, <1>4, <1>5, <1>10, <1>13, <1>14 DEF BistBooks, MasterFields

(* An edge of software in another clock.                                      *)
LEMMA BistUserStep ==
    ASSUME InTime, BistBooks, BistCdcUserTick
    PROVE  InTime' /\ BistBooks'
<1>. DEFINE onway == IF BistStrobe = <<>> THEN bridge.control ELSE Append(bridge.control, BistStrobe)
            next == IF bridge.status = <<>> THEN Shown ELSE Head(bridge.status)
            m == BistMasterNext(Len(bridge.control) < 2)
<1>1. /\ bridge.cdc /\ port' = port
      /\ bridge' = [bridge EXCEPT !.control = IF BistStrobe # <<>> /\ Len(bridge.control) < 2
                                              THEN Append(bridge.control, BistStrobe) ELSE bridge.control,
                                 !.status = <<>>]
      /\ master' = [m EXCEPT !.done = IF bridge.status = <<>> THEN m.done ELSE Head(bridge.status)]
  BY Zenon DEF BistCdcUserTick
<1>2. /\ CoreBooks /\ Script(master.step, bridge.control) /\ MasterFields \subseteq DOMAIN master
      /\ Sees(master.step, master.done, bridge.status, Status)
  BY <1>1 DEF BistBooks
<1>3. Shown = master.done BY <1>1 DEF Shown
<1>4. /\ BistStrobe # <<>> => Len(bridge.control) < 2
      /\ Script(BistStep, onway)
      /\ Sees(BistStep, next, <<>>, Status)
  BY <1>2, <1>3, SoftwareGoes, Zenon
<1>5. m.step = BistStep /\ m.p = master.p /\ m.done = master.done /\ DOMAIN m = DOMAIN master
  <2>1. (Len(bridge.control) < 2) \in BOOLEAN OBVIOUS
  <2>. QED BY <1>2, <1>4, <2>1, SoftwareMoves, Zenon
<1>6. (IF BistStrobe # <<>> /\ Len(bridge.control) < 2 THEN Append(bridge.control, BistStrobe) ELSE bridge.control) = onway
  BY <1>4
<1>7. (IF bridge.status = <<>> THEN m.done ELSE Head(bridge.status)) = next BY <1>3, <1>5
<1>. HIDE DEF onway, next, m
<1>8. /\ master'.step = BistStep /\ master'.p = master.p /\ master'.done = next /\ DOMAIN master' = DOMAIN master
  <2>1. master' = [m EXCEPT !.done = next] BY <1>1, <1>7
  <2>2. MasterFields \subseteq DOMAIN m BY <1>2, <1>5
  <2>. QED BY <1>5, <2>1, <2>2 DEF MasterFields
<1>9. /\ bridge' = [bridge EXCEPT !.control = onway, !.status = <<>>]
      /\ {"gen", "fifo", "chk", "reader", "cdc", "control", "status"} \subseteq DOMAIN bridge
  BY <1>1, <1>2, <1>6 DEF CoreBooks
<1>10. /\ bridge'.gen = bridge.gen /\ bridge'.fifo = bridge.fifo /\ bridge'.chk = bridge.chk
       /\ bridge'.reader = bridge.reader /\ bridge'.cdc = bridge.cdc /\ DOMAIN bridge' = DOMAIN bridge
       /\ bridge'.control = onway /\ bridge'.status = <<>>
  BY <1>9
<1>11. InTime' BY <1>1 DEF InTime, PortTyped
<1>12. gen' = gen /\ chk' = chk /\ Writes' = Writes /\ Reads' = Reads /\ Line' = Line
  BY <1>1, <1>10 DEF gen, chk, Writes, Reads, Line
<1>13. CoreBooks' BY <1>2, <1>8, <1>9, <1>10, <1>12 DEF CoreBooks
<1>14. Script(master.step, bridge.control)' BY <1>4, <1>8, <1>10, <1>12 DEF Script
<1>15. Status' = Status BY <1>10 DEF Status
<1>16. Sees(master.step, master.done, bridge.status, Status)' BY <1>4, <1>8, <1>10, <1>15
<1>17. Single(bridge'.status) BY <1>10 DEF Single
<1>. QED BY <1>1, <1>2, <1>8, <1>10, <1>11, <1>13, <1>14, <1>16, <1>17 DEF BistBooks, MasterFields

(* A disturbed word is one of the memory.                                     *)
LEMMA DisturbKeeps ==
    ASSUME InTime, BistBooks, Disturb
    PROVE  InTime' /\ BistBooks'
<1>1. PICK c \in Cells : /\ port' = [port EXCEPT !.mem[c] = 1 - @]
                         /\ master' = [master EXCEPT !.disturbed = {c}]
                         /\ bridge' = bridge
  BY Zenon DEF Disturb
<1>2. \E m : port' = [port EXCEPT !.mem = m] BY <1>1
<1>3. /\ port'.fresh = port.fresh /\ port'.cmds = port.cmds /\ port'.returns = port.returns
      /\ port'.missed = port.missed /\ port'.dropped = port.dropped /\ DOMAIN port' = DOMAIN port
  BY <1>2 DEF InTime, PortTyped
<1>4. master'.step = master.step /\ master'.p = master.p /\ master'.done = master.done /\ DOMAIN master' = DOMAIN master
  BY <1>1 DEF BistBooks, MasterFields
<1>5. InTime' BY <1>3 DEF InTime, PortTyped
<1>6. gen' = gen /\ chk' = chk /\ Writes' = Writes /\ Reads' = Reads /\ Line' = Line /\ Status' = Status
  BY <1>1, <1>3 DEF gen, chk, Writes, Reads, Line, Status
<1>7. CoreBooks' BY <1>1, <1>4, <1>6 DEF BistBooks, CoreBooks
<1>8. Script(master.step, bridge.control)' BY <1>1, <1>4, <1>6 DEF BistBooks, Script
<1>. QED BY <1>1, <1>4, <1>5, <1>6, <1>7, <1>8 DEF BistBooks

(* There is at least one word to write and to check.                          *)
LEMMA SomeWords ==
    ASSUME NEW pattern \in BOOLEAN, NEW cdc \in BOOLEAN, NEW p \in BistParameters(pattern, cdc)
    PROVE  BistLength(p) \in Nat \ {0}
<1>1. CASE pattern
  <2>1. p.init \in {<< <<1, 1>>, <<0, 0>> >>, << <<2, 1>>, <<2, 0>>, <<0, 1>> >>}
    BY <1>1 DEF BistParameters
  <2>2. /\ \A x, y : Len(<<x, y>>) = 2 /\ <<x, y>> # <<>>
        /\ \A x, y, z : Len(<<x, y, z>>) = 3 /\ <<x, y, z>> # <<>>
    <3>1. ASSUME NEW x, NEW y PROVE Len(<<x, y>>) = 2 /\ <<x, y>> # <<>> OBVIOUS
    <3>2. ASSUME NEW x, NEW y, NEW z PROVE Len(<<x, y, z>>) = 3 /\ <<x, y, z>> # <<>> OBVIOUS
    <3>. QED BY <3>1, <3>2
  <2>3. \/ \E x, y : p.init = <<x, y>>
        \/ \E x, y, z : p.init = <<x, y, z>>
    BY <2>1, Zenon
  <2>4. Len(p.init) \in {2, 3} /\ p.init # <<>>
    <3>1. CASE \E x, y : p.init = <<x, y>>
      <4>1. Len(p.init) = 2 /\ p.init # <<>> BY <2>2, <3>1, Zenon
      <4>. QED BY <4>1
    <3>2. CASE \E x, y, z : p.init = <<x, y, z>>
      <4>1. Len(p.init) = 3 /\ p.init # <<>> BY <2>2, <3>2, Zenon
      <4>. QED BY <4>1
    <3>. QED BY <2>3, <3>1, <3>2
  <2>. QED BY <2>4 DEF BistLength
<1>2. CASE ~pattern
  <2>1. p.init = <<>> /\ p.length \in {n * word_bytes : n \in 1 .. NCells} BY <1>2 DEF BistParameters
  <2>2. PICK n \in 1 .. NCells : p.length = n * word_bytes BY <2>1
  <2>3. n \in Nat \ {0} /\ word_bytes \in Nat \ {0} BY DmaAssumption, NativePortAssumption
  <2>4. (n * word_bytes) \div word_bytes \in Nat \ {0} BY <2>3
  <2>. QED BY <2>1, <2>2, <2>4 DEF BistLength
<1>. QED BY <1>1, <1>2

(* A BIST starts at rest.                                                     *)
LEMMA BistStarts ==
    ASSUME NEW pattern \in BOOLEAN, NEW cdc \in BOOLEAN, BistUserInit(pattern, cdc), InTime, Writes = 0, Reads = 0
    PROVE  BistBooks
<1>1. /\ bridge.gen = GenInit /\ bridge.chk = ChkInit /\ bridge.reader = ReaderInit
      /\ bridge.fifo = <<>> /\ bridge.control = <<>> /\ bridge.status = <<>> /\ bridge.cdc = cdc
      /\ {"gen", "fifo", "chk", "reader", "cdc", "control", "status"} \subseteq DOMAIN bridge
  <2>. HIDE DEF GenInit, ChkInit, ReaderInit
  <2>. QED BY DEF BistUserInit
<1>2. PICK p \in BistParameters(pattern, cdc) :
          master = [ step |-> "reset gen", p |-> p, done |-> [gen |-> FALSE, chk |-> FALSE, errors |-> 0],
                     disturbed |-> {}, answered |-> FALSE, wrong |-> FALSE ]
  <2>1. master \in [ step : {"reset gen"}, p : BistParameters(pattern, cdc),
                     done : {[gen |-> FALSE, chk |-> FALSE, errors |-> 0]},
                     disturbed : {{}}, answered : {FALSE}, wrong : {FALSE} ]
    BY Zenon DEF BistUserInit
  <2>. HIDE DEF BistParameters
  <2>. QED BY <2>1
<1>3. /\ master.step = "reset gen" /\ master.p \in BistParameters(pattern, cdc)
      /\ master.done = [gen |-> FALSE, chk |-> FALSE, errors |-> 0]
      /\ MasterFields \subseteq DOMAIN master
  BY <1>2 DEF MasterFields
<1>4. BistLength(master.p) \in Nat \ {0} BY <1>3, SomeWords, Zenon
<1>5. /\ gen.state = "IDLE" /\ "state" \in DOMAIN gen /\ chk.cmd = "IDLE" /\ chk.data = "IDLE"
      /\ chk.cmd_counter = 0 /\ chk.data_counter = 0 /\ ChkFields \subseteq DOMAIN chk
  BY <1>1 DEF gen, chk, GenInit, ChkInit, ChkFields
<1>6. Reserved(bridge.reader, 0) /\ Len(bridge.reader.fifo) = 0
  BY <1>1, QueueMoves, DmaAssumption DEF Reserved, ReaderInit
<1>7. WritesFirst(Line)
  <2>1. port = PortInit(1, 0) BY DEF BistUserInit
  <2>2. port.cmds = <<>> /\ port.fresh = <<>> BY <2>1 DEF PortInit
  <2>3. Line = <<>> BY <2>2 DEF Line
  <2>. QED BY <2>3, FirstMoves
<1>8. CoreBooks
  <2>1. Checks(chk, 0, 0, BistLength(master.p)) BY <1>5 DEF Checks, CmdStates, DataStates
  <2>2. Queue(bridge.fifo) /\ Len(bridge.fifo) = 0 BY <1>1, QueueMoves
  <2>. QED BY <1>1, <1>4, <1>5, <1>6, <1>7, <2>1, <2>2 DEF CoreBooks, GenStates
<1>9. Script(master.step, bridge.control) BY <1>1, <1>3, <1>5 DEF Script, Scripted, Idle, Rests
<1>10. Sees(master.step, master.done, <<>>, Status)
  <2>1. ~master.done["gen"] /\ ~master.done["chk"]
    <3>1. ASSUME NEW d, d = [gen |-> FALSE, chk |-> FALSE, errors |-> 0] PROVE ~d["gen"] /\ ~d["chk"]
      BY <3>1
    <3>2. master.done = [gen |-> FALSE, chk |-> FALSE, errors |-> 0] BY <1>3
    <3>. QED BY <3>1, <3>2, Zenon
  <2>2. ~Status["gen"] /\ ~Status["chk"] BY <1>5, StatusSays
  <2>. QED BY <2>1, <2>2 DEF Sees, Follows
<1>11. Single(bridge.status) BY <1>1 DEF Single
<1>. QED BY <1>1, <1>3, <1>8, <1>9, <1>10, <1>11 DEF BistBooks

-----------------------------------------------------------------------------
(* The Wishbone slave works on the memory itself: the port is not driven.    *)
LEMMA SlaveStep ==
    ASSUME InTime, NEW e \in PortInputs, SlaveTick(e)
    PROVE  InTime'
<1>1. port' = port \/ \E m : port' = [port EXCEPT !.mem = m] BY Zenon DEF SlaveTick
<1>2. /\ port'.fresh = port.fresh /\ port'.cmds = port.cmds /\ port'.returns = port.returns
      /\ port'.missed = port.missed /\ port'.dropped = port.dropped /\ DOMAIN port' = DOMAIN port
  BY <1>1 DEF InTime, PortTyped
<1>. QED BY <1>2 DEF InTime, PortTyped

-----------------------------------------------------------------------------
(* All of them.                                                             *)

\* The AXI bridges, with read-modify-write and without.
Axis == {"axi", "axi rmw", "axi rmw bursts"}

\* The BISTs, with registers of the same clock and of another one.
Bists == {"bist", "bist pattern", "bist cdc"}

\* The bridges there are.
Bridges == {"down", "up", "cdc", "wishbone", "wishbone wide", "wishbone burst", "wishbone slave",
            "avalon", "dma", "ecc"} \cup Axis \cup Bists

\* What each of them keeps to be in time.
Inv ==
    /\ kind \in Bridges
    /\ InTime
    /\ kind = "dma" => DmaBooks
    /\ kind = "wishbone" => WbBooks
    /\ kind = "wishbone burst" => BurstBooks
    /\ kind = "avalon" => AvBooks
    /\ kind \in Axis => AxiBooks
    /\ kind = "cdc" => CdcBooks
    /\ kind = "ecc" => EccBooks
    /\ kind = "down" => DownBooks
    /\ kind = "up" => UpBooks
    /\ kind = "wishbone wide" => WideBooks
    /\ kind \in Bists => BistBooks

(* A port starts without commands.                                          *)
LEMMA PortStarts ==
    ASSUME NEW w, NEW f, NEW x,
           \/ port = PortInit(w, f)
           \/ port = [PortInit(w, f) EXCEPT !.masks = x]
           \/ port = [PortInit(w, f) EXCEPT !.mem = x]
    PROVE  InTime /\ Writes = 0 /\ Reads = 0
<1>1. /\ port.fresh = <<>> /\ port.cmds = <<>> /\ port.returns = <<>> /\ ~port.missed /\ ~port.dropped
      /\ {"fresh", "cmds", "returns", "missed", "dropped"} \subseteq DOMAIN port
  BY DEF PortInit
<1>2. Queue(<<>>) /\ Single(<<>>) /\ Len(<<>>) = 0 /\ Count(<<>>, "write") = 0 /\ Count(<<>>, "read") = 0
  BY QueueMoves, Counting DEF Single
<1>3. InTime BY <1>1, <1>2, NativePortAssumption DEF InTime, PortTyped
<1>4. Writes = 0 /\ Reads = 0 BY <1>1, <1>2 DEF Writes, Reads
<1>. QED BY <1>3, <1>4

(* Every bridge starts in time.                                             *)
LEMMA Starts == Init => Inv
<1>. SUFFICES ASSUME Init PROVE Inv OBVIOUS
<1>00. kind \in Bridges BY Zenon DEF Init, Bridges, Axis, Bists
<1>0. Queue(<<>>) /\ Single(<<>>) /\ Len(<<>>) = 0 /\ (\A op : Count(<<>>, op) = 0 /\ Asks(<<>>, op) = 0)
  BY QueueMoves, CountMoves DEF Single, Asks
<1>1. CASE kind = "dma"
  <2>1. DmaUserInit BY <1>1 DEF Init
  <2>2. InTime /\ Writes = 0 /\ Reads = 0 BY <2>1, PortStarts, Zenon DEF DmaUserInit
  <2>3. DmaBooks
    <3>1. bridge.wfifo = <<>> /\ bridge.reader = [res |-> 0, fifo |-> <<>>] BY <2>1 DEF DmaUserInit, ReaderInit
    <3>2. Reserved(bridge.reader, 0) BY <1>0, <3>1, DmaAssumption DEF Reserved
    <3>. QED BY <1>0, <2>2, <3>1, <3>2 DEF DmaBooks
  <2>. QED BY <1>1, <2>2, <2>3 DEF Inv, Axis, Bists, Bridges
<1>2. CASE kind = "wishbone"
  <2>1. WbUserInit BY <1>2 DEF Init
  <2>2. InTime /\ Writes = 0 /\ Reads = 0 BY <2>1, PortStarts, Zenon DEF WbUserInit
  <2>3. bridge.state = "CMD" /\ {"req"} \subseteq DOMAIN master BY <2>1 DEF WbUserInit, WbInit, BusInit
  <2>. QED BY <1>2, <2>2, <2>3 DEF Inv, Axis, Bists, Bridges, WbBooks
<1>3. CASE kind = "wishbone burst"
  <2>1. WbBurstInit BY <1>3 DEF Init
  <2>2. InTime /\ Writes = 0 /\ Reads = 0 BY <2>1, PortStarts, Zenon DEF WbBurstInit
  <2>3. bridge.state = "CMD" /\ {"state"} \subseteq DOMAIN bridge BY <2>1 DEF WbBurstInit, BurstInit
  <2>. QED BY <1>3, <2>2, <2>3 DEF Inv, Axis, Bists, Bridges, BurstBooks
<1>4. CASE kind = "wishbone slave"
  <2>1. SlaveInit BY <1>4 DEF Init
  <2>2. InTime BY <2>1, PortStarts, Zenon DEF SlaveInit
  <2>. QED BY <1>4, <2>2 DEF Inv, Axis, Bists, Bridges
<1>5. CASE kind = "avalon"
  <2>1. AvUserInit BY <1>5 DEF Init
  <2>2. InTime /\ Writes = 0 /\ Reads = 0 BY <2>1, PortStarts, Zenon DEF AvUserInit
  <2>3. AvTyped /\ bridge.state = "START" /\ bridge.cmd_fifo = <<>> /\ bridge.wdata_fifo = <<>>
    <3>1. /\ {"state", "burst_count", "address", "writedata", "cmd_ready_seen", "cmd_ready_count", "cmd_fifo", "wdata_fifo"}
               \subseteq DOMAIN bridge
          /\ bridge.state = "START" /\ bridge.cmd_fifo = <<>> /\ bridge.wdata_fifo = <<>>
      BY <2>1 DEF AvUserInit, AvInit
    <3>2. {"req"} \subseteq DOMAIN master /\ master.req = <<>> BY <2>1 DEF AvUserInit, AvMasterInit
    <3>. QED BY <1>0, <3>1, <3>2 DEF AvTyped
  <2>. QED BY <1>5, <2>2, <2>3 DEF Inv, Axis, Bists, Bridges, AvBooks
<1>6. CASE kind \in Axis
  <2>1. ASSUME NEW rmw \in BOOLEAN, NEW lens, AxiUserInit(rmw, lens) PROVE InTime /\ AxiBooks
    <3>1. InTime /\ Writes = 0 /\ Reads = 0
      <4>1. PICK f, x : port = [PortInit(W, f) EXCEPT !.masks = x] BY <2>1 DEF AxiUserInit
      <4>. QED BY <4>1, PortStarts, Zenon
    <3>2. /\ AxiFields(bridge) /\ bridge.rmw = "IDLE"
          /\ bridge.w_buffer = FifoInit /\ bridge.r_buffer = FifoInit
          /\ bridge.w_buffer_level = 0 /\ bridge.r_buffer_level = 0
      BY <2>1 DEF AxiUserInit, AxiInit, AxiFields
    <3>3. FifoTyped(FifoInit) /\ Level(FifoInit) = 0 BY <1>0 DEF FifoTyped, FifoInit, Level
    <3>4. Count(port.cmds, "write") = 0
      <4>1. port.cmds = <<>> BY <2>1 DEF AxiUserInit, PortInit
      <4>. QED BY <1>0, <4>1
    <3>. QED BY <3>1, <3>2, <3>3, <3>4, AxiAssumption DEF AxiBooks, RmwStates
  <2>2. AxiUserInit(FALSE, 1 .. 2) \/ AxiUserInit(TRUE, {1}) \/ AxiUserInit(TRUE, 1 .. 2) BY <1>6 DEF Init, Axis
  <2>3. ASSUME AxiUserInit(FALSE, 1 .. 2) PROVE InTime /\ AxiBooks BY <2>1, <2>3
  <2>4. ASSUME AxiUserInit(TRUE, {1}) PROVE InTime /\ AxiBooks BY <2>1, <2>4
  <2>5. ASSUME AxiUserInit(TRUE, 1 .. 2) PROVE InTime /\ AxiBooks BY <2>1, <2>5
  <2>6. InTime /\ AxiBooks BY <2>2, <2>3, <2>4, <2>5
  <2>. QED BY <1>6, <2>6 DEF Inv, Axis, Bists, Bridges
<1>7. CASE kind = "cdc"
  <2>1. CdcInit BY <1>7 DEF Init
  <2>2. InTime /\ Writes = 0 /\ Reads = 0 BY <2>1, PortStarts, Zenon DEF CdcInit
  <2>3. /\ {"cmd", "wdata", "expect"} \subseteq DOMAIN master
        /\ master.cmd = <<>> /\ master.wdata = <<>> /\ master.expect = <<>>
    BY <2>1 DEF CdcInit, NativeInit
  <2>4. /\ {"cmd", "wdata", "rdata"} \subseteq DOMAIN bridge
        /\ bridge.cmd = <<>> /\ bridge.wdata = <<>> /\ bridge.rdata = <<>>
    BY <2>1 DEF CdcInit
  <2>5. NativeTyped BY <1>0, <2>3 DEF NativeTyped
  <2>6. CdcTyped BY <1>0, <2>4, <2>5 DEF CdcTyped
  <2>7. CdcBooks BY <1>0, <2>2, <2>3, <2>4, <2>6, CdcAssumption, NativePortAssumption DEF CdcBooks
  <2>. QED BY <1>7, <2>2, <2>7 DEF Inv, Axis, Bists, Bridges
<1>8. CASE kind = "ecc"
  <2>1. EccUserInit BY <1>8 DEF Init
  <2>2. InTime /\ Writes = 0 /\ Reads = 0 BY <2>1, PortStarts, Zenon DEF EccUserInit
  <2>3. /\ {"cmd", "wdata", "expect"} \subseteq DOMAIN master
        /\ master.cmd = <<>> /\ master.wdata = <<>> /\ master.expect = <<>>
    BY <2>1 DEF EccUserInit, NativeInit
  <2>4. {"wdata"} \subseteq DOMAIN bridge /\ bridge.wdata = <<>> BY <2>1 DEF EccUserInit, EccInit
  <2>5. EccBooks BY <1>0, <2>2, <2>3, <2>4 DEF EccBooks, NativeTyped
  <2>. QED BY <1>8, <2>2, <2>5 DEF Inv, Axis, Bists, Bridges
<1>9. CASE kind = "down"
  <2>1. DownUserInit BY <1>9 DEF Init
  <2>2. InTime /\ Writes = 0 /\ Reads = 0 BY <2>1, PortStarts, Zenon DEF DownUserInit
  <2>3. NativeTyped /\ master.cmd = <<>> /\ master.wdata = <<>>
    <3>1. /\ {"cmd", "wdata", "expect"} \subseteq DOMAIN master
          /\ master.cmd = <<>> /\ master.wdata = <<>> /\ master.expect = <<>>
      BY <2>1 DEF DownUserInit, NativeInit
    <3>. QED BY <1>0, <3>1 DEF NativeTyped
  <2>4. DownTyped(bridge) /\ ToSend(bridge) = 0 /\ bridge.wmux = 0
    BY <2>1 DEF DownUserInit, DownInit, DownTyped, ToSend
  <2>5. Asks(master.cmd, "write") = 0 /\ Len(master.wdata) = 0 BY <1>0, <2>3, Zenon
  <2>. QED BY <1>9, <2>2, <2>3, <2>4, <2>5 DEF Inv, Axis, Bists, Bridges, DownBooks
<1>10. CASE kind = "up"
  <2>1. UpUserInit BY <1>10 DEF Init
  <2>2. InTime /\ Writes = 0 /\ Reads = 0 BY <2>1, PortStarts, Zenon DEF UpUserInit
  <2>3. /\ UpFields(bridge) /\ bridge.state = "NEW" /\ ~bridge.wdata_pending
        /\ bridge.wdata_buffer = <<>> /\ bridge.rdata_fifo = <<>>
    BY <2>1 DEF UpUserInit, UpInit, UpFields
  <2>. QED BY <1>0, <1>10, <2>2, <2>3 DEF Inv, Axis, Bists, Bridges, UpBooks
<1>11. CASE kind = "wishbone wide"
  <2>1. WbWideInit BY <1>11 DEF Init
  <2>2. InTime /\ Writes = 0 /\ Reads = 0 BY <2>1, PortStarts, Zenon DEF WbWideInit
  <2>3. bridge = [fsm |-> WbInit, converter |-> DownInit] /\ {"req"} \subseteq DOMAIN master
    BY <2>1 DEF WbWideInit, BusInit
  <2>4. DownTyped(DownInit) /\ ToSend(DownInit) = 0 /\ DownInit.wmux = 0
    BY DEF DownInit, DownTyped, ToSend
  <2>5. WbInit.state = "CMD" /\ "state" \in DOMAIN WbInit BY DEF WbInit
  <2>6. /\ {"fsm", "converter"} \subseteq DOMAIN bridge
        /\ bridge.fsm = WbInit /\ bridge.converter = DownInit
    <3>. HIDE DEF WbInit, DownInit
    <3>. QED BY <2>3
  <2>7. WideBooks BY <2>2, <2>3, <2>4, <2>5, <2>6 DEF WideBooks
  <2>. QED BY <1>11, <2>2, <2>7 DEF Inv, Axis, Bists, Bridges
<1>12. CASE kind \in Bists
  <2>1. ASSUME NEW pattern \in BOOLEAN, NEW cdc \in BOOLEAN, BistUserInit(pattern, cdc) PROVE InTime /\ BistBooks
    <3>1. InTime /\ Writes = 0 /\ Reads = 0 BY <2>1, PortStarts, Zenon DEF BistUserInit
    <3>. QED BY <2>1, <3>1, BistStarts, Zenon
  <2>2. BistUserInit(FALSE, FALSE) \/ BistUserInit(TRUE, FALSE) \/ BistUserInit(FALSE, TRUE)
    BY <1>12 DEF Init, Bists
  <2>3. FALSE \in BOOLEAN /\ TRUE \in BOOLEAN OBVIOUS
  <2>4. InTime /\ BistBooks BY <2>1, <2>2, <2>3, Zenon
  <2>. QED BY <1>12, <2>4 DEF Inv, Axis, Bists, Bridges
<1>. QED BY <1>00, <1>1, <1>2, <1>3, <1>4, <1>5, <1>6, <1>7, <1>8, <1>9, <1>10, <1>11, <1>12 DEF Bridges

(* And stays in time, whatever the port and the user do.                    *)
LEMMA Stays == Inv /\ [Next]_frontVars => Inv'
<1>. SUFFICES ASSUME Inv, [Next]_frontVars PROVE Inv' OBVIOUS
<1>1. CASE UNCHANGED frontVars
  <2>1. UNCHANGED <<kind, port, bridge, master>> BY <1>1 DEF frontVars
  <2>2. BistBooks => BistBooks'
    <3>1. /\ gen' = gen /\ chk' = chk /\ Writes' = Writes /\ Reads' = Reads /\ Line' = Line /\ Status' = Status
          /\ bridge' = bridge /\ master' = master
      BY <2>1 DEF gen, chk, Writes, Reads, Line, Status
    <3>2. CoreBooks => CoreBooks' BY <3>1 DEF CoreBooks
    <3>3. Script(master.step, bridge.control) => Script(master.step, bridge.control)' BY <3>1 DEF Script
    <3>. QED BY <3>1, <3>2, <3>3 DEF BistBooks
  <2>3. InTime => InTime' BY <2>1 DEF InTime, PortTyped
  <2>4. /\ DmaBooks => DmaBooks'
        /\ WbBooks => WbBooks'
        /\ BurstBooks => BurstBooks'
        /\ AxiBooks => AxiBooks'
        /\ WideBooks => WideBooks'
    BY <2>1 DEF DmaBooks, WbBooks, BurstBooks, AxiBooks, WideBooks, Writes, Reads, stb, req
  <2>5. /\ AvBooks => AvBooks'
        /\ CdcBooks => CdcBooks'
        /\ EccBooks => EccBooks'
        /\ DownBooks => DownBooks'
        /\ UpBooks => UpBooks'
    BY <2>1 DEF AvBooks, AvTyped, CdcBooks, CdcTyped, EccBooks, NativeTyped, DownBooks, UpBooks, Writes, Reads, av
  <2>. QED BY <2>1, <2>2, <2>3, <2>4, <2>5 DEF Inv, Bridges, Axis, Bists
<1>2. ASSUME NEW e \in PortInputs, NEW go \in Goes, Clock(e, go) PROVE Inv'
  <2>1. kind' = kind BY <1>2, Zenon DEF Clock
  <2>2. kind \in Bridges /\ InTime BY DEF Inv
  <2>3. CASE kind = "dma"
    <3>1. DmaUserTick(e) BY <1>2, <2>3 DEF Clock
    <3>2. InTime' /\ DmaBooks' BY <2>2, <2>3, <3>1, DmaStep DEF Inv, Axis, Bists, Bridges
    <3>. QED BY <2>1, <2>3, <3>2 DEF Inv, Axis, Bists, Bridges
  <2>4. CASE kind = "wishbone"
    <3>1. WbUserTick(e) BY <1>2, <2>4 DEF Clock
    <3>2. InTime' /\ WbBooks' BY <2>2, <2>4, <3>1, WbStep DEF Inv, Axis, Bists, Bridges
    <3>. QED BY <2>1, <2>4, <3>2 DEF Inv, Axis, Bists, Bridges
  <2>5. CASE kind = "wishbone burst"
    <3>1. WbBurstTick(e) BY <1>2, <2>5 DEF Clock
    <3>2. InTime' /\ BurstBooks' BY <2>2, <2>5, <3>1, BurstStep DEF Inv, Axis, Bists, Bridges
    <3>. QED BY <2>1, <2>5, <3>2 DEF Inv, Axis, Bists, Bridges
  <2>6. CASE kind = "wishbone slave"
    <3>1. SlaveTick(e) BY <1>2, <2>6 DEF Clock
    <3>2. InTime' BY <2>2, <3>1, SlaveStep
    <3>. QED BY <2>1, <2>6, <3>2 DEF Inv, Axis, Bists, Bridges
  <2>7. CASE kind = "avalon"
    <3>1. AvUserTick(e) BY <1>2, <2>7 DEF Clock
    <3>2. InTime' /\ AvBooks' BY <2>2, <2>7, <3>1, AvStep DEF Inv, Axis, Bists, Bridges
    <3>. QED BY <2>1, <2>7, <3>2 DEF Inv, Axis, Bists, Bridges
  <2>8. CASE kind \in Axis
    <3>1. AxiUserTick(e) BY <1>2, <2>8 DEF Clock, Axis
    <3>2. InTime' /\ AxiBooks' BY <2>2, <2>8, <3>1, AxiStep DEF Inv, Axis, Bists, Bridges
    <3>. QED BY <2>1, <2>8, <3>2 DEF Inv, Axis, Bists, Bridges
  <2>9. CASE kind = "cdc"
    <3>1. CdcPortTick(e) BY <1>2, <2>9 DEF Clock
    <3>2. InTime' /\ CdcBooks' BY <2>2, <2>9, <3>1, CdcPortStep DEF Inv, Axis, Bists, Bridges
    <3>. QED BY <2>1, <2>9, <3>2 DEF Inv, Axis, Bists, Bridges
  <2>10. CASE kind = "ecc"
    <3>1. EccUserTick(e) BY <1>2, <2>10 DEF Clock
    <3>2. InTime' /\ EccBooks' BY <2>2, <2>10, <3>1, EccStep DEF Inv, Axis, Bists, Bridges
    <3>. QED BY <2>1, <2>10, <3>2 DEF Inv, Axis, Bists, Bridges
  <2>11. CASE kind = "down"
    <3>1. DownUserTick(e) BY <1>2, <2>11 DEF Clock
    <3>2. InTime' /\ DownBooks' BY <2>2, <2>11, <3>1, DownStep DEF Inv, Axis, Bists, Bridges
    <3>. QED BY <2>1, <2>11, <3>2 DEF Inv, Axis, Bists, Bridges
  <2>12. CASE kind = "up"
    <3>1. UpUserTick(e) BY <1>2, <2>12 DEF Clock
    <3>2. InTime' /\ UpBooks' BY <2>2, <2>12, <3>1, UpStep DEF Inv, Axis, Bists, Bridges
    <3>. QED BY <2>1, <2>12, <3>2 DEF Inv, Axis, Bists, Bridges
  <2>13. CASE kind = "wishbone wide"
    <3>1. WbWideTick(e) BY <1>2, <2>13 DEF Clock
    <3>2. InTime' /\ WideBooks' BY <2>2, <2>13, <3>1, WideStep DEF Inv, Axis, Bists, Bridges
    <3>. QED BY <2>1, <2>13, <3>2 DEF Inv, Axis, Bists, Bridges
  <2>14. CASE kind \in {"bist", "bist pattern"}
    <3>1. BistTick(e, go) /\ go \in BOOLEAN BY <1>2, <2>14 DEF Clock, Goes
    <3>2. InTime' /\ BistBooks' BY <2>2, <2>14, <3>1, BistEdge DEF Inv, Axis, Bists
    <3>. QED BY <2>1, <2>14, <3>2 DEF Inv, Axis, Bists, Bridges
  <2>15. CASE kind = "bist cdc"
    <3>1. BistCdcCoreTick(e, go) /\ go \in BOOLEAN BY <1>2, <2>15 DEF Clock, Goes
    <3>2. InTime' /\ BistBooks' BY <2>2, <2>15, <3>1, BistCoreStep DEF Inv, Axis, Bists
    <3>. QED BY <2>1, <2>15, <3>2 DEF Inv, Axis, Bists, Bridges
  <2>. QED BY <2>2, <2>3, <2>4, <2>5, <2>6, <2>7, <2>8, <2>9, <2>10, <2>11, <2>12, <2>13, <2>14, <2>15
       DEF Bridges, Bists
<1>3. ASSUME UserClock PROVE Inv'
  <2>1. kind' = kind BY <1>3, Zenon DEF UserClock
  <2>2. CASE kind = "cdc"
    <3>1. CdcUserTick BY <1>3, <2>2 DEF UserClock
    <3>2. InTime' /\ CdcBooks' BY <2>2, <3>1, CdcUserStep DEF Inv
    <3>. QED BY <2>1, <2>2, <3>2 DEF Inv, Axis, Bists, Bridges
  <2>3. CASE kind = "bist cdc"
    <3>1. BistCdcUserTick BY <1>3, <2>3 DEF UserClock
    <3>2. InTime' /\ BistBooks' BY <2>3, <3>1, BistUserStep DEF Inv, Bists
    <3>. QED BY <2>1, <2>3, <3>2 DEF Inv, Axis, Bists, Bridges
  <2>. QED BY <1>3, <2>2, <2>3 DEF UserClock
<1>4. ASSUME Fault PROVE Inv'
  <2>1. kind' = kind BY <1>4, Zenon DEF Fault
  <2>2. CASE kind = "ecc"
    <3>1. EccFlip BY <1>4, <2>2 DEF Fault
    <3>2. InTime' /\ EccBooks' BY <2>2, <3>1, FlipKeeps DEF Inv
    <3>. QED BY <2>1, <2>2, <3>2 DEF Inv, Axis, Bists, Bridges
  <2>3. CASE kind \in Bists
    <3>1. Disturb BY <1>4, <2>3 DEF Fault, Bists
    <3>2. InTime' /\ BistBooks' BY <2>3, <3>1, DisturbKeeps DEF Inv
    <3>. QED BY <2>1, <2>3, <3>2 DEF Inv, Axis, Bists, Bridges
  <2>. QED BY <1>4, <2>2, <2>3 DEF Fault, Bists
<1>. QED BY <1>1, <1>2, <1>3, <1>4 DEF Next, PortClock

(* Whenever the controller fetches the data of a write, the bridge has it:    *)
(* crossbar and controller read port.wdata in a fixed cycle after the command *)
(* and never look at wdata.valid.  For every bridge, every depth of the       *)
(* FIFOs, any order of the clocks and any delay between command and data.     *)
THEOREM DataInTime == Spec => []WritesFindData
<1>1. Inv => WritesFindData BY DEF Inv, InTime, WritesFindData
<1>. QED BY <1>1, Starts, Stays, PTL DEF Spec

(* Whenever the controller returns a word that was read, the bridge has room  *)
(* for it: rdata.ready is not looked at either, and what finds no room is     *)
(* lost.                                                                      *)
THEOREM RoomInTime == Spec => []ReadsFindRoom
<1>1. Inv => ReadsFindRoom BY DEF Inv, InTime, ReadsFindRoom
<1>. QED BY <1>1, Starts, Stays, PTL DEF Spec
=============================================================================
