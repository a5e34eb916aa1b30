--------------------------- MODULE HxSinksProofs ----------------------------
(***************************************************************************)
(* Theorems about the sink table and the formats of lines: for any         *)
(* threads, any table, any number of lines and of changes, a sink that     *)
(* stays as it is gets each line once and in its own format, a line is     *)
(* rendered with a format of its time, and it counts once.                 *)
(***************************************************************************)
EXTENDS HxSinks, FiniteSetTheorems, SequenceTheorems, WellFoundedInduction, TLAPS

-----------------------------------------------------------------------------
(***************************************************************************)
(* Rendered lines on their way: a function f from places to sequences of   *)
(* jobs, and a set J of jobs.                                              *)
(***************************************************************************)
OneIn(s, J)    == \E i \in DOMAIN s : s[i] \in J
SomeIn(f, J)   == \E y \in DOMAIN f : \E i \in DOMAIN f[y] : f[y][i] \in J
SingleIn(f, J) == \A y, z \in DOMAIN f : \A i \in DOMAIN f[y], k \in DOMAIN f[z] :
                     f[y][i] \in J /\ f[z][k] \in J => y = z /\ i = k

\* The threads' rendered lines, the queue in the place of nobody, and what the
\* queue dropped in a place of its own.
Gone  == CHOOSE x : x \notin Actor \cup {Nobody}
Place == Actor \cup {Nobody, Gone}
HeldBy(rendered, waiting, lost) ==
    [y \in Place |-> IF y = Nobody THEN waiting ELSE IF y = Gone THEN lost
                     ELSE rendered[y]]
Held == HeldBy(todo, queue, dropped)

\* The jobs of a line, the one that counts it, and those for a sink.
Of(l)       == {j \in Job : j.line = l}
Counting(l) == {j \in Of(l) : j.counts}
For(l, s)   == {j \in Of(l) : Routed(j, s)}

-----------------------------------------------------------------------------
(***************************************************************************)
(* The inductive invariant, in parts.                                      *)
(***************************************************************************)

\* Identifiers are unique, and overrides are counted.
TableAgrees ==
    /\ \A i, j \in DOMAIN table : table[i].id = table[j].id => i = j
    /\ next_id >= 1 /\ \A i \in DOMAIN table : table[i].id \in 1..(next_id - 1)
    /\ over = OverCount(table)

\* Where each thread is.
Preparing == {"refresh", "render", "snap"}
PlaceAgrees ==
    /\ \A x \in Actor : /\ pc[x] \in Preparing \cup {"out"} => todo[x] = <<>>
                        /\ lock = x <=> pc[x] = "emit"
                        /\ pc[x] = "emit" => todo[x] # <<>>
                        /\ pos[x] >= 1
    /\ pc[Worker] \notin Preparing
    /\ \A t \in Writer : /\ cur[t] <= sent
                         /\ pc[t] # "out" => cur[t] >= 1
                         /\ \A i \in DOMAIN todo[t] : todo[t][i].line = cur[t]
    /\ \A t, u \in Writer : cur[t] = cur[u] /\ cur[t] # 0 => t = u

\* A line before it is rendered, and one not logged yet, is nowhere.
Early(l) == \E t \in Writer : cur[t] = l /\ pc[t] \in Preparing
LinesAgree ==
    /\ \A y \in Place : \A i \in DOMAIN Held[y] : Held[y][i].line <= sent
    /\ \A l \in Line : /\ l > sent => began[l] = 0 /\ got[l] = <<>>
                       /\ Early(l) => got[l] = <<>> /\ ~SomeIn(Held, Of(l))

\* The generation tells the versions of the format apart.
GenOf(v) == IF v = 1 THEN GenWidth - 1 ELSE v - 1
GenAgrees ==
    /\ fmt >= 1 /\ fmt <= ops + 1 /\ gen = GenOf(fmt)
    /\ \A t \in Writer : \/ cache[t].gen = 0
                         \/ cache[t].fmt \in 1..fmt /\ cache[t].gen = GenOf(cache[t].fmt)

\* A format read by a line is of its time.
Timely(l, v) == began[l] <= v /\ v <= fmt
FormatAgrees ==
    /\ \A l \in Line : began[l] <= fmt
    /\ \A t \in Writer : pc[t] \in {"render", "snap"} => Timely(cur[t], cache[t].fmt)
    /\ \A y \in Place : \A i \in DOMAIN Held[y] : Timely(Held[y][i].line, Held[y][i].fmt)
    /\ FormatIsFresh

\* Each line has counted or will, once.
Owes(l) == Early(l) \/ SomeIn(Held, Counting(l))
Owed == {l \in 1..sent : Owes(l)}
CountAgrees ==
    /\ \A l \in Line : SingleIn(Held, Counting(l))
    /\ written + Cardinality(Owed) = sent

\* A sink as it was since the line was logged: before the delivery of its job
\* it has no copy, afterwards the one it should have.
Behind(x, s) == \E k \in DOMAIN table : table[k] = s /\ k < pos[x]
Passing(l, s) ==
    \E x \in Actor : pc[x] = "emit" /\ Head(todo[x]) \in For(l, s) /\ Behind(x, s)
Waits(l, s) == Early(l) \/ (SomeIn(Held, For(l, s)) /\ ~Passing(l, s))
Delivered(l, s) ==
    IF LineLevel < s.min THEN Copies(l, s) = {}
    ELSE \E k \in DOMAIN got[l] : /\ Copies(l, s) = {k}
                                  /\ got[l][k].shape = ShapeFor(s)
Served(l, s) == IF Waits(l, s) THEN Copies(l, s) = {} ELSE Delivered(l, s)
\* The jobs of a line for a sink have the sink's shape.
ShapesAgree(l, s) ==
    \A y \in Place : \A i \in DOMAIN Held[y] :
       Held[y][i] \in For(l, s) => Held[y][i].shape = ShapeFor(s)
SteadyAgrees(l, s) ==
    /\ Pending(l) => s \in Range(table)
    /\ SingleIn(Held, For(l, s)) /\ ShapesAgree(l, s) /\ Served(l, s)

SteadyHolds ==
    \A l \in Line : Begun(l) /\ l \notin spoilt => \A s \in steady[l] : SteadyAgrees(l, s)

SinksInv ==
    /\ SinksTypeOK /\ TableAgrees /\ PlaceAgrees /\ LinesAgree
    /\ GenAgrees /\ FormatAgrees /\ CountAgrees /\ SteadyHolds

-----------------------------------------------------------------------------
(***************************************************************************)
(* Jobs that move: from the head of one sequence to the end of another,    *)
(* from a head to nowhere, and from nowhere into an empty sequence.        *)
(***************************************************************************)
Moved(f, g, y, z) ==
    /\ y # z /\ f[y] # <<>>
    /\ g[y] = Tail(f[y]) /\ g[z] = Append(f[z], Head(f[y]))
    /\ \A w \in DOMAIN f \ {y, z} : g[w] = f[w]
Dropped(f, g, y) ==
    /\ f[y] # <<>> /\ g[y] = Tail(f[y])
    /\ \A w \in DOMAIN f \ {y} : g[w] = f[w]
Put(f, g, y, s) ==
    /\ f[y] = <<>> /\ g[y] = s
    /\ \A w \in DOMAIN f \ {y} : g[w] = f[w]

\* The indices of jobs that move.
MovedParts(f, g, y, z) ==
    /\ DOMAIN g[y] = 1..(Len(f[y]) - 1) /\ Len(f[y]) \in Nat \ {0}
    /\ DOMAIN f[y] = 1..Len(f[y])
    /\ \A i \in DOMAIN g[y] : g[y][i] = f[y][i + 1]
    /\ DOMAIN f[z] = 1..Len(f[z]) /\ Len(f[z]) \in Nat
    /\ DOMAIN g[z] = 1..(Len(f[z]) + 1)
    /\ \A i \in DOMAIN f[z] : g[z][i] = f[z][i]
    /\ g[z][Len(f[z]) + 1] = f[y][1]
    
\* The head of a sequence comes before the tail.
LEMMA HeadAndTail ==
  ASSUME NEW T, NEW s \in Seq(T), s # <<>>
  PROVE  /\ Len(s) \in Nat \ {0} /\ DOMAIN s = 1..Len(s)
         /\ Head(s) = s[1] /\ Head(s) \in T
         /\ Tail(s) \in Seq(T) /\ Len(Tail(s)) = Len(s) - 1
         /\ DOMAIN Tail(s) = 1..(Len(s) - 1)
         /\ \A i \in 1..(Len(s) - 1) : Tail(s)[i] = s[i + 1]
  OBVIOUS

\* The places of jobs after a move.
LEMMA MovedFrom ==
  ASSUME NEW P, NEW T, NEW f \in [P -> Seq(T)], NEW g \in [P -> Seq(T)],
         NEW y \in P, NEW z \in P, Moved(f, g, y, z)
  PROVE  MovedParts(f, g, y, z)
<1> DEFINE s == f[y]
           r == f[z]
<1>1. s \in Seq(T) /\ r \in Seq(T) /\ s # <<>>
  BY DEF Moved
<1>2. g[y] = Tail(s) /\ g[z] = Append(r, Head(s))
  BY DEF Moved
<1> HIDE DEF s, r
<1>3. /\ Len(s) \in Nat \ {0} /\ DOMAIN s = 1..Len(s)
      /\ Head(s) = s[1] /\ Head(s) \in T
      /\ DOMAIN Tail(s) = 1..(Len(s) - 1)
      /\ \A i \in 1..(Len(s) - 1) : Tail(s)[i] = s[i + 1]
  BY <1>1, HeadAndTail
<1>4. /\ Len(r) \in Nat /\ DOMAIN r = 1..Len(r)
      /\ DOMAIN Append(r, Head(s)) = 1..(Len(r) + 1)
      /\ \A i \in 1..Len(r) : Append(r, Head(s))[i] = r[i]
      /\ Append(r, Head(s))[Len(r) + 1] = Head(s)
  <2>1. Head(s) \in T
    BY <1>3
  <2>2. /\ Append(r, Head(s)) \in Seq(T) /\ Len(Append(r, Head(s))) = Len(r) + 1
        /\ \A i \in 1..Len(r) : Append(r, Head(s))[i] = r[i]
        /\ Append(r, Head(s))[Len(r) + 1] = Head(s)
    BY <1>1, <2>1, AppendProperties
  <2> QED
    BY <1>1, <2>2, LenProperties
<1> QED
  BY <1>2, <1>3, <1>4 DEF s, r, MovedParts

\* A move keeps the jobs.
LEMMA MovedKeeps ==
  ASSUME NEW P, NEW T, NEW f \in [P -> Seq(T)], NEW g \in [P -> Seq(T)],
         NEW y \in P, NEW z \in P, Moved(f, g, y, z), NEW J
  PROVE  /\ SomeIn(g, J) <=> SomeIn(f, J)
         /\ SingleIn(f, J) => SingleIn(g, J)
<1> DEFINE From(w, i, u, k) ==
             \/ w = y /\ u = y /\ k = i + 1
             \/ w = z /\ i # Len(f[z]) + 1 /\ u = z /\ k = i
             \/ w = z /\ i = Len(f[z]) + 1 /\ u = y /\ k = 1
             \/ w \notin {y, z} /\ u = w /\ k = i
<1>1. DOMAIN f = P /\ DOMAIN g = P /\ y # z
  BY DEF Moved
<1>2. \A w \in P \ {y, z} : g[w] = f[w]
  BY <1>1 DEF Moved
<1>0. MovedParts(f, g, y, z)
  BY MovedFrom
<1>3. /\ DOMAIN g[y] = 1..(Len(f[y]) - 1) /\ Len(f[y]) \in Nat \ {0}
      /\ DOMAIN f[y] = 1..Len(f[y])
      /\ \A i \in DOMAIN g[y] : g[y][i] = f[y][i + 1]
      /\ DOMAIN f[z] = 1..Len(f[z]) /\ Len(f[z]) \in Nat
      /\ DOMAIN g[z] = 1..(Len(f[z]) + 1)
      /\ \A i \in DOMAIN f[z] : g[z][i] = f[z][i]
      /\ g[z][Len(f[z]) + 1] = f[y][1]
  BY <1>0 DEF MovedParts
<1>4. ASSUME NEW w \in P, NEW i \in DOMAIN g[w]
      PROVE  \E u \in P : \E k \in DOMAIN f[u] : From(w, i, u, k) /\ f[u][k] = g[w][i]
  <2>1. CASE w = y
    <3>1. i \in DOMAIN g[y]
      BY <2>1
    <3>2. i \in 1..(Len(f[y]) - 1) /\ Len(f[y]) \in Nat
      BY <3>1, <1>3
    <3>3. i + 1 \in 1..Len(f[y])
      BY <3>2
    <3>4. i + 1 \in DOMAIN f[y] /\ f[y][i + 1] = g[y][i]
      BY <3>1, <3>3, <1>3
    <3> QED
      BY <2>1, <3>4
  <2>2. CASE w = z /\ i # Len(f[z]) + 1
    <3>1. i \in DOMAIN f[z] /\ f[z][i] = g[w][i]
      BY <2>2, <1>3
    <3> QED
      BY <2>2, <3>1
  <2>3. CASE w = z /\ i = Len(f[z]) + 1
    <3>1. 1 \in DOMAIN f[y] /\ f[y][1] = g[w][i]
      BY <2>3, <1>1, <1>3
    <3> QED
      BY <2>3, <3>1
  <2>4. CASE w \notin {y, z}
    BY <2>4, <1>1, <1>2
  <2> QED
    BY <2>1, <2>2, <2>3, <2>4
<1>5. ASSUME NEW u \in P, NEW k \in DOMAIN f[u]
      PROVE  \E w \in P : \E i \in DOMAIN g[w] : g[w][i] = f[u][k]
  <2>1. CASE u = y /\ k = 1
    <3>1. Len(f[z]) + 1 \in DOMAIN g[z] /\ g[z][Len(f[z]) + 1] = f[u][k]
      BY <2>1, <1>3
    <3> QED
      BY <3>1
  <2>2. CASE u = y /\ k # 1
    <3>1. k - 1 \in DOMAIN g[y]
      BY <2>2, <1>3
    <3>2. g[y][k - 1] = f[y][(k - 1) + 1] /\ (k - 1) + 1 = k
      BY <2>2, <3>1, <1>3
    <3> QED
      BY <2>2, <3>1, <3>2
  <2>3. CASE u = z
    <3>1. k \in DOMAIN g[z] /\ g[z][k] = f[z][k]
      BY <2>3, <1>3
    <3> QED
      BY <2>3, <3>1
  <2>4. CASE u \notin {y, z}
    BY <2>4, <1>1, <1>2
  <2> QED
    BY <2>1, <2>2, <2>3, <2>4
<1>6. SomeIn(g, J) => SomeIn(f, J)
  BY <1>1, <1>4 DEF SomeIn
<1>7. SomeIn(f, J) => SomeIn(g, J)
  BY <1>1, <1>5 DEF SomeIn
<1>8. ASSUME SingleIn(f, J) PROVE SingleIn(g, J)
  <2> SUFFICES ASSUME NEW w \in P, NEW v \in P, NEW i \in DOMAIN g[w], NEW k \in DOMAIN g[v],
                      g[w][i] \in J, g[v][k] \in J
               PROVE  w = v /\ i = k
    BY <1>1 DEF SingleIn
  <2>1. PICK u1 \in P : \E k1 \in DOMAIN f[u1] : From(w, i, u1, k1) /\ f[u1][k1] = g[w][i]
    BY <1>4
  <2>2. PICK k1 \in DOMAIN f[u1] : From(w, i, u1, k1) /\ f[u1][k1] = g[w][i]
    BY <2>1
  <2>3. PICK u2 \in P : \E k2 \in DOMAIN f[u2] : From(v, k, u2, k2) /\ f[u2][k2] = g[v][k]
    BY <1>4
  <2>4. PICK k2 \in DOMAIN f[u2] : From(v, k, u2, k2) /\ f[u2][k2] = g[v][k]
    BY <2>3
  <2>5. u1 = u2 /\ k1 = k2
    BY <2>2, <2>4, <1>1, <1>8 DEF SingleIn
  <2>6. i \in 1..Len(g[w]) /\ k \in 1..Len(g[v])
    BY <1>1
  <2>7. i \in Int /\ k \in Int /\ i >= 1 /\ k >= 1
    BY <2>6
  <2>8. From(w, i, u1, k1) /\ From(v, k, u1, k1)
    BY <2>2, <2>4, <2>5
  <2> DEFINE into == IF u1 = y THEN IF k1 = 1 THEN z ELSE y ELSE u1
  <2>9. w = into
    BY <2>7, <2>8, <1>1
  <2>10. v = into
    BY <2>7, <2>8, <1>1
  <2>11. i = k
    BY <2>7, <2>8, <2>9, <2>10, <1>1
  <2> QED
    BY <2>9, <2>10, <2>11
<1> QED
  BY <1>6, <1>7, <1>8

\* A job that is dropped is gone; the others stay.
LEMMA DroppedKeeps ==
  ASSUME NEW P, NEW T, NEW f \in [P -> Seq(T)], NEW g \in [P -> Seq(T)],
         NEW y \in P, Dropped(f, g, y), NEW J
  PROVE  /\ SingleIn(f, J) => SingleIn(g, J)
         /\ Head(f[y]) \notin J => (SomeIn(g, J) <=> SomeIn(f, J))
         /\ Head(f[y]) \in J => SomeIn(f, J) /\ (SingleIn(f, J) => ~SomeIn(g, J))
<1> DEFINE s == f[y]
<1>1. s \in Seq(T) /\ s # <<>> /\ g[y] = Tail(s)
  BY DEF Dropped
<1> HIDE DEF s
<1>2. /\ Len(s) \in Nat \ {0} /\ DOMAIN s = 1..Len(s)
      /\ Head(s) = s[1]
      /\ DOMAIN g[y] = 1..(Len(s) - 1)
      /\ \A i \in 1..(Len(s) - 1) : g[y][i] = s[i + 1]
  BY <1>1, HeadAndTail
<1>3. DOMAIN f = P /\ DOMAIN g = P
  OBVIOUS
<1>4. \A w \in P \ {y} : g[w] = f[w]
  BY <1>3 DEF Dropped
<1>5. 1 \in DOMAIN f[y] /\ f[y][1] = Head(f[y])
  BY <1>2 DEF s
<1>6. ASSUME NEW w \in P, NEW i \in DOMAIN g[w]
      PROVE  /\ w = y => i \in Nat \ {0} /\ i + 1 \in DOMAIN f[w] /\ f[w][i + 1] = g[w][i]
             /\ w # y => i \in DOMAIN f[w] /\ f[w][i] = g[w][i]
  <2>1. CASE w = y
    <3>1. i \in 1..(Len(s) - 1) /\ Len(s) \in Nat
      BY <2>1, <1>2
    <3>2. i + 1 \in 1..Len(s) /\ i \in Nat \ {0}
      BY <3>1
    <3> QED
      BY <2>1, <3>1, <3>2, <1>2 DEF s
  <2>2. CASE w # y
    BY <2>2, <1>4
  <2> QED
    BY <2>1, <2>2
<1>7. ASSUME NEW u \in P, NEW k \in DOMAIN f[u], ~ (u = y /\ k = 1)
      PROVE  \E i \in DOMAIN g[u] : g[u][i] = f[u][k]
  <2>1. CASE u = y
    <3>1. k \in 1..Len(s) /\ k # 1 /\ Len(s) \in Nat
      BY <2>1, <1>2, <1>7 DEF s
    <3>2. k - 1 \in 1..(Len(s) - 1) /\ (k - 1) + 1 = k
      BY <3>1
    <3>3. g[y][k - 1] = s[(k - 1) + 1] /\ k - 1 \in DOMAIN g[y]
      BY <3>2, <1>2
    <3> QED
      BY <2>1, <3>2, <3>3 DEF s
  <2>2. CASE u # y
    BY <2>2, <1>4
  <2> QED
    BY <2>1, <2>2
<1>8. ASSUME SingleIn(f, J) PROVE SingleIn(g, J)
  <2> SUFFICES ASSUME NEW w \in P, NEW v \in P, NEW i \in DOMAIN g[w], NEW k \in DOMAIN g[v],
                      g[w][i] \in J, g[v][k] \in J
               PROVE  w = v /\ i = k
    BY <1>3 DEF SingleIn
  <2>1. PICK i1 \in DOMAIN f[w] : f[w][i1] = g[w][i] /\ i1 = IF w = y THEN i + 1 ELSE i
    BY <1>6
  <2>2. PICK k1 \in DOMAIN f[v] : f[v][k1] = g[v][k] /\ k1 = IF v = y THEN k + 1 ELSE k
    BY <1>6
  <2>3. w = v /\ i1 = k1
    BY <2>1, <2>2, <1>3, <1>8 DEF SingleIn
  <2>4. w = y => i \in Nat /\ k \in Nat
    BY <2>3, <1>6
  <2> QED
    BY <2>1, <2>2, <2>3, <2>4
<1>9. SomeIn(g, J) => SomeIn(f, J)
  <2> SUFFICES ASSUME NEW w \in P, NEW i \in DOMAIN g[w], g[w][i] \in J
               PROVE  \E k \in DOMAIN f[w] : f[w][k] \in J
    BY <1>3 DEF SomeIn
  <2> QED
    BY <1>6
<1>10. ASSUME Head(f[y]) \notin J, SomeIn(f, J) PROVE SomeIn(g, J)
  <2>1. PICK u \in P : \E k \in DOMAIN f[u] : f[u][k] \in J
    BY <1>10, <1>3 DEF SomeIn
  <2>2. PICK k \in DOMAIN f[u] : f[u][k] \in J
    BY <2>1
  <2>3. ~ (u = y /\ k = 1)
    BY <2>2, <1>5, <1>10
  <2> QED
    BY <2>2, <2>3, <1>3, <1>7 DEF SomeIn
<1>11. ASSUME Head(f[y]) \in J, SingleIn(f, J), SomeIn(g, J) PROVE FALSE
  <2>1. PICK w \in P : \E i \in DOMAIN g[w] : g[w][i] \in J
    BY <1>11, <1>3 DEF SomeIn
  <2>2. PICK i \in DOMAIN g[w] : g[w][i] \in J
    BY <2>1
  <2>3. PICK i1 \in DOMAIN f[w] : f[w][i1] = g[w][i] /\ (w = y => i1 = i + 1 /\ i \in Nat \ {0})
    BY <1>6
  <2>4. w = y /\ i1 = 1
    BY <2>2, <2>3, <1>3, <1>5, <1>11 DEF SingleIn
  <2> QED
    BY <2>3, <2>4
<1>12. Head(f[y]) \in J => SomeIn(f, J)
  BY <1>3, <1>5 DEF SomeIn
<1> QED
  BY <1>8, <1>9, <1>10, <1>11, <1>12

\* A job is there after a put, if it was before or was put.
LEMMA PutAdds ==
  ASSUME NEW P, NEW T, NEW f \in [P -> Seq(T)], NEW g \in [P -> Seq(T)],
         NEW y \in P, NEW s, Put(f, g, y, s), NEW J
  PROVE  SomeIn(g, J) <=> SomeIn(f, J) \/ OneIn(s, J)
<1>1. DOMAIN f = P /\ DOMAIN g = P /\ g[y] = s
  BY DEF Put
<1>2. \A w \in P \ {y} : g[w] = f[w]
  BY <1>1 DEF Put
<1>3. DOMAIN f[y] = {}
  <2>1. f[y] = <<>>
    BY DEF Put
  <2> QED
    BY <2>1
<1> QED
  BY <1>1, <1>2, <1>3 DEF SomeIn, OneIn

\* A job stays the only one of its kind after a put of others, and is the only
\* one if it alone is put.
LEMMA PutKeeps ==
  ASSUME NEW P, NEW T, NEW f \in [P -> Seq(T)], NEW g \in [P -> Seq(T)],
         NEW y \in P, NEW s, Put(f, g, y, s), NEW J
  PROVE  /\ SingleIn(f, J) /\ (\A i \in DOMAIN s : s[i] \notin J) => SingleIn(g, J)
         /\ ~SomeIn(f, J) /\ (\A i, k \in DOMAIN s : s[i] \in J /\ s[k] \in J => i = k)
               => SingleIn(g, J)
<1>1. DOMAIN f = P /\ DOMAIN g = P /\ g[y] = s
  BY DEF Put
<1>2. \A w \in P \ {y} : g[w] = f[w]
  BY <1>1 DEF Put
<1>3. DOMAIN f[y] = {}
  <2>1. f[y] = <<>>
    BY DEF Put
  <2> QED
    BY <2>1
<1>5. ASSUME SingleIn(f, J), \A i \in DOMAIN s : s[i] \notin J PROVE SingleIn(g, J)
  <2> SUFFICES ASSUME NEW w \in P, NEW v \in P, NEW i \in DOMAIN g[w], NEW k \in DOMAIN g[v],
                      g[w][i] \in J, g[v][k] \in J
               PROVE  w = v /\ i = k
    BY <1>1 DEF SingleIn
  <2>1. w # y /\ v # y
    BY <1>1, <1>5
  <2> QED
    BY <2>1, <1>1, <1>2, <1>5 DEF SingleIn
<1>6. ASSUME ~SomeIn(f, J), \A i, k \in DOMAIN s : s[i] \in J /\ s[k] \in J => i = k
      PROVE  SingleIn(g, J)
  <2> SUFFICES ASSUME NEW w \in P, NEW v \in P, NEW i \in DOMAIN g[w], NEW k \in DOMAIN g[v],
                      g[w][i] \in J, g[v][k] \in J
               PROVE  w = v /\ i = k
    BY <1>1 DEF SingleIn
  <2>1. w = y /\ v = y
    BY <1>1, <1>2, <1>6 DEF SomeIn
  <2> QED
    BY <2>1, <1>1, <1>6
<1> QED
  BY <1>5, <1>6

-----------------------------------------------------------------------------
(***************************************************************************)
(* The table of sinks.                                                     *)
(***************************************************************************)
TableType ==
    /\ table \in Seq(Sink) /\ Len(table) <= MaxSinks
    /\ next_id \in Nat /\ over \in 0..MaxSinks
    /\ fmt \in Nat /\ gen \in 1..(GenWidth - 1)

\* A function on 1..n with values in S is a sequence.
LEMMA FunctionIsSeq ==
  ASSUME NEW S, NEW n \in Nat, NEW f \in [1..n -> S]
  PROVE  f \in Seq(S) /\ Len(f) = n /\ DOMAIN f = 1..n
  OBVIOUS

\* The increasing sequence of a set of indices has each of them once.
LEMMA InOrderOnce ==
  ASSUME NEW n \in Nat, NEW I \in SUBSET (1..n), NEW f \in InOrder(I)
  PROVE  /\ Cardinality(I) \in 0..n /\ f \in [1..Cardinality(I) -> I]
         /\ \A k \in I : \E i \in DOMAIN f : f[i] = k
         /\ \A i, j \in DOMAIN f : f[i] = f[j] => i = j
<1>1. IsFiniteSet(1..n) /\ Cardinality(1..n) = n
  <2>1. 1 \in Int /\ n \in Int
    OBVIOUS
  <2>2. IsFiniteSet(1..n) /\ Cardinality(1..n) = IF 1 > n THEN 0 ELSE n - 1 + 1
    BY <2>1, FS_Interval
  <2> QED
    BY <2>2
<1>2. IsFiniteSet(I) /\ Cardinality(I) <= n
  BY <1>1, FS_Subset
<1>3. Cardinality(I) \in Nat
  BY <1>2, FS_CardinalityType
<1>4. f \in [1..Cardinality(I) -> I] /\ Range(f) = I
  BY DEF InOrder
<1>5. \A k \in I : \E i \in DOMAIN f : f[i] = k
  BY <1>4 DEF Range
<1>6. ASSUME NEW i \in DOMAIN f, NEW j \in DOMAIN f, i < j PROVE f[i] < f[j]
  BY <1>6 DEF InOrder
<1>7. ASSUME NEW i \in DOMAIN f, NEW j \in DOMAIN f, f[i] = f[j] PROVE i = j
  <2> DEFINE c == Cardinality(I)
  <2>0. f \in [1..c -> I] /\ c \in Nat
    BY <1>3, <1>4
  <2> HIDE DEF c
  <2>1. i \in 1..c /\ j \in 1..c /\ f[i] \in 1..n
    BY <2>0
  <2>2. ~ (i < j) /\ ~ (j < i)
    BY <2>1, <1>6, <1>7
  <2> QED
    BY <2>0, <2>1, <2>2
<1> QED
  BY <1>2, <1>3, <1>4, <1>5, <1>7

\* At most all sinks have an override, and none has one if the count is 0.
LEMMA OverCounted ==
  ASSUME NEW tab \in Seq(Sink)
  PROVE  /\ OverCount(tab) \in 0..Len(tab)
         /\ OverCount(tab) = 0 => \A k \in DOMAIN tab : ~tab[k].own.set
<1> DEFINE I == {k \in DOMAIN tab : tab[k].own.set}
<1>1. Len(tab) \in Nat /\ DOMAIN tab = 1..Len(tab)
  OBVIOUS
<1>2. IsFiniteSet(1..Len(tab)) /\ Cardinality(1..Len(tab)) = Len(tab)
  <2>1. 1 \in Int /\ Len(tab) \in Int
    BY <1>1
  <2>2. /\ IsFiniteSet(1..Len(tab))
        /\ Cardinality(1..Len(tab)) = IF 1 > Len(tab) THEN 0 ELSE Len(tab) - 1 + 1
    BY <2>1, FS_Interval
  <2> QED
    BY <1>1, <2>2
<1>3. I \in SUBSET (1..Len(tab))
  BY <1>1
<1>4. IsFiniteSet(I) /\ Cardinality(I) <= Len(tab)
  BY <1>2, <1>3, FS_Subset
<1>5. Cardinality(I) \in Nat
  BY <1>4, FS_CardinalityType
<1>6. Cardinality(I) = 0 => I = {}
  BY <1>4, FS_EmptySet
<1>7. OverCount(tab) = Cardinality(I)
  BY DEF OverCount
<1>8. I = {} => \A k \in DOMAIN tab : ~tab[k].own.set
  OBVIOUS
<1> QED
  BY <1>1, <1>4, <1>5, <1>6, <1>7, <1>8

\* What an operation does to the table: a sink more, one less, or a sink
\* whose settings change.
Grows ==
    \E s \in Sink : /\ s.id = next_id /\ s.own = NoOverride
                    /\ Len(table) < MaxSinks
                    /\ table' = Append(table, s) /\ next_id' = next_id + 1
Shrinks ==
    \E k \in DOMAIN table : table' = Without(k) /\ next_id' = next_id
EditedAt(k) ==
    /\ table' \in Seq(Sink) /\ Len(table') = Len(table)
    /\ table'[k].id = table[k].id
    /\ \A j \in 1..Len(table) : j # k => table'[j] = table[j]
    /\ next_id' = next_id
Edits == \E k \in DOMAIN table : EditedAt(k)

\* A sink that replaces one with the same identifier.
LEMMA ReplacedSink ==
  ASSUME TableType, NEW k \in DOMAIN table, NEW e \in Sink, e.id = table[k].id,
         table' = [table EXCEPT ![k] = e], next_id' = next_id
  PROVE  EditedAt(k) /\ table'[k] = e
<1>1. k \in 1..Len(table) /\ table \in Seq(Sink)
  BY DEF TableType
<1>2. /\ table' \in Seq(Sink) /\ Len(table') = Len(table)
      /\ \A j \in 1..Len(table) : table'[j] = IF j = k THEN e ELSE table[j]
  BY <1>1, ExceptSeq
<1> QED
  BY <1>1, <1>2 DEF EditedAt

\* A change of a sink's override edits the table (hx_clog_set_sink_pattern,
\* hx_clog_set_sink_format_mode).
LEMMA SetOwnEdits ==
  ASSUME TableType, NEW i, NEW own \in Override, SetOwn(i, own)
  PROVE  Edits /\ over' = OverCount(table') /\ UNCHANGED <<fmt, gen>>
<1>1. PICK k \in Find(i) : table' = [table EXCEPT ![k].own = own]
  BY DEF SetOwn
<1>2. k \in DOMAIN table /\ table[k] \in Sink
  BY DEF Find, TableType
<1> DEFINE e == [table[k] EXCEPT !.own = own]
<1>3. e \in Sink /\ e.id = table[k].id
  BY <1>2 DEF Sink
<1>4. table' = [table EXCEPT ![k] = e]
  BY <1>1, <1>2
<1>5. next_id' = next_id /\ over' = OverCount(table') /\ UNCHANGED <<fmt, gen>>
  BY DEF SetOwn, Recompute
<1> HIDE DEF e
<1>6. EditedAt(k)
  BY <1>2, <1>3, <1>4, <1>5, ReplacedSink
<1> QED
  BY <1>2, <1>5, <1>6 DEF Edits

\* Tables in which the same sinks have an override have the same count.
LEMMA SameOverrides ==
  ASSUME NEW a, NEW b,
         \A k : k \in DOMAIN a /\ a[k].own.set <=> k \in DOMAIN b /\ b[k].own.set
  PROVE  OverCount(a) = OverCount(b)
<1>1. {k \in DOMAIN a : a[k].own.set} = {k \in DOMAIN b : b[k].own.set}
  OBVIOUS
<1> QED
  BY <1>1 DEF OverCount

\* A new minimum level edits the table (hx_clog_set_sink_level).
LEMMA SetLevelEdits ==
  ASSUME TableType, TableAgrees, NEW i, NEW m \in Levels, SetSinkLevel(i, m)
  PROVE  Edits /\ over' = OverCount(table') /\ UNCHANGED <<fmt, gen>>
<1>1. PICK k \in Find(i) : table' = [table EXCEPT ![k].min = m]
  BY DEF SetSinkLevel
<1>2. k \in DOMAIN table /\ table[k] \in Sink
  BY DEF Find, TableType
<1> DEFINE e == [table[k] EXCEPT !.min = m]
<1>3. e \in Sink /\ e.id = table[k].id /\ e.own = table[k].own
  BY <1>2 DEF Sink
<1>4. table' = [table EXCEPT ![k] = e]
  BY <1>1, <1>2
<1>5. next_id' = next_id /\ over' = over /\ UNCHANGED <<fmt, gen>>
  BY DEF SetSinkLevel
<1> HIDE DEF e
<1>6. EditedAt(k) /\ table'[k] = e
  BY <1>2, <1>3, <1>4, <1>5, ReplacedSink
<1>7. DOMAIN table' = DOMAIN table /\ \A j \in DOMAIN table : table'[j].own = table[j].own
  <2>1. table \in Seq(Sink) /\ table' \in Seq(Sink) /\ Len(table') = Len(table)
    BY <1>6 DEF EditedAt, TableType
  <2>2. DOMAIN table' = 1..Len(table) /\ DOMAIN table = 1..Len(table)
    BY <2>1
  <2> QED
    BY <1>3, <1>6, <2>2 DEF EditedAt
<1>8. OverCount(table) = OverCount(table')
  BY <1>7, SameOverrides
<1> QED
  BY <1>2, <1>5, <1>6, <1>8 DEF Edits, TableAgrees

\* A new sink has no override (hx_clog_add_callback_sink_ex).
LEMMA AddSinkGrows ==
  ASSUME TableType, TableAgrees, NEW cb \in BOOLEAN, AddSink(cb)
  PROVE  Grows /\ over' = OverCount(table') /\ UNCHANGED <<fmt, gen>>
<1> DEFINE s == NewSink(cb)
<1>1. s \in Sink /\ s.id = next_id /\ s.own = NoOverride
  BY SinksAssumption DEF NewSink, Sink, NoOverride, Override, TableType, SinksAssumption
<1>2. ~s.own.set
  BY <1>1 DEF NoOverride
<1>3. /\ Len(table) < MaxSinks /\ table' = Append(table, s)
      /\ next_id' = next_id + 1 /\ over' = over /\ UNCHANGED <<fmt, gen>>
  BY DEF AddSink
<1> HIDE DEF s
<1>4. /\ table' \in Seq(Sink) /\ Len(table') = Len(table) + 1
      /\ \A i \in 1..Len(table) : table'[i] = table[i]
      /\ table'[Len(table) + 1] = s
  BY <1>1, <1>3, AppendProperties DEF TableType
<1>5. /\ DOMAIN table = 1..Len(table) /\ DOMAIN table' = 1..(Len(table) + 1)
      /\ Len(table) \in Nat
  BY <1>4 DEF TableType
<1>6. \A k : k \in DOMAIN table /\ table[k].own.set <=> k \in DOMAIN table' /\ table'[k].own.set
  BY <1>2, <1>4, <1>5
<1>7. OverCount(table) = OverCount(table')
  BY <1>6, SameOverrides
<1> QED
  BY <1>1, <1>3, <1>7 DEF Grows, TableAgrees

\* Every operation on the table is of one of these forms, and the count of
\* overrides follows it.
LEMMA TableOps ==
  ASSUME TableType, TableAgrees, TableOp
  PROVE  /\ Grows \/ Shrinks \/ Edits
         /\ over' = OverCount(table') /\ UNCHANGED <<fmt, gen>>
<1>1. ASSUME NEW cb \in BOOLEAN, AddSink(cb)
      PROVE  Grows /\ over' = OverCount(table') /\ UNCHANGED <<fmt, gen>>
  BY <1>1, AddSinkGrows
<1>2. ASSUME NEW i, RemoveSink(i)
      PROVE  Shrinks /\ over' = OverCount(table') /\ UNCHANGED <<fmt, gen>>
  BY <1>2 DEF RemoveSink, Shrinks, Find, Recompute
<1>3. ASSUME NEW i, SetSinkPattern(i)
      PROVE  Edits /\ over' = OverCount(table') /\ UNCHANGED <<fmt, gen>>
  <2> DEFINE own == [set |-> TRUE, mode |-> "PATTERN", pattern |-> TRUE]
  <2>1. own \in Override
    BY DEF Override
  <2>2. SetOwn(i, own)
    BY <1>3 DEF SetSinkPattern
  <2> HIDE DEF own
  <2> QED
    BY <2>1, <2>2, SetOwnEdits
<1>4. ASSUME NEW i, ClearSinkPattern(i)
      PROVE  Edits /\ over' = OverCount(table') /\ UNCHANGED <<fmt, gen>>
  <2>1. PICK k \in Find(i) : SetOwn(i, [table[k].own EXCEPT !.set = FALSE, !.pattern = FALSE])
    BY <1>4 DEF ClearSinkPattern
  <2> DEFINE own == [table[k].own EXCEPT !.set = FALSE, !.pattern = FALSE]
  <2>2. table[k] \in Sink
    BY DEF Find, TableType
  <2>3. table[k].own \in Override
    BY <2>2 DEF Sink
  <2>4. own \in Override
    BY <2>3 DEF Override
  <2> HIDE DEF own
  <2> QED
    BY <2>1, <2>4, SetOwnEdits DEF own
<1>5. ASSUME NEW i, NEW m \in Levels, SetSinkLevel(i, m)
      PROVE  Edits /\ over' = OverCount(table') /\ UNCHANGED <<fmt, gen>>
  BY <1>5, SetLevelEdits
<1>6. ASSUME NEW i, NEW m \in {"PATTERN", "JSON"}, SetSinkMode(i, m)
      PROVE  Edits /\ over' = OverCount(table') /\ UNCHANGED <<fmt, gen>>
  <2>1. PICK k \in Find(i) : SetOwn(i, [table[k].own EXCEPT !.set = TRUE, !.mode = m])
    BY <1>6 DEF SetSinkMode
  <2> DEFINE own == [table[k].own EXCEPT !.set = TRUE, !.mode = m]
  <2>2. table[k] \in Sink
    BY DEF Find, TableType
  <2>3. table[k].own \in Override
    BY <2>2 DEF Sink
  <2>4. own \in Override
    BY <2>3 DEF Override
  <2> HIDE DEF own
  <2> QED
    BY <2>1, <2>4, SetOwnEdits DEF own
<1> QED
  BY <1>1, <1>2, <1>3, <1>4, <1>5, <1>6 DEF TableOp

\* The identifiers of a table, as far as they are given out.
IdsUnique(tab, next) ==
    /\ next >= 1 /\ \A i \in DOMAIN tab : tab[i].id \in 1..(next - 1)
    /\ \A i, j \in DOMAIN tab : tab[i].id = tab[j].id => i = j

\* Removing a sink moves the later ones up (hx_clog_remove_sink).
LEMMA WithoutKeeps ==
  ASSUME TableType, NEW k \in DOMAIN table
  PROVE  /\ Without(k) \in Seq(Sink) /\ Len(Without(k)) = Len(table) - 1
         /\ DOMAIN Without(k) = 1..(Len(table) - 1)
         /\ \A j \in 1..(Len(table) - 1) :
               Without(k)[j] = IF j < k THEN table[j] ELSE table[j + 1]
<1>1. /\ Len(table) \in Nat \ {0} /\ DOMAIN table = 1..Len(table)
      /\ table \in [1..Len(table) -> Sink]
  BY DEF TableType
<1> DEFINE n == Len(table) - 1
           f == [j \in 1..n |-> IF j < k THEN table[j] ELSE table[j + 1]]
<1>2. n \in Nat /\ n = Len(table) - 1
  BY <1>1
<1>3. \A j \in 1..n : (IF j < k THEN table[j] ELSE table[j + 1]) \in Sink
  <2> SUFFICES ASSUME NEW j \in 1..n
               PROVE  (IF j < k THEN table[j] ELSE table[j + 1]) \in Sink
    OBVIOUS
  <2>1. j \in 1..Len(table) /\ j + 1 \in 1..Len(table)
    BY <1>1
  <2> QED
    BY <1>1, <2>1
<1>4. f \in [1..n -> Sink]
  BY <1>3
<1>5. Without(k) = f
  BY DEF Without
<1>6. \A j \in 1..n : f[j] = IF j < k THEN table[j] ELSE table[j + 1]
  OBVIOUS
<1> HIDE DEF f, n
<1>7. f \in Seq(Sink) /\ Len(f) = n /\ DOMAIN f = 1..n
  BY <1>2, <1>4, FunctionIsSeq
<1> QED
  BY <1>2, <1>5, <1>6, <1>7

\* After an operation the table has its type, and unique identifiers.
LEMMA TableOpKeeps ==
  ASSUME SinksAssumption, TableType, TableAgrees, Grows \/ Shrinks \/ Edits
  PROVE  /\ table' \in Seq(Sink) /\ Len(table') <= MaxSinks
         /\ next_id' \in Nat /\ IdsUnique(table', next_id')
<1>1. /\ Len(table) \in Nat /\ DOMAIN table = 1..Len(table) /\ table \in Seq(Sink)
      /\ Len(table) <= MaxSinks /\ next_id \in Nat /\ MaxSinks \in Nat
  BY DEF TableType, SinksAssumption
<1>2. next_id >= 1
  BY DEF TableAgrees
<1>3. \A i \in 1..Len(table) : table[i].id \in 1..(next_id - 1)
  BY <1>1 DEF TableAgrees
<1>4. \A i, j \in 1..Len(table) : table[i].id = table[j].id => i = j
  BY <1>1 DEF TableAgrees
<1>5. CASE Grows
  <2>1. PICK s \in Sink : /\ s.id = next_id /\ Len(table) < MaxSinks
                          /\ table' = Append(table, s) /\ next_id' = next_id + 1
    BY <1>5 DEF Grows
  <2>2. /\ table' \in Seq(Sink) /\ Len(table') = Len(table) + 1
        /\ \A i \in 1..Len(table) : table'[i] = table[i]
        /\ table'[Len(table) + 1] = s
    BY <1>1, <2>1, AppendProperties
  <2>3. DOMAIN table' = 1..(Len(table) + 1)
    BY <2>2
  <2>4. \A i \in 1..(Len(table) + 1) : table'[i].id \in 1..(next_id' - 1)
    BY <1>1, <1>2, <1>3, <2>1, <2>2
  <2>5. \A i, j \in 1..(Len(table) + 1) : table'[i].id = table'[j].id => i = j
    BY <1>1, <1>2, <1>3, <1>4, <2>1, <2>2
  <2>6. Len(table') <= MaxSinks /\ next_id' \in Nat /\ next_id' >= 1
    BY <1>1, <1>2, <2>1, <2>2
  <2> QED
    BY <2>2, <2>3, <2>4, <2>5, <2>6 DEF IdsUnique
<1>6. CASE Shrinks
  <2>1. PICK k \in DOMAIN table : table' = Without(k) /\ next_id' = next_id
    BY <1>6 DEF Shrinks
  <2>2. /\ table' \in Seq(Sink) /\ Len(table') = Len(table) - 1
        /\ DOMAIN table' = 1..(Len(table) - 1)
        /\ \A j \in 1..(Len(table) - 1) : table'[j] = IF j < k THEN table[j] ELSE table[j + 1]
    BY <2>1, WithoutKeeps
  <2>3. ASSUME NEW j \in 1..(Len(table) - 1)
        PROVE  /\ j \in Nat /\ j \in 1..Len(table) /\ j + 1 \in 1..Len(table)
               /\ table'[j].id \in 1..(next_id - 1)
    <3>1. j \in Nat /\ j \in 1..Len(table) /\ j + 1 \in 1..Len(table)
      BY <1>1
    <3>2. table'[j] = table[j] \/ table'[j] = table[j + 1]
      BY <2>2
    <3> QED
      BY <1>3, <3>1, <3>2
  <2>4. ASSUME NEW i \in 1..(Len(table) - 1), NEW j \in 1..(Len(table) - 1),
               table'[i].id = table'[j].id
        PROVE  i = j
    <3>1. PICK a \in 1..Len(table) : a = (IF i < k THEN i ELSE i + 1) /\ table'[i] = table[a]
      BY <2>2, <2>3
    <3>2. PICK b \in 1..Len(table) : b = (IF j < k THEN j ELSE j + 1) /\ table'[j] = table[b]
      BY <2>2, <2>3
    <3>3. a = b
      BY <1>4, <2>4, <3>1, <3>2
    <3>4. i \in Nat /\ j \in Nat /\ k \in Nat
      BY <1>1
    <3> QED
      BY <3>1, <3>2, <3>3, <3>4
  <2>5. Len(table') <= MaxSinks
    BY <1>1, <2>2
  <2> QED
    BY <1>1, <1>2, <2>1, <2>2, <2>3, <2>4, <2>5 DEF IdsUnique
<1>7. CASE Edits
  <2>1. PICK k \in DOMAIN table : EditedAt(k)
    BY <1>7 DEF Edits
  <2>2. /\ table' \in Seq(Sink) /\ Len(table') = Len(table) /\ table'[k].id = table[k].id
        /\ \A j \in 1..Len(table) : j # k => table'[j] = table[j]
        /\ next_id' = next_id
    BY <2>1 DEF EditedAt
  <2>3. DOMAIN table' = 1..Len(table)
    BY <2>2
  <2>4. \A j \in 1..Len(table) : table'[j].id = table[j].id
    BY <2>2
  <2> QED
    BY <1>1, <1>2, <1>3, <1>4, <2>2, <2>3, <2>4 DEF IdsUnique
<1> QED
  BY <1>5, <1>6, <1>7

\* The swap keeps the callback sinks and adds at most one new sink
\* (hx_clog_reconfigure).
LEMMA SwapKeeps ==
  ASSUME SinksAssumption, TableType, TableAgrees, Swap
  PROVE  /\ table' \in Seq(Sink) /\ Len(table') <= MaxSinks
         /\ next_id' \in Nat /\ IdsUnique(table', next_id')
<1> DEFINE I == {k \in DOMAIN table : table[k].cb}
<1>1. PICK f \in InOrder(I) :
         LET kept == [i \in DOMAIN f |-> table[f[i]]]
         IN \/ /\ Len(kept) < MaxSinks
               /\ table' = Append(kept, NewSink(FALSE))
               /\ next_id' = next_id + 1
            \/ Len(kept) = MaxSinks /\ table' = kept /\ UNCHANGED next_id
  BY DEF Swap
<1> DEFINE n == Cardinality(I)
           kept == [i \in DOMAIN f |-> table[f[i]]]
<1>2. /\ Len(table) \in Nat /\ DOMAIN table = 1..Len(table) /\ next_id \in Nat
      /\ \A i \in 1..Len(table) : table[i] \in Sink
      /\ MaxSinks \in Nat /\ Len(table) <= MaxSinks
  BY DEF TableType, SinksAssumption
<1>3. next_id >= 1
  BY DEF TableAgrees
<1>4. \A i \in 1..Len(table) : table[i].id \in 1..(next_id - 1)
  BY <1>2 DEF TableAgrees
<1>5. \A i, j \in 1..Len(table) : table[i].id = table[j].id => i = j
  BY <1>2 DEF TableAgrees
<1>6. I \in SUBSET (1..Len(table))
  BY <1>2
<1> HIDE DEF I
<1>7. /\ n \in 0..Len(table) /\ f \in [1..n -> I]
      /\ \A i, j \in DOMAIN f : f[i] = f[j] => i = j
  BY <1>2, <1>6, InOrderOnce
<1> HIDE DEF n
<1>8. DOMAIN f = 1..n /\ \A i \in 1..n : f[i] \in 1..Len(table)
  BY <1>6, <1>7
<1>9. kept \in [1..n -> Sink] /\ \A i \in 1..n : kept[i] = table[f[i]]
  BY <1>2, <1>8
<1>10. \/ /\ Len(kept) < MaxSinks
          /\ table' = Append(kept, NewSink(FALSE))
          /\ next_id' = next_id + 1
       \/ Len(kept) = MaxSinks /\ table' = kept /\ UNCHANGED next_id
  BY <1>1
<1> HIDE DEF kept
<1>11. n \in Nat
  BY <1>2, <1>7
<1>12. kept \in Seq(Sink) /\ Len(kept) = n /\ DOMAIN kept = 1..n
  BY <1>9, <1>11, FunctionIsSeq
<1>13. \A i \in 1..n : kept[i].id \in 1..(next_id - 1)
  BY <1>4, <1>8, <1>9
<1>14. \A i, j \in 1..n : kept[i].id = kept[j].id => i = j
  BY <1>5, <1>7, <1>8, <1>9
<1>15. CASE Len(kept) = MaxSinks /\ table' = kept /\ UNCHANGED next_id
  BY <1>2, <1>3, <1>12, <1>13, <1>14, <1>15 DEF IdsUnique
<1>16. ASSUME Len(kept) < MaxSinks, next_id' = next_id + 1,
              table' = Append(kept, NewSink(FALSE))
       PROVE  /\ table' \in Seq(Sink) /\ Len(table') <= MaxSinks
              /\ next_id' \in Nat /\ IdsUnique(table', next_id')
  <2> DEFINE s == NewSink(FALSE)
  <2>1. s \in Sink /\ s.id = next_id
    BY <1>2, SinksAssumption DEF NewSink, Sink, NoOverride, Override, SinksAssumption
  <2>2. table' = Append(kept, s)
    BY <1>16
  <2> HIDE DEF s
  <2>3. /\ table' \in Seq(Sink) /\ Len(table') = n + 1
        /\ \A i \in 1..n : table'[i] = kept[i]
        /\ table'[n + 1] = s
    BY <1>12, <2>1, <2>2, AppendProperties
  <2>4. DOMAIN table' = 1..(n + 1)
    BY <2>3
  <2>5. \A i \in 1..(n + 1) : table'[i].id \in 1..(next_id' - 1)
    <3>1. n + 1 \in 1..(n + 1) /\ \A i \in 1..(n + 1) : i \in 1..n \/ i = n + 1
      BY <1>11
    <3>2. (next_id + 1) - 1 = next_id /\ next_id \in 1..next_id
          /\ \A i \in 1..(next_id - 1) : i \in 1..next_id
      BY <1>2, <1>3
    <3>3. next_id' - 1 = next_id
      BY <1>2, <1>16, <3>2
    <3>4. \A i \in 1..(n + 1) : table'[i].id \in 1..next_id
      BY <1>13, <2>1, <2>3, <3>1, <3>2
    <3> QED
      BY <3>3, <3>4
  <2>6. \A i, j \in 1..(n + 1) : table'[i].id = table'[j].id => i = j
    BY <1>2, <1>3, <1>11, <1>13, <1>14, <2>1, <2>3
  <2>7. Len(table') <= MaxSinks /\ next_id' \in Nat /\ next_id' >= 1
    BY <1>2, <1>3, <1>11, <1>12, <1>16, <2>3
  <2> QED
    BY <2>3, <2>4, <2>5, <2>6, <2>7 DEF IdsUnique
<1> QED
  BY <1>10, <1>15, <1>16

\* An operation that removes none of the first p sinks leaves each remaining
\* sink on its side of p.
LEMMA OrderKept ==
  ASSUME SinksAssumption, TableType, TableAgrees, Grows \/ Shrinks \/ Edits,
         NEW p \in 1..Len(table), \A k \in 1..p : table[k].id \in Ids',
         NEW a \in DOMAIN table, NEW b \in DOMAIN table', table'[b] = table[a]
  PROVE  a <= p <=> b <= p
<1>1. /\ Len(table) \in Nat /\ DOMAIN table = 1..Len(table) /\ table \in Seq(Sink)
      /\ next_id \in Nat
  BY DEF TableType
<1>2. \A i \in 1..Len(table) : table[i].id \in 1..(next_id - 1)
  BY <1>1 DEF TableAgrees
<1>3. \A i, j \in 1..Len(table) : table[i].id = table[j].id => i = j
  BY <1>1 DEF TableAgrees
<1>4. a \in 1..Len(table) /\ a \in Nat /\ p \in Nat
  BY <1>1
<1>5. CASE Grows
  <2>1. PICK s \in Sink : s.id = next_id /\ table' = Append(table, s)
    BY <1>5 DEF Grows
  <2>2. /\ table' \in Seq(Sink) /\ Len(table') = Len(table) + 1
        /\ \A i \in 1..Len(table) : table'[i] = table[i]
        /\ table'[Len(table) + 1] = s
    BY <1>1, <2>1, AppendProperties
  <2>3. b \in 1..(Len(table) + 1)
    BY <2>2
  <2>4. b # Len(table) + 1
    <3>1. table[a].id # next_id
      BY <1>1, <1>2, <1>4
    <3> QED
      BY <2>1, <2>2, <3>1
  <2>5. b \in 1..Len(table)
    BY <1>1, <2>3, <2>4
  <2>6. a = b
    BY <1>3, <1>4, <2>2, <2>5
  <2> QED
    BY <2>6
<1>6. CASE Shrinks
  <2>1. PICK k \in DOMAIN table : table' = Without(k)
    BY <1>6 DEF Shrinks
  <2>2. /\ DOMAIN table' = 1..(Len(table) - 1)
        /\ \A j \in 1..(Len(table) - 1) : table'[j] = IF j < k THEN table[j] ELSE table[j + 1]
    BY <2>1, WithoutKeeps
  <2>3. \A j \in 1..(Len(table) - 1) :
           \E c \in 1..Len(table) : c = (IF j < k THEN j ELSE j + 1) /\ table'[j] = table[c]
    <3> SUFFICES ASSUME NEW j \in 1..(Len(table) - 1)
                 PROVE  \E c \in 1..Len(table) :
                           c = (IF j < k THEN j ELSE j + 1) /\ table'[j] = table[c]
      OBVIOUS
    <3>1. j \in 1..Len(table) /\ j + 1 \in 1..Len(table)
      BY <1>1
    <3> QED
      BY <2>2, <3>1
  <2>4. k \in 1..Len(table) /\ k \in Nat
    BY <1>1
  <2>5. table[k].id \notin Ids'
    <3> SUFFICES ASSUME NEW j \in 1..(Len(table) - 1), table'[j].id = table[k].id
                 PROVE  FALSE
      BY <2>2 DEF Ids
    <3>1. PICK c \in 1..Len(table) : c = (IF j < k THEN j ELSE j + 1) /\ table'[j] = table[c]
      BY <2>3
    <3>2. c = k
      BY <1>3, <2>4, <3>1
    <3>3. j \in Nat
      BY <1>1
    <3> QED
      BY <2>4, <3>1, <3>2, <3>3
  <2>6. k > p
    BY <1>4, <2>4, <2>5
  <2>7. PICK c \in 1..Len(table) : c = (IF b < k THEN b ELSE b + 1) /\ table'[b] = table[c]
    BY <2>2, <2>3
  <2>8. c = a
    BY <1>3, <1>4, <2>7
  <2>9. b \in Nat
    BY <1>1, <2>2
  <2> QED
    BY <1>4, <2>4, <2>6, <2>7, <2>8, <2>9
<1>7. CASE Edits
  <2>1. PICK k \in DOMAIN table : EditedAt(k)
    BY <1>7 DEF Edits
  <2>2. /\ table' \in Seq(Sink) /\ Len(table') = Len(table) /\ table'[k].id = table[k].id
        /\ \A j \in 1..Len(table) : j # k => table'[j] = table[j]
    BY <2>1 DEF EditedAt
  <2>3. b \in 1..Len(table) /\ \A j \in 1..Len(table) : table'[j].id = table[j].id
    BY <2>2
  <2>4. a = b
    BY <1>3, <1>4, <2>3
  <2> QED
    BY <2>4
<1> QED
  BY <1>5, <1>6, <1>7

-----------------------------------------------------------------------------
(***************************************************************************)
(* Lines that are rendered.                                                *)
(***************************************************************************)
RunType ==
    /\ lock \in Actor \cup {Nobody}
    /\ cache \in [Writer -> [gen : 0..(GenWidth - 1), fmt : Nat]]
    /\ pc \in [Actor -> {"out", "refresh", "render", "snap", "send", "emit"}]
    /\ pos \in [Actor -> Nat]
HeldType ==
    todo \in [Actor -> Seq(Job)] /\ queue \in Seq(Job) /\ dropped \in Seq(Job)
LineType ==
    /\ written \in Nat /\ cur \in [Writer -> 0..MaxLines] /\ sent \in 0..MaxLines
    /\ got \in [Line -> Seq([id : Nat, shape : Shape, fmt : Nat])]
    /\ began \in [Line -> Nat] /\ spoilt \in SUBSET Line /\ ops \in 0..MaxOps
SteadyType == steady \in [Line -> SUBSET Sink]

\* The type invariant in its groups.
LEMMA TypeGroups ==
  SinksTypeOK <=> TableType /\ RunType /\ HeldType /\ LineType /\ SteadyType
BY DEF SinksTypeOK, TableType, RunType, HeldType, LineType, SteadyType

\* What core_dispatch_record hands on: one job counts, and each sink has one
\* job, in its own shape.
Rendered(t, s) ==
    /\ s \in Seq(Job)
    /\ \A i \in DOMAIN s : s[i].line = cur[t] /\ s[i].fmt = cache[t].fmt
    /\ \E i \in DOMAIN s : s[i].counts
    /\ \A i, j \in DOMAIN s : s[i].counts /\ s[j].counts => i = j
    /\ \A k \in DOMAIN table :
          /\ \E i \in DOMAIN s : Routed(s[i], table[k])
          /\ \A i, j \in DOMAIN s :
                Routed(s[i], table[k]) /\ Routed(s[j], table[k]) => i = j
          /\ \A i \in DOMAIN s :
                Routed(s[i], table[k]) => s[i].shape = ShapeFor(table[k])

\* The default line of a thread is a job.
LEMMA DefaultIsJob ==
  ASSUME RunType, LineType, NEW t \in Writer, cur[t] >= 1, NEW c \in BOOLEAN
  PROVE  /\ DefaultJob(t, c) \in Job
         /\ DefaultJob(t, c).line = cur[t] /\ DefaultJob(t, c).fmt = cache[t].fmt
         /\ DefaultJob(t, c).target = 0 /\ DefaultJob(t, c).counts = c
         /\ DefaultJob(t, c).shape = "default"
<1>1. cur[t] \in Line /\ cache[t].fmt \in Nat
  BY DEF RunType, LineType, Line
<1> QED
  BY <1>1 DEF DefaultJob, Job, Shape

\* A variant for a sink with an override is a job for that sink.
LEMMA VariantIsJob ==
  ASSUME RunType, LineType, NEW t \in Writer, cur[t] >= 1, NEW c \in BOOLEAN, NEW s \in Sink
  PROVE  /\ VariantJob(t, s, c) \in Job
         /\ VariantJob(t, s, c).line = cur[t] /\ VariantJob(t, s, c).fmt = cache[t].fmt
         /\ VariantJob(t, s, c).target = s.id /\ VariantJob(t, s, c).counts = c
         /\ VariantJob(t, s, c).shape = OwnShape(s.own)
<1>1. cur[t] \in Line /\ cache[t].fmt \in Nat /\ s.id \in Nat
  BY DEF RunType, LineType, Line, Sink
<1>2. OwnShape(s.own) \in Shape
  BY DEF OwnShape, Shape
<1> QED
  BY <1>1, <1>2 DEF VariantJob, Job

\* Without overrides the default line is all that is rendered.
LEMMA DefaultIsAll ==
  ASSUME TableType, TableAgrees, RunType, LineType,
         NEW t \in Writer, cur[t] >= 1, over = 0
  PROVE  Rendered(t, <<DefaultJob(t, TRUE)>>)
<1> DEFINE j == DefaultJob(t, TRUE)
<1>1. /\ j \in Job /\ j.line = cur[t] /\ j.fmt = cache[t].fmt
      /\ j.target = 0 /\ j.counts /\ j.shape = "default"
  BY DefaultIsJob
<1>2. \A k \in DOMAIN table : ~table[k].own.set
  BY OverCounted DEF TableType, TableAgrees
<1> HIDE DEF j
<1> DEFINE s == <<j>>
<1>3. s \in Seq(Job) /\ DOMAIN s = {1} /\ s[1] = j
  BY <1>1
<1> HIDE DEF s
<1>4. \A k \in DOMAIN table : Routed(s[1], table[k]) /\ s[1].shape = ShapeFor(table[k])
  BY <1>1, <1>2, <1>3 DEF Routed, ShapeFor
<1>5. Rendered(t, s)
  BY <1>1, <1>3, <1>4 DEF Rendered
<1> QED
  BY <1>5 DEF s, j

\* The variants for the sinks of an increasing sequence of indices.
Variants(t, f, wants) ==
    [i \in DOMAIN f |-> VariantJob(t, table[f[i]], VariantCounts(i, wants))]
Owners == {k \in DOMAIN table : table[k].own.set}

VariantsAre(t, f, wants, v, n) ==
    /\ v \in Seq(Job) /\ Len(v) = n /\ DOMAIN v = 1..n
    /\ Owners # {} => n >= 1
    /\ \A i \in 1..n : /\ v[i].line = cur[t] /\ v[i].fmt = cache[t].fmt
                       /\ v[i].counts <=> i = 1 /\ ~wants
    /\ \A i \in 1..n : \A k \in DOMAIN table :
          Routed(v[i], table[k]) <=> k \in Owners /\ f[i] = k
    /\ \A i \in 1..n : \A k \in DOMAIN table :
          Routed(v[i], table[k]) => v[i].shape = ShapeFor(table[k])
    /\ \A k \in Owners : \E i \in 1..n : f[i] = k
    /\ \A i, j \in 1..n : f[i] = f[j] => i = j

\* There is one variant for each sink with an override.
LEMMA VariantsOnce ==
  ASSUME TableType, TableAgrees, RunType, LineType, NEW t \in Writer, cur[t] >= 1,
         NEW wants \in BOOLEAN, NEW f \in InOrder(Owners), NEW v, v = Variants(t, f, wants)
  PROVE  \E n \in Nat : VariantsAre(t, f, wants, v, n)
<1> DEFINE n == Cardinality(Owners)
<1>1. /\ Len(table) \in Nat /\ DOMAIN table = 1..Len(table)
      /\ \A k \in 1..Len(table) : table[k] \in Sink
  BY DEF TableType
<1>2. Owners \in SUBSET (1..Len(table))
  BY <1>1 DEF Owners
<1>3. /\ n \in 0..Len(table) /\ f \in [1..n -> Owners]
      /\ \A k \in Owners : \E i \in DOMAIN f : f[i] = k
      /\ \A i, j \in DOMAIN f : f[i] = f[j] => i = j
  BY <1>1, <1>2, InOrderOnce
<1> HIDE DEF n
<1>4. n \in Nat /\ DOMAIN f = 1..n
  BY <1>1, <1>3
<1>5. \A i \in 1..n : f[i] \in Owners /\ f[i] \in DOMAIN table /\ table[f[i]] \in Sink
  BY <1>1, <1>2, <1>3
<1>6. \A i \in 1..n : v[i] = VariantJob(t, table[f[i]], VariantCounts(i, wants))
  BY <1>4 DEF Variants
<1>7. ASSUME NEW i \in 1..n
      PROVE  /\ v[i] \in Job /\ v[i].line = cur[t] /\ v[i].fmt = cache[t].fmt
             /\ v[i].counts = VariantCounts(i, wants)
             /\ v[i].target = table[f[i]].id /\ v[i].shape = OwnShape(table[f[i]].own)
  <2>1. VariantCounts(i, wants) \in BOOLEAN
    BY DEF VariantCounts
  <2>2. table[f[i]] \in Sink
    BY <1>5
  <2>3. v[i] = VariantJob(t, table[f[i]], VariantCounts(i, wants))
    BY <1>6
  <2> QED
    BY <2>1, <2>2, <2>3, VariantIsJob
<1>8. v \in [1..n -> Job]
  <2>1. DOMAIN v = 1..n /\ v = [i \in 1..n |-> v[i]]
    BY <1>4 DEF Variants
  <2> QED
    BY <2>1, <1>7
<1>9. v \in Seq(Job) /\ Len(v) = n /\ DOMAIN v = 1..n
  BY <1>4, <1>8, FunctionIsSeq
<1>10. Owners # {} => n >= 1
  BY <1>3, <1>4
<1>11. ASSUME NEW i \in 1..n PROVE v[i].counts <=> i = 1 /\ ~wants
  BY <1>7 DEF VariantCounts
<1>12. ASSUME NEW i \in 1..n, NEW k \in DOMAIN table
       PROVE  /\ Routed(v[i], table[k]) <=> k \in Owners /\ f[i] = k
              /\ Routed(v[i], table[k]) => v[i].shape = ShapeFor(table[k])
  <2>1. f[i] \in DOMAIN table /\ f[i] \in Owners
    BY <1>5
  <2>2. v[i].target = table[f[i]].id /\ v[i].target # 0
    <3>1. table[f[i]].id \in 1..(next_id - 1)
      BY <2>1 DEF TableAgrees
    <3>2. table[f[i]].id # 0
      BY <3>1
    <3> QED
      BY <1>7, <3>2
  <2>3. Routed(v[i], table[k]) <=> table[k].id = table[f[i]].id
    BY <2>2 DEF Routed
  <2>4. table[k].id = table[f[i]].id <=> k = f[i]
    BY <2>1 DEF TableAgrees
  <2>5. k = f[i] => v[i].shape = ShapeFor(table[k])
    BY <1>7, <2>1 DEF Owners, ShapeFor
  <2> QED
    BY <2>1, <2>3, <2>4, <2>5
<1> QED
  BY <1>3, <1>4, <1>7, <1>9, <1>10, <1>11, <1>12 DEF VariantsAre

\* What the snapshot hands on is as core_dispatch_record promises.
LEMMA SnapRenders ==
  ASSUME TableType, TableAgrees, RunType, LineType, NEW t \in Writer, cur[t] >= 1,
         NEW f \in InOrder(Owners),
         NEW wants, wants = WantsDefault(Owners, DOMAIN table \ Owners),
         NEW s, s = IF wants THEN <<DefaultJob(t, TRUE)>> \o Variants(t, f, wants)
                             ELSE Variants(t, f, wants)
  PROVE  Rendered(t, s)
<1> DEFINE d == DefaultJob(t, TRUE)
           v == Variants(t, f, wants)
<1>1. wants \in BOOLEAN
  BY DEF WantsDefault
<1>2. \E n \in Nat : VariantsAre(t, f, wants, v, n)
  <2>1. v = Variants(t, f, wants)
    OBVIOUS
  <2> HIDE DEF v
  <2> QED
    BY <1>1, <2>1, VariantsOnce
<1>3. /\ d \in Job /\ d.line = cur[t] /\ d.fmt = cache[t].fmt
      /\ d.target = 0 /\ d.counts /\ d.shape = "default"
  BY DefaultIsJob
<1>4. s = IF wants THEN <<d>> \o v ELSE v
  OBVIOUS
<1> HIDE DEF d, v
<1>10. PICK n \in Nat : VariantsAre(t, f, wants, v, n)
  BY <1>2
<1>5. /\ v \in Seq(Job) /\ Len(v) = n /\ DOMAIN v = 1..n
      /\ Owners # {} => n >= 1
      /\ \A i \in 1..n : /\ v[i].line = cur[t] /\ v[i].fmt = cache[t].fmt
                         /\ v[i].counts <=> i = 1 /\ ~wants
      /\ \A i \in 1..n : \A k \in DOMAIN table :
            Routed(v[i], table[k]) <=> k \in Owners /\ f[i] = k
      /\ \A i \in 1..n : \A k \in DOMAIN table :
            Routed(v[i], table[k]) => v[i].shape = ShapeFor(table[k])
      /\ \A k \in Owners : \E i \in 1..n : f[i] = k
      /\ \A i, j \in 1..n : f[i] = f[j] => i = j
  BY <1>10 DEF VariantsAre
<1>6. \A k \in DOMAIN table : Routed(d, table[k]) <=> k \notin Owners
  BY <1>3 DEF Routed, Owners
<1>7. \A k \in DOMAIN table : k \notin Owners => d.shape = ShapeFor(table[k])
  BY <1>3 DEF ShapeFor, Owners
<1>8. CASE wants
  <2>1. <<d>> \in Seq(Job) /\ Len(<<d>>) = 1 /\ <<d>>[1] = d
    BY <1>3
  <2> DEFINE h == <<d>>
  <2>2. h \in Seq(Job) /\ Len(h) = 1 /\ h[1] = d
    BY <2>1
  <2>3. s = h \o v
    BY <1>4, <1>8
  <2> HIDE DEF h
  <2>14. v \in Seq(Job) /\ Len(v) = n
    BY <1>5
  <2>15. /\ h \o v \in Seq(Job)
         /\ Len(h \o v) = Len(h) + Len(v)
         /\ \A i \in 1..(Len(h) + Len(v)) :
               (h \o v)[i] = IF i <= Len(h) THEN h[i] ELSE v[i - Len(h)]
    BY <2>2, <2>14, ConcatProperties
  <2>16. s \in Seq(Job)
    BY <2>3, <2>15
  <2>4. /\ Len(s) = 1 + n
        /\ \A i \in 1..(1 + n) : s[i] = IF i <= 1 THEN h[i] ELSE v[i - 1]
    BY <2>2, <2>3, <2>14, <2>15
  <2>5. DOMAIN s = 1..(1 + n)
    BY <2>4, <2>16
  <2>6. s[1] = d /\ 1 \in DOMAIN s
    <3>1. 1 \in 1..(1 + n) /\ 1 <= 1
      OBVIOUS
    <3> QED
      BY <2>2, <2>4, <2>5, <3>1
  <2>7. ASSUME NEW i \in DOMAIN s
        PROVE  i = 1 \/ \E m \in 1..n : i = m + 1 /\ s[i] = v[m]
    <3> SUFFICES ASSUME i # 1 PROVE \E m \in 1..n : i = m + 1 /\ s[i] = v[m]
      OBVIOUS
    <3>1. i \in 1..(1 + n) /\ i # 1
      BY <2>5
    <3>2. i - 1 \in 1..n /\ i = (i - 1) + 1 /\ ~ (i <= 1)
      BY <3>1
    <3> QED
      BY <2>4, <3>1, <3>2
  <2>8. \A m \in 1..n : m + 1 \in DOMAIN s /\ s[m + 1] = v[m]
    <3> SUFFICES ASSUME NEW m \in 1..n PROVE m + 1 \in DOMAIN s /\ s[m + 1] = v[m]
      OBVIOUS
    <3>1. m + 1 \in 1..(1 + n) /\ ~ (m + 1 <= 1) /\ (m + 1) - 1 = m
      OBVIOUS
    <3> QED
      BY <2>4, <2>5, <3>1
  <2>9. \A i \in DOMAIN s : s[i].line = cur[t] /\ s[i].fmt = cache[t].fmt
    <3> SUFFICES ASSUME NEW i \in DOMAIN s PROVE s[i].line = cur[t] /\ s[i].fmt = cache[t].fmt
      OBVIOUS
    <3>1. \A m \in 1..n : v[m].line = cur[t] /\ v[m].fmt = cache[t].fmt
      BY <1>5
    <3>2. CASE i = 1
      BY <1>3, <2>6, <3>2
    <3>3. CASE i # 1
      BY <2>7, <3>1, <3>3
    <3> QED
      BY <3>2, <3>3
  <2>10. \A i \in DOMAIN s : s[i].counts <=> i = 1
    <3> SUFFICES ASSUME NEW i \in DOMAIN s, i # 1 PROVE ~s[i].counts
      BY <1>3, <2>6
    <3>1. PICK m \in 1..n : i = m + 1 /\ s[i] = v[m]
      BY <2>7
    <3> QED
      BY <1>5, <1>8, <3>1
  <2>11. ASSUME NEW k \in DOMAIN table
         PROVE  /\ \E i \in DOMAIN s : Routed(s[i], table[k])
                /\ \A i, j \in DOMAIN s :
                      Routed(s[i], table[k]) /\ Routed(s[j], table[k]) => i = j
                /\ \A i \in DOMAIN s :
                      Routed(s[i], table[k]) => s[i].shape = ShapeFor(table[k])
    <3>1. CASE k \notin Owners
      <4>1. \A i \in DOMAIN s : Routed(s[i], table[k]) <=> i = 1
        <5>1. \A m \in 1..n : ~Routed(v[m], table[k])
          BY <1>5, <3>1
        <5> QED
          BY <1>6, <2>6, <2>7, <3>1, <5>1
      <4> QED
        BY <1>7, <2>6, <3>1, <4>1
    <3>2. CASE k \in Owners
      <4>1. PICK m \in 1..n : f[m] = k
        BY <1>5, <3>2
      <4>2. Routed(v[m], table[k])
        BY <1>5, <3>2, <4>1
      <4>3. \A i \in DOMAIN s : Routed(s[i], table[k]) => i = m + 1
        <5> SUFFICES ASSUME NEW i \in DOMAIN s, Routed(s[i], table[k]) PROVE i = m + 1
          OBVIOUS
        <5>1. i # 1
          BY <1>6, <2>6, <3>2
        <5>2. PICK a \in 1..n : i = a + 1 /\ s[i] = v[a]
          BY <2>7, <5>1
        <5>3. f[a] = k
          BY <1>5, <5>2
        <5>4. a = m
          BY <1>5, <4>1, <5>3
        <5> QED
          BY <5>2, <5>4
      <4>4. m + 1 \in DOMAIN s /\ s[m + 1] = v[m]
        BY <2>8
      <4>5. v[m].shape = ShapeFor(table[k])
        BY <1>5, <4>2
      <4> QED
        BY <4>2, <4>3, <4>4, <4>5
    <3> QED
      BY <3>1, <3>2
  <2>12. \E i \in DOMAIN s : s[i].counts
    BY <2>6, <2>10
  <2>13. \A i, j \in DOMAIN s : s[i].counts /\ s[j].counts => i = j
    BY <2>10
  <2> QED
    BY <2>16, <2>9, <2>11, <2>12, <2>13 DEF Rendered
<1>9. CASE ~wants
  <2>1. s = v
    BY <1>4, <1>9
  <2>2. Owners # {} /\ \A k \in DOMAIN table : k \in Owners
    BY <1>9 DEF WantsDefault
  <2>3. n >= 1 /\ 1 \in DOMAIN v
    BY <1>5, <2>2
  <2>4. \A i \in DOMAIN v : v[i].line = cur[t] /\ v[i].fmt = cache[t].fmt
    BY <1>5
  <2>5. \A i \in DOMAIN v : v[i].counts <=> i = 1
    BY <1>5, <1>9
  <2>6. ASSUME NEW k \in DOMAIN table
        PROVE  /\ \E i \in DOMAIN v : Routed(v[i], table[k])
               /\ \A i, j \in DOMAIN v :
                     Routed(v[i], table[k]) /\ Routed(v[j], table[k]) => i = j
               /\ \A i \in DOMAIN v :
                     Routed(v[i], table[k]) => v[i].shape = ShapeFor(table[k])
    <3>1. k \in Owners
      BY <2>2
    <3>2. PICK m \in 1..n : f[m] = k
      BY <1>5, <3>1
    <3>3. m \in DOMAIN v /\ Routed(v[m], table[k])
      BY <1>5, <3>1, <3>2
    <3>4. \A i \in DOMAIN v : Routed(v[i], table[k]) => i = m
      BY <1>5, <3>2
    <3>5. \A i \in DOMAIN v : Routed(v[i], table[k]) => v[i].shape = ShapeFor(table[k])
      BY <1>5
    <3> QED
      BY <3>3, <3>4, <3>5
  <2>7. \E i \in DOMAIN v : v[i].counts
    BY <2>3, <2>5
  <2>8. \A i, j \in DOMAIN v : v[i].counts /\ v[j].counts => i = j
    BY <2>5
  <2>9. v \in Seq(Job)
    BY <1>5
  <2>10. Rendered(t, v)
    BY <2>4, <2>6, <2>7, <2>8, <2>9 DEF Rendered
  <2> QED
    BY <2>1, <2>10
<1> QED
  BY <1>1, <1>8, <1>9

-----------------------------------------------------------------------------
(***************************************************************************)
(* The steps keep the table's type and its identifiers.                    *)
(***************************************************************************)

\* The generation after the next one, without the modulus.
LEMMA BumpIs ==
  ASSUME SinksAssumption, NEW g \in 1..(GenWidth - 1)
  PROVE  Bump(g) = (IF g = GenWidth - 1 THEN 1 ELSE g + 1) /\ Bump(g) \in 1..(GenWidth - 1)
<1>1. GenWidth \in Nat /\ GenWidth > 2 /\ g \in Nat
  BY DEF SinksAssumption
<1>2. CASE g = GenWidth - 1
  <2>1. g + 1 = GenWidth
    BY <1>1, <1>2
  <2>2. (g + 1) % GenWidth = 0
    BY <1>1, <2>1
  <2> QED
    BY <1>1, <1>2, <2>2 DEF Bump
<1>3. CASE g # GenWidth - 1
  <2>1. g + 1 \in 1..(GenWidth - 1)
    BY <1>1, <1>3
  <2>2. (g + 1) % GenWidth = g + 1
    BY <1>1, <2>1
  <2> QED
    BY <1>1, <1>3, <2>1, <2>2 DEF Bump
<1> QED
  BY <1>2, <1>3

\* A step leaves the table and the format alone, or is one of their changes.
TableMoves ==
    \/ UNCHANGED tableVars
    \/ TableOp
    \/ SetFormat
    \/ Swap

\* Every step is one of these for the table and the format.
LEMMA StepMovesTable ==
  ASSUME SinksStep
  PROVE  TableMoves
<1>1. Change => TableMoves
  BY DEF Change, TableMoves
<1>2. WorkerTake => UNCHANGED tableVars
  BY DEF WorkerTake
<1>3. ASSUME NEW t \in Writer, Log(t) \/ Refresh(t) \/ Render(t) \/ Snap(t) \/ Enqueue(t)
      PROVE  UNCHANGED tableVars
  BY <1>3 DEF Log, Refresh, Render, Snap, Enqueue
<1>4. ASSUME NEW x \in Actor, EmitBegin(x) \/ EmitEnd(x)
      PROVE  UNCHANGED tableVars
  BY <1>4 DEF EmitBegin, EmitEnd
<1>5. ASSUME NEW x \in Actor, EmitSink(x)
      PROVE  TableMoves
  BY <1>5 DEF EmitSink, TableMoves
<1> QED
  BY <1>1, <1>2, <1>3, <1>4, <1>5 DEF SinksStep, TableMoves

\* The table keeps its type and unique identifiers, and the overrides are
\* counted.
LEMMA TableKeeps ==
  ASSUME SinksAssumption, TableType, TableAgrees, TableMoves
  PROVE  TableType' /\ TableAgrees'
<1>0. MaxSinks \in Nat /\ GenWidth \in Nat /\ GenWidth > 2
  BY DEF SinksAssumption
<1>1. CASE UNCHANGED tableVars
  BY <1>1 DEF tableVars, TableType, TableAgrees, OverCount
<1>2. ASSUME table' \in Seq(Sink), Len(table') <= MaxSinks, next_id' \in Nat,
             IdsUnique(table', next_id'), over' = OverCount(table')
      PROVE  TableAgrees' /\ over' \in 0..MaxSinks
  <2>1. over' \in 0..Len(table')
    BY <1>2, OverCounted
  <2>2. Len(table') \in Nat
    BY <1>2
  <2>3. over' \in 0..MaxSinks
    BY <1>0, <1>2, <2>1, <2>2
  <2>4. TableAgrees'
    BY <1>2 DEF TableAgrees, IdsUnique
  <2> QED
    BY <2>3, <2>4
<1>3. CASE TableOp
  <2>1. (Grows \/ Shrinks \/ Edits) /\ over' = OverCount(table') /\ UNCHANGED <<fmt, gen>>
    BY <1>3, TableOps
  <2>2. /\ table' \in Seq(Sink) /\ Len(table') <= MaxSinks
        /\ next_id' \in Nat /\ IdsUnique(table', next_id')
    BY <2>1, TableOpKeeps
  <2> QED
    BY <1>2, <2>1, <2>2 DEF TableType
<1>4. CASE SetFormat
  <2>1. gen' \in 1..(GenWidth - 1) /\ fmt' \in Nat
    BY <1>4, BumpIs DEF SetFormat, TableType
  <2>2. UNCHANGED <<table, next_id, over>>
    BY <1>4 DEF SetFormat
  <2> QED
    BY <2>1, <2>2 DEF TableType, TableAgrees, OverCount
<1>5. CASE Swap
  <2>1. /\ table' \in Seq(Sink) /\ Len(table') <= MaxSinks
        /\ next_id' \in Nat /\ IdsUnique(table', next_id')
    BY <1>5, SwapKeeps
  <2>2. gen' \in 1..(GenWidth - 1) /\ fmt' \in Nat
    BY <1>5, BumpIs DEF Swap, TableType
  <2>3. over' = OverCount(table')
    BY <1>5 DEF Swap, Recompute
  <2> QED
    BY <1>2, <2>1, <2>2, <2>3 DEF TableType
<1> QED
  BY <1>1, <1>3, <1>4, <1>5 DEF TableMoves

-----------------------------------------------------------------------------
(***************************************************************************)
(* What each step does to the rendered lines.                              *)
(***************************************************************************)

\* The place of the dropped lines is no other.
LEMMA GoneApart == Gone \notin Actor /\ Gone # Nobody
<1>1. \E x : x \notin Actor \cup {Nobody}
  BY NoSetContainsEverything
<1>2. Gone \notin Actor \cup {Nobody}
  BY <1>1 DEF Gone
<1> QED
  BY <1>2

\* The rendered lines in their places.
LEMMA HeldIs ==
  ASSUME SinksAssumption, NEW r \in [Actor -> Seq(Job)], NEW q \in Seq(Job),
         NEW d \in Seq(Job)
  PROVE  /\ HeldBy(r, q, d) \in [Place -> Seq(Job)]
         /\ HeldBy(r, q, d)[Nobody] = q /\ Nobody \in Place
         /\ HeldBy(r, q, d)[Gone] = d /\ Gone \in Place /\ Gone # Nobody
         /\ \A x \in Actor : /\ x \in Place /\ x # Nobody /\ x # Gone
                             /\ HeldBy(r, q, d)[x] = r[x]
<1>1. /\ Nobody \in Place /\ Gone \in Place /\ Gone # Nobody
      /\ \A x \in Actor : x \in Place /\ x # Nobody /\ x # Gone
  BY GoneApart DEF SinksAssumption, Place
<1>2. \A y \in Place : y = Nobody \/ y = Gone \/ y \in Actor
  BY DEF Place
<1> QED
  BY <1>1, <1>2 DEF HeldBy

\* The default line alone, or the default line and the variants, are put where
\* the thread sends them from (core_dispatch_record).
Renders(t) ==
    \E s \in Seq(Job) :
       /\ Rendered(t, s) /\ (At(t, "render") \/ At(t, "snap"))
       /\ todo' = [todo EXCEPT ![t] = s] /\ Go(t, "send")
       /\ UNCHANGED <<tableVars, lock, cache, pos, queue, dropped, written, got, spoilt,
                      logVars, ops>>
\* The snapshot is yet to come.
Defers(t) ==
    /\ At(t, "render") /\ Go(t, "snap")
    /\ UNCHANGED <<tableVars, lock, cache, todo, pos, queue, dropped, written, got, spoilt,
                   logVars, ops>>

\* A thread that logs has a line.
LEMMA LineOf ==
  ASSUME PlaceAgrees, LineType, NEW t \in Writer, pc[t] # "out"
  PROVE  cur[t] >= 1 /\ cur[t] \in Line
<1>1. cur[t] >= 1
  BY DEF PlaceAgrees
<1>2. cur[t] \in 0..MaxLines
  BY DEF LineType
<1> QED
  BY <1>1, <1>2 DEF Line

\* Render and Snap do one or the other.
LEMMA RenderSteps ==
  ASSUME SinksAssumption, TableType, TableAgrees, RunType, LineType, PlaceAgrees,
         NEW t \in Writer, Render(t) \/ Snap(t)
  PROVE  Renders(t) \/ Defers(t)
<1>1. CASE Render(t) /\ over > 0
  BY <1>1 DEF Render, Defers
<1>2. CASE Render(t) /\ ~ (over > 0)
  <2>1. over = 0
    BY <1>2 DEF TableType
  <2>2. cur[t] >= 1
    BY <1>2, LineOf DEF Render, At
  <2> DEFINE s == <<DefaultJob(t, TRUE)>>
  <2>3. Rendered(t, s)
    BY <2>1, <2>2, DefaultIsAll
  <2>4. /\ At(t, "render") /\ Go(t, "send") /\ todo' = [todo EXCEPT ![t] = s]
        /\ UNCHANGED <<tableVars, lock, cache, pos, queue, dropped, written, got, spoilt,
                       logVars, ops>>
    BY <1>2 DEF Render
  <2> HIDE DEF s
  <2> QED
    BY <2>3, <2>4 DEF Renders, Rendered
<1>3. CASE Snap(t)
  <2>1. cur[t] >= 1
    BY <1>3, LineOf DEF Snap, At
  <2> DEFINE wants == WantsDefault(Owners, DOMAIN table \ Owners)
  <2>2. \E f \in InOrder(Owners) :
           todo' = [todo EXCEPT ![t] = IF wants
                      THEN <<DefaultJob(t, TRUE)>> \o Variants(t, f, wants)
                      ELSE Variants(t, f, wants)]
    BY <1>3 DEF Snap, Owners, Variants
  <2> HIDE DEF wants
  <2>3. PICK f \in InOrder(Owners) :
           todo' = [todo EXCEPT ![t] = IF wants
                      THEN <<DefaultJob(t, TRUE)>> \o Variants(t, f, wants)
                      ELSE Variants(t, f, wants)]
    BY <2>2
  <2> DEFINE s == IF wants THEN <<DefaultJob(t, TRUE)>> \o Variants(t, f, wants)
                           ELSE Variants(t, f, wants)
  <2>4. todo' = [todo EXCEPT ![t] = s]
    BY <2>3
  <2>5. wants = WantsDefault(Owners, DOMAIN table \ Owners)
    BY DEF wants
  <2>6. Rendered(t, s)
    BY <2>1, <2>5, SnapRenders
  <2>7. /\ At(t, "snap") /\ Go(t, "send")
        /\ UNCHANGED <<tableVars, lock, cache, pos, queue, dropped, written, got, spoilt,
                       logVars, ops>>
    BY <1>3 DEF Snap
  <2> HIDE DEF s
  <2> QED
    BY <2>4, <2>6, <2>7 DEF Renders, Rendered
<1> QED
  BY <1>1, <1>2, <1>3

\* The steps, with a rendering in one of its two forms.
Kinds ==
    \/ Change \/ WorkerTake
    \/ \E t \in Writer : Log(t) \/ Refresh(t) \/ Renders(t) \/ Defers(t) \/ Enqueue(t)
    \/ \E x \in Actor : EmitBegin(x) \/ EmitSink(x) \/ EmitEnd(x)

\* Every step is one of these.
LEMMA StepKinds ==
  ASSUME SinksAssumption, TableType, TableAgrees, RunType, LineType, PlaceAgrees, SinksStep
  PROVE  Kinds
<1>1. ASSUME NEW t \in Writer, Render(t) \/ Snap(t)
      PROVE  Renders(t) \/ Defers(t)
  BY <1>1, RenderSteps
<1> QED
  BY <1>1 DEF SinksStep, Kinds

\* A sequence whose head is taken, and one to which a job is added, are
\* sequences of jobs.
LEMMA TakenAndAdded ==
  ASSUME NEW a \in Seq(Job), NEW b \in Seq(Job), a # <<>>
  PROVE  Tail(a) \in Seq(Job) /\ Append(b, Head(a)) \in Seq(Job) /\ <<Head(a)>> \in Seq(Job)
<1>1. Head(a) \in Job /\ Tail(a) \in Seq(Job)
  BY HeadTailProperties
<1> DEFINE J == Job
           h == Head(a)
<1>2. h \in J /\ b \in Seq(J)
  BY <1>1
<1> HIDE DEF J, h
<1>3. Append(b, h) \in Seq(J) /\ <<h>> \in Seq(J)
  BY <1>2, AppendProperties
<1> QED
  BY <1>1, <1>3 DEF J, h

\* What the queue does with a rendering: it takes it, it drops it, or it drops
\* its oldest one first.
Tails(t) ==
    \/ queue' = Append(queue, Head(todo[t])) /\ dropped' = dropped
    \/ dropped' = Append(dropped, Head(todo[t])) /\ queue' = queue
    \/ /\ queue # <<>>
       /\ \/ /\ queue' = Append(Tail(queue), Head(todo[t]))
             /\ dropped' = Append(dropped, Head(queue))
          \/ /\ queue' = Tail(queue)
             /\ dropped' = Append(Append(dropped, Head(queue)), Head(todo[t]))

\* These are the outcomes of hx_async_enqueue.
LEMMA EnqueueForms ==
  ASSUME HeldType, NEW t \in Writer, Enqueue(t)
  PROVE  Tails(t)
<1>1. todo[t] # <<>> /\ todo[t] \in Seq(Job) /\ queue \in Seq(Job) /\ dropped \in Seq(Job)
  BY DEF Enqueue, HeldType, Actor
<1>2. ASSUME queue # <<>>
      PROVE  dropped \o <<Head(queue), Head(todo[t])>>
                = Append(Append(dropped, Head(queue)), Head(todo[t]))
  <2> DEFINE d == dropped
             g == Head(queue)
             h == Head(todo[t])
             J == Job
  <2>1. d \in Seq(J) /\ g \in J /\ h \in J
    BY <1>1, <1>2, HeadAndTail
  <2> HIDE DEF d, g, h, J
  <2>2. d \o <<g, h>> = Append(Append(d, g), h)
    BY <2>1
  <2> QED
    BY <2>2 DEF d, g, h
<1> QED
  BY <1>1, <1>2 DEF Enqueue, Tails

\* Rendered lines and the queue keep their type.
LEMMA HeldKeeps ==
  ASSUME SinksAssumption, HeldType, PlaceAgrees, Kinds
  PROVE  HeldType'
<1>1. CASE UNCHANGED <<todo, queue, dropped>>
  BY <1>1 DEF HeldType
<1>2. CASE Change
  BY <1>1, <1>2 DEF Change, writeVars
<1>3. CASE WorkerTake
  <2>1. /\ queue # <<>> /\ queue' = Tail(queue) /\ dropped' = dropped
        /\ todo' = [todo EXCEPT ![Worker] = <<Head(queue)>>]
    BY <1>3 DEF WorkerTake
  <2>2. queue' \in Seq(Job) /\ <<Head(queue)>> \in Seq(Job)
    BY <2>1, TakenAndAdded DEF HeldType
  <2> DEFINE s == <<Head(queue)>>
  <2> HIDE DEF s
  <2>3. todo' = [todo EXCEPT ![Worker] = s] /\ s \in Seq(Job) /\ dropped' = dropped
    BY <2>1, <2>2 DEF s
  <2> QED
    BY <2>2, <2>3 DEF HeldType
<1>4. ASSUME NEW t \in Writer, Log(t) \/ Refresh(t) \/ Defers(t)
      PROVE  HeldType'
  BY <1>1, <1>4 DEF Log, Refresh, Defers
<1>5. ASSUME NEW t \in Writer, Renders(t)
      PROVE  HeldType'
  <2>1. PICK s \in Seq(Job) :
           todo' = [todo EXCEPT ![t] = s] /\ queue' = queue /\ dropped' = dropped
    BY <1>5 DEF Renders
  <2> QED
    BY <2>1 DEF HeldType
<1>6. ASSUME NEW t \in Writer, Enqueue(t)
      PROVE  HeldType'
  <2>1. /\ todo[t] # <<>> /\ todo' = [todo EXCEPT ![t] = Tail(@)]
        /\ todo[t] \in Seq(Job) /\ queue \in Seq(Job) /\ dropped \in Seq(Job)
    BY <1>6 DEF Enqueue, HeldType, Actor
  <2>2. Tail(todo[t]) \in Seq(Job)
    BY <2>1, TakenAndAdded
  <2>3. Tails(t)
    BY <1>6, EnqueueForms
  <2>4. queue' \in Seq(Job) /\ dropped' \in Seq(Job)
    <3> DEFINE h == Head(todo[t])
               g == Head(queue)
    <3>1. h \in Job
      BY <2>1, HeadAndTail
    <3>2. queue # <<>> => g \in Job /\ Tail(queue) \in Seq(Job)
      BY <2>1, HeadAndTail, TakenAndAdded
    <3>3. Tails(t) <=> \/ queue' = Append(queue, h) /\ dropped' = dropped
                       \/ dropped' = Append(dropped, h) /\ queue' = queue
                       \/ /\ queue # <<>>
                          /\ \/ /\ queue' = Append(Tail(queue), h)
                                /\ dropped' = Append(dropped, g)
                             \/ /\ queue' = Tail(queue)
                                /\ dropped' = Append(Append(dropped, g), h)
      BY DEF Tails
    <3> HIDE DEF h, g
    <3>4. \A q \in Seq(Job), j \in Job : Append(q, j) \in Seq(Job)
      BY AppendProperties
    <3> QED
      BY <2>1, <2>3, <3>1, <3>2, <3>3, <3>4
  <2> QED
    BY <2>1, <2>2, <2>4 DEF HeldType
<1>7. ASSUME NEW x \in Actor, EmitBegin(x) \/ EmitSink(x)
      PROVE  HeldType'
  BY <1>1, <1>7 DEF EmitBegin, EmitSink
<1>8. ASSUME NEW x \in Actor, EmitEnd(x)
      PROVE  HeldType'
  <2>1. /\ todo' = [todo EXCEPT ![x] = Tail(@)] /\ todo[x] \in Seq(Job)
        /\ queue' = queue /\ dropped' = dropped
    BY <1>8 DEF EmitEnd, HeldType
  <2>2. todo[x] # <<>>
    BY <1>8 DEF EmitEnd, At, PlaceAgrees
  <2>3. Tail(todo[x]) \in Seq(Job)
    BY <2>1, <2>2, TakenAndAdded
  <2> QED
    BY <2>1, <2>3 DEF HeldType
<1> QED
  BY <1>2, <1>3, <1>4, <1>5, <1>6, <1>7, <1>8 DEF Kinds

\* Threads, their caches and the lock keep their type.
LEMMA RunKeeps ==
  ASSUME SinksAssumption, TableType, RunType, Kinds
  PROVE  RunType'
<1>0. \A t \in Writer : t \in Actor
  BY DEF Actor
<1>1. CASE Change
  BY <1>1 DEF Change, writeVars, RunType
<1>2. CASE WorkerTake
  BY <1>2 DEF WorkerTake, Go, RunType
<1>3. ASSUME NEW t \in Writer, Log(t)
      PROVE  RunType'
  <2>1. \E p \in {"render", "refresh"} : pc' = [pc EXCEPT ![t] = p]
    BY <1>3 DEF Log, Go
  <2>2. UNCHANGED <<lock, cache, pos>>
    BY <1>3 DEF Log
  <2> QED
    BY <2>1, <2>2 DEF RunType
<1>4. ASSUME NEW t \in Writer, Refresh(t)
      PROVE  RunType'
  <2>1. /\ cache' = [cache EXCEPT ![t] = [gen |-> gen, fmt |-> fmt]]
        /\ pc' = [pc EXCEPT ![t] = "render"] /\ UNCHANGED <<lock, pos>>
    BY <1>4 DEF Refresh, Go
  <2>2. [gen |-> gen, fmt |-> fmt] \in [gen : 0..(GenWidth - 1), fmt : Nat]
    BY DEF TableType, SinksAssumption
  <2> QED
    BY <2>1, <2>2 DEF RunType
<1>5. ASSUME NEW t \in Writer, Renders(t) \/ Defers(t) \/ Enqueue(t)
      PROVE  RunType'
  <2>1. \E p \in {"out", "send", "snap"} : pc' = [pc EXCEPT ![t] = p]
    BY <1>5 DEF Renders, Defers, Enqueue, Go, GoOn
  <2>2. UNCHANGED <<lock, cache, pos>>
    BY <1>5 DEF Renders, Defers, Enqueue
  <2> QED
    BY <2>1, <2>2 DEF RunType
<1>7. ASSUME NEW x \in Actor, EmitBegin(x)
      PROVE  RunType'
  BY <1>7 DEF EmitBegin, Go, RunType
<1>8. ASSUME NEW x \in Actor, EmitSink(x)
      PROVE  RunType'
  <2>1. pos' = [pos EXCEPT ![x] = @ + 1] /\ UNCHANGED <<lock, cache, pc>>
    BY <1>8 DEF EmitSink
  <2> QED
    BY <2>1 DEF RunType
<1>9. ASSUME NEW x \in Actor, EmitEnd(x)
      PROVE  RunType'
  <2>1. \E p \in {"out", "send"} : pc' = [pc EXCEPT ![x] = p]
    BY <1>9 DEF EmitEnd, Go, GoOn
  <2>2. lock' = Nobody /\ UNCHANGED <<cache, pos>>
    BY <1>9 DEF EmitEnd
  <2> QED
    BY <2>1, <2>2 DEF RunType
<1> QED
  BY <1>1, <1>2, <1>3, <1>4, <1>5, <1>7, <1>8, <1>9 DEF Kinds

\* The job at the head of a line being emitted.
LEMMA EmittedJob ==
  ASSUME HeldType, PlaceAgrees, NEW x \in Actor, pc[x] = "emit"
  PROVE  /\ todo[x] # <<>> /\ Head(todo[x]) \in Job /\ Head(todo[x]).line \in Line
         /\ 1 \in DOMAIN todo[x] /\ todo[x][1] = Head(todo[x])
<1>1. todo[x] # <<>> /\ todo[x] \in Seq(Job)
  BY DEF PlaceAgrees, HeldType
<1> DEFINE s == todo[x]
<1>2. s # <<>> /\ s \in Seq(Job)
  BY <1>1
<1> HIDE DEF s
<1>3. Head(s) \in Job /\ 1 \in DOMAIN s /\ s[1] = Head(s)
  BY <1>2, HeadAndTail
<1>4. Head(s).line \in Line
  BY <1>3 DEF Job
<1> QED
  BY <1>2, <1>3, <1>4 DEF s

\* What a line puts at a sink.
Entry == [id : Nat, shape : Shape, fmt : Nat]
EntryOf(job, s) == [id |-> s.id, shape |-> job.shape, fmt |-> job.fmt]
Longer(a, b, e) ==
    /\ Len(a) \in Nat /\ DOMAIN a = 1..Len(a) /\ DOMAIN b = 1..(Len(a) + 1)
    /\ \A i \in 1..Len(a) : b[i] = a[i]
    /\ b[Len(a) + 1] = e

\* A sink that takes the job is added to what its line reached
\* (hx_core_emit_to_sinks, hx_sink_write).
LEMMA Delivers ==
  ASSUME TableType, RunType, HeldType, LineType, PlaceAgrees, NEW x \in Actor, EmitSink(x),
         NEW job, job = Head(todo[x]), NEW s, s = table[pos[x]]
  PROVE  /\ pos[x] \in 1..Len(table) /\ pos[x] \in DOMAIN table /\ s \in Sink
         /\ job \in Job /\ job.line \in Line
         /\ got' \in [Line -> Seq(Entry)]
         /\ \A l \in Line : l # job.line => got'[l] = got[l]
         /\ ~Takes(job, s) => got' = got
         /\ Takes(job, s) => Longer(got[job.line], got'[job.line], EntryOf(job, s))
<1>1. pc[x] = "emit" /\ pos[x] <= Len(table) /\ pos[x] >= 1 /\ pos[x] \in Nat
  BY DEF EmitSink, At, PlaceAgrees, RunType
<1>2. pos[x] \in 1..Len(table) /\ pos[x] \in DOMAIN table /\ s \in Sink
  BY <1>1 DEF TableType
<1>3. job \in Job /\ job.line \in Line
  BY <1>1, EmittedJob
<1> DEFINE e == EntryOf(job, s)
           g == got[job.line]
           E == Entry
<1>4. e \in E /\ g \in Seq(E) /\ got \in [Line -> Seq(E)]
  BY <1>2, <1>3 DEF EntryOf, Entry, Sink, Job, LineType
<1>5. got' = IF Takes(job, s) THEN [got EXCEPT ![job.line] = Append(g, e)] ELSE got
  BY <1>3, <1>4 DEF EmitSink, Deliver, EntryOf
<1> HIDE DEF e, E
<1>6. /\ Append(g, e) \in Seq(E) /\ Len(Append(g, e)) = Len(g) + 1
      /\ \A i \in 1..Len(g) : Append(g, e)[i] = g[i]
      /\ Append(g, e)[Len(g) + 1] = e
  BY <1>4, AppendProperties
<1>7. Longer(g, Append(g, e), e)
  BY <1>4, <1>6 DEF Longer
<1>8. Takes(job, s) => got'[job.line] = Append(g, e)
  BY <1>3, <1>4, <1>5
<1>9. \A l \in Line : l # job.line => got'[l] = got[l]
  BY <1>3, <1>4, <1>5
<1>10. got' \in [Line -> Seq(E)]
  BY <1>3, <1>4, <1>5, <1>6
<1> QED
  BY <1>2, <1>3, <1>5, <1>7, <1>8, <1>9, <1>10 DEF e, E

\* Lines, what they reached and the counts keep their type.
LEMMA LineKeeps ==
  ASSUME SinksAssumption, TableType, RunType, HeldType, LineType, PlaceAgrees, Kinds
  PROVE  LineType'
<1>0. MaxLines \in Nat /\ MaxOps \in Nat
  BY DEF SinksAssumption
<1>1. CASE Change
  <2>1. UNCHANGED <<written, cur, sent, got, began, spoilt>>
    BY <1>1 DEF Change, writeVars, logVars
  <2>2. ops' \in 0..MaxOps
    BY <1>0, <1>1 DEF Change, LineType
  <2> QED
    BY <2>1, <2>2 DEF LineType
<1>2. CASE WorkerTake
  BY <1>2 DEF WorkerTake, logVars, LineType
<1>3. ASSUME NEW t \in Writer, Log(t)
      PROVE  LineType'
  <2>1. sent + 1 \in 1..MaxLines /\ sent + 1 \in 0..MaxLines
    BY <1>0, <1>3 DEF Log, LineType
  <2>2. sent' \in 0..MaxLines /\ cur' \in [Writer -> 0..MaxLines]
    BY <1>3, <2>1 DEF Log, LineType
  <2>3. began' \in [Line -> Nat]
    BY <1>3, <2>1 DEF Log, LineType, TableType, Line
  <2>4. UNCHANGED <<written, got, spoilt, ops>>
    BY <1>3 DEF Log
  <2> QED
    BY <2>2, <2>3, <2>4 DEF LineType
<1>4. ASSUME NEW t \in Writer, Refresh(t) \/ Renders(t) \/ Defers(t) \/ Enqueue(t)
      PROVE  LineType'
  <2>1. UNCHANGED <<written, cur, sent, got, began, spoilt, ops>>
    BY <1>4 DEF Refresh, Renders, Defers, Enqueue, logVars
  <2> QED
    BY <2>1 DEF LineType
<1>5. ASSUME NEW x \in Actor, EmitBegin(x)
      PROVE  LineType'
  <2>1. UNCHANGED <<written, cur, sent, got, began, spoilt, ops>>
    BY <1>5 DEF EmitBegin, logVars
  <2> QED
    BY <2>1 DEF LineType
<1>6. ASSUME NEW x \in Actor, EmitSink(x)
      PROVE  LineType'
  <2> DEFINE job == Head(todo[x])
             s == table[pos[x]]
  <2>1. job = Head(todo[x]) /\ s = table[pos[x]]
    OBVIOUS
  <2> HIDE DEF job, s
  <2>2. got' \in [Line -> Seq(Entry)] /\ job.line \in Line
    BY <1>6, <2>1, Delivers
  <2>3. UNCHANGED <<written, cur, sent, began>>
    BY <1>6 DEF EmitSink, logVars
  <2>4. ops' \in 0..MaxOps
    BY <1>0, <1>6 DEF EmitSink, LineType
  <2>5. spoilt' \in SUBSET Line
    <3>1. spoilt' = spoilt \/ spoilt' = spoilt \cup {job.line}
      BY <1>6, <2>1 DEF EmitSink
    <3> QED
      BY <2>2, <3>1 DEF LineType
  <2> QED
    BY <2>2, <2>3, <2>4, <2>5 DEF LineType, Entry
<1>7. ASSUME NEW x \in Actor, EmitEnd(x)
      PROVE  LineType'
  <2>1. UNCHANGED <<cur, sent, got, began, spoilt, ops>>
    BY <1>7 DEF EmitEnd, logVars
  <2>2. PICK c \in {0, 1} : written' = written + c
    BY <1>7 DEF EmitEnd
  <2>3. written' \in Nat
    BY <2>2 DEF LineType
  <2> QED
    BY <2>1, <2>3 DEF LineType
<1> QED
  BY <1>1, <1>2, <1>3, <1>4, <1>5, <1>6, <1>7 DEF Kinds

\* Steady sinks were in the table.
LEMMA SteadyKeeps ==
  ASSUME TableType, SteadyType, Watch
  PROVE  SteadyType'
<1>1. Range(table) \subseteq Sink
  <2>1. \A k \in DOMAIN table : table[k] \in Sink
    BY DEF TableType
  <2> QED
    BY <2>1 DEF Range
<1>2. \A l \in Line : steady[l] \subseteq Sink
  BY DEF SteadyType
<1>3. DOMAIN steady' = Line /\ \A l \in Line : steady'[l] \subseteq Sink
  BY <1>1, <1>2 DEF Watch
<1>4. steady' = [l \in Line |-> steady'[l]]
  BY DEF Watch
<1> QED
  BY <1>3, <1>4 DEF SteadyType

\* Every variable keeps its type.
LEMMA TypesKept ==
  ASSUME SinksAssumption, SinksTypeOK, TableAgrees, PlaceAgrees, SinksStep, Watch
  PROVE  SinksTypeOK' /\ TableAgrees'
<1>1. TableType /\ RunType /\ HeldType /\ LineType /\ SteadyType
  BY TypeGroups
<1>2. Kinds
  BY <1>1, StepKinds
<1>3. TableType' /\ TableAgrees'
  BY <1>1, StepMovesTable, TableKeeps
<1>4. RunType'
  BY <1>1, <1>2, RunKeeps
<1>5. HeldType'
  BY <1>1, <1>2, HeldKeeps
<1>6. LineType'
  BY <1>1, <1>2, LineKeeps
<1>7. SteadyType'
  BY <1>1, SteadyKeeps
<1> QED
  BY <1>3, <1>4, <1>5, <1>6, <1>7 DEF SinksTypeOK, TableType, RunType, HeldType, LineType,
                                          SteadyType

-----------------------------------------------------------------------------
(***************************************************************************)
(* Where the threads are.                                                  *)
(***************************************************************************)

\* Only the thread that emits holds sink_lock.
LEMMA LockKeeps ==
  ASSUME SinksAssumption, RunType, PlaceAgrees, Kinds
  PROVE  \A x \in Actor : (lock' = x <=> pc'[x] = "emit")
<1>0. /\ Nobody \notin Actor /\ Worker \in Actor /\ \A t \in Writer : t \in Actor
      /\ DOMAIN pc = Actor
  BY DEF SinksAssumption, Actor, RunType
<1>1. \A x \in Actor : (lock = x <=> pc[x] = "emit")
  BY DEF PlaceAgrees
<1>2. CASE UNCHANGED <<lock, pc>>
  BY <1>1, <1>2
<1>3. ASSUME NEW z \in Actor, lock' = lock, pc[z] # "emit", NEW p, p # "emit",
             pc' = [pc EXCEPT ![z] = p]
      PROVE  \A x \in Actor : (lock' = x <=> pc'[x] = "emit")
  BY <1>0, <1>1, <1>3
<1>4. CASE Change
  BY <1>2, <1>4 DEF Change, writeVars
<1>5. CASE WorkerTake
  <2>1. lock' = lock /\ pc[Worker] # "emit" /\ pc' = [pc EXCEPT ![Worker] = "send"]
    BY <1>5 DEF WorkerTake, Go, At
  <2> QED
    BY <1>0, <1>3, <2>1
<1>6. ASSUME NEW t \in Writer, Log(t) \/ Refresh(t) \/ Renders(t) \/ Defers(t)
      PROVE  \A x \in Actor : (lock' = x <=> pc'[x] = "emit")
  <2>1. \E p \in {"render", "refresh", "send", "snap"} : pc' = [pc EXCEPT ![t] = p]
    BY <1>6 DEF Log, Refresh, Renders, Defers, Go
  <2>2. lock' = lock /\ pc[t] # "emit"
    BY <1>6 DEF Log, Refresh, Renders, Defers, At
  <2>3. PICK p \in {"render", "refresh", "send", "snap"} : pc' = [pc EXCEPT ![t] = p]
    BY <2>1
  <2> QED
    BY <1>0, <1>3, <2>2, <2>3
<1>7. ASSUME NEW t \in Writer, Enqueue(t)
      PROVE  \A y \in Actor : (lock' = y <=> pc'[y] = "emit")
  <2>1. PICK p \in {"out", "send"} : pc' = [pc EXCEPT ![t] = p]
    BY <1>7 DEF Enqueue, Go, GoOn
  <2>2. lock' = lock /\ pc[t] # "emit"
    BY <1>7 DEF Enqueue, At
  <2> QED
    BY <1>0, <1>3, <2>1, <2>2
<1>9. ASSUME NEW x \in Actor, EmitBegin(x)
      PROVE  \A y \in Actor : (lock' = y <=> pc'[y] = "emit")
  <2>1. lock = Nobody /\ lock' = x /\ pc' = [pc EXCEPT ![x] = "emit"]
    BY <1>9 DEF EmitBegin, Go
  <2> QED
    BY <1>0, <1>1, <2>1
<1>10. ASSUME NEW x \in Actor, EmitSink(x)
       PROVE  UNCHANGED <<lock, pc>>
  BY <1>10 DEF EmitSink
<1>11. ASSUME NEW x \in Actor, EmitEnd(x)
       PROVE  \A y \in Actor : (lock' = y <=> pc'[y] = "emit")
  <2>1. pc[x] = "emit" /\ lock' = Nobody
    BY <1>11 DEF EmitEnd, At
  <2>2. PICK p \in {"out", "send"} : pc' = [pc EXCEPT ![x] = p]
    BY <1>11 DEF EmitEnd, Go, GoOn
  <2> QED
    BY <1>0, <1>1, <2>1, <2>2
<1> QED
  BY <1>2, <1>4, <1>5, <1>6, <1>7, <1>9, <1>10, <1>11 DEF Kinds

\* A thread that has not rendered its line holds none, one that emits does.
Emptied(x) ==
    /\ pc[x] \in Preparing \cup {"out"} => todo[x] = <<>>
    /\ pc[x] = "emit" => todo[x] # <<>>
    /\ pos[x] >= 1

\* A thread takes up a line with no other in hand (core_writev, worker loop).
LEMMA EmptiedKeeps ==
  ASSUME SinksAssumption, RunType, HeldType, PlaceAgrees, Kinds, NEW y \in Actor
  PROVE  Emptied(y)'
<1>0. /\ Worker \in Actor /\ \A t \in Writer : t \in Actor
      /\ DOMAIN pc = Actor /\ DOMAIN todo = Actor /\ DOMAIN pos = Actor
      /\ \A x \in Actor : pos[x] \in Nat
  BY DEF SinksAssumption, Actor, RunType, HeldType
<1>1. \A x \in Actor : Emptied(x)
  BY DEF PlaceAgrees, Emptied
<1>2. CASE pc'[y] = pc[y] /\ todo'[y] = todo[y] /\ pos'[y] = pos[y]
  BY <1>1, <1>2 DEF Emptied
<1>3. ASSUME NEW x \in Actor, x # y, NEW p, NEW s,
             pc' = [pc EXCEPT ![x] = p] \/ pc' = pc,
             todo' = [todo EXCEPT ![x] = s] \/ todo' = todo, pos' = pos
      PROVE  Emptied(y)'
  BY <1>0, <1>2, <1>3
<1>4. CASE Change
  BY <1>2, <1>4 DEF Change, writeVars
<1>5. CASE WorkerTake
  <2>1. /\ pc' = [pc EXCEPT ![Worker] = "send"] /\ pos' = pos
        /\ \E s : todo' = [todo EXCEPT ![Worker] = s]
    BY <1>5 DEF WorkerTake, Go
  <2>2. CASE y = Worker
    <3>1. pc'[y] = "send" /\ pos'[y] = pos[y]
      BY <1>0, <2>1, <2>2
    <3> QED
      BY <1>1, <3>1 DEF Emptied, Preparing
  <2>3. CASE y # Worker
    BY <1>0, <1>3, <2>1, <2>3
  <2> QED
    BY <2>2, <2>3
<1>6. ASSUME NEW t \in Writer, Log(t) \/ Refresh(t) \/ Renders(t) \/ Defers(t)
      PROVE  Emptied(y)'
  <2>1. \E p \in {"render", "refresh", "send", "snap"} : pc' = [pc EXCEPT ![t] = p]
    BY <1>6 DEF Log, Refresh, Renders, Defers, Go
  <2>2. PICK p \in {"render", "refresh", "send", "snap"} : pc' = [pc EXCEPT ![t] = p]
    BY <2>1
  <2>3. pos' = pos
    BY <1>6 DEF Log, Refresh, Renders, Defers
  <2>4. \/ todo' = todo
        \/ p = "send" /\ \E s : todo' = [todo EXCEPT ![t] = s]
    <3>1. CASE Renders(t)
      <4>1. pc' = [pc EXCEPT ![t] = "send"] /\ \E s : todo' = [todo EXCEPT ![t] = s]
        BY <3>1 DEF Renders, Go
      <4>2. pc'[t] = "send" /\ pc'[t] = p
        BY <1>0, <2>2, <4>1
      <4> QED
        BY <4>1, <4>2
    <3>2. CASE ~Renders(t)
      BY <1>6, <3>2 DEF Log, Refresh, Defers
    <3> QED
      BY <3>1, <3>2
  <2>5. pc[t] \in Preparing \cup {"out"}
    BY <1>6 DEF Log, Refresh, Renders, Defers, At, Preparing
  <2>6. CASE y = t
    <3>1. pc'[y] = p /\ pos'[y] = pos[y] /\ todo[y] = <<>>
      BY <1>0, <1>1, <2>2, <2>3, <2>5, <2>6 DEF Emptied
    <3>2. p # "send" => todo'[y] = <<>>
      BY <2>4, <3>1
    <3>3. p # "emit"
      BY <2>2
    <3> QED
      BY <1>1, <3>1, <3>2, <3>3 DEF Emptied, Preparing
  <2>7. CASE y # t
    BY <1>0, <1>3, <2>2, <2>3, <2>4, <2>7
  <2> QED
    BY <2>6, <2>7
<1>7. ASSUME NEW x \in Actor, GoOn(x), todo' = [todo EXCEPT ![x] = Tail(@)], pos' = pos
      PROVE  Emptied(y)'
  <2>1. PICK p \in {"out", "send"} : /\ pc' = [pc EXCEPT ![x] = p]
                                     /\ p = "out" => Tail(todo[x]) = <<>>
    BY <1>7 DEF GoOn, Go
  <2>2. CASE y = x
    <3>1. pc'[y] = p /\ todo'[y] = Tail(todo[y]) /\ pos'[y] = pos[y]
      BY <1>0, <1>7, <2>1, <2>2
    <3> QED
      BY <1>1, <2>1, <2>2, <3>1 DEF Emptied, Preparing
  <2>3. CASE y # x
    BY <1>0, <1>3, <1>7, <2>1, <2>3
  <2> QED
    BY <2>2, <2>3
<1>8. ASSUME NEW t \in Writer, Enqueue(t)
      PROVE  Emptied(y)'
  BY <1>0, <1>7, <1>8 DEF Enqueue
<1>9. ASSUME NEW x \in Actor, EmitBegin(x)
      PROVE  Emptied(y)'
  <2>1. /\ todo[x] # <<>> /\ pc' = [pc EXCEPT ![x] = "emit"]
        /\ pos' = [pos EXCEPT ![x] = 1] /\ todo' = todo
    BY <1>9 DEF EmitBegin, Go
  <2>2. CASE y = x
    <3>1. pc'[y] = "emit" /\ todo'[y] # <<>> /\ pos'[y] = 1
      BY <1>0, <2>1, <2>2
    <3> QED
      BY <3>1 DEF Emptied, Preparing
  <2>3. CASE y # x
    BY <1>0, <1>2, <2>1, <2>3
  <2> QED
    BY <2>2, <2>3
<1>10. ASSUME NEW x \in Actor, EmitSink(x)
       PROVE  Emptied(y)'
  <2>1. pc' = pc /\ todo' = todo /\ pos' = [pos EXCEPT ![x] = @ + 1]
    BY <1>10 DEF EmitSink
  <2>2. pos'[y] >= 1
    BY <1>0, <1>1, <2>1 DEF Emptied
  <2> QED
    BY <1>1, <2>1, <2>2 DEF Emptied
<1>11. ASSUME NEW x \in Actor, EmitEnd(x)
       PROVE  Emptied(y)'
  BY <1>7, <1>11 DEF EmitEnd
<1> QED
  BY <1>4, <1>5, <1>6, <1>8, <1>9, <1>10, <1>11 DEF Kinds

\* The lines of the threads: at most sent, one each, and the thread's own.
OwnLines(t) ==
    /\ cur[t] <= sent
    /\ pc[t] # "out" => cur[t] >= 1
    /\ \A i \in DOMAIN todo[t] : todo[t][i].line = cur[t]

\* A thread hands on what it rendered before it logs again (core_dispatch_record).
LEMMA OwnLinesKeep ==
  ASSUME SinksAssumption, RunType, HeldType, LineType, PlaceAgrees, Kinds, NEW u \in Writer
  PROVE  OwnLines(u)'
<1>0. /\ u # Worker /\ u \in Actor /\ \A t \in Writer : t \in Actor
      /\ DOMAIN pc = Actor /\ DOMAIN todo = Actor /\ DOMAIN cur = Writer
      /\ sent \in Nat /\ cur[u] \in Nat /\ todo[u] \in Seq(Job)
  BY DEF SinksAssumption, Actor, RunType, HeldType, LineType
<1>1. OwnLines(u)
  BY DEF PlaceAgrees, OwnLines
<1>2. CASE pc'[u] = pc[u] /\ todo'[u] = todo[u] /\ cur' = cur /\ sent' = sent
  BY <1>1, <1>2 DEF OwnLines
<1>3. ASSUME NEW x \in Actor, GoOn(x), todo[x] # <<>>, pc[x] # "out",
             todo' = [todo EXCEPT ![x] = Tail(@)], cur' = cur, sent' = sent
      PROVE  OwnLines(u)'
  <2>1. PICK p : pc' = [pc EXCEPT ![x] = p]
    BY <1>3 DEF GoOn, Go
  <2>2. CASE u = x
    <3> DEFINE s == todo[u]
    <3>1. s \in Seq(Job) /\ s # <<>> /\ todo'[u] = Tail(s)
      BY <1>0, <1>3, <2>2
    <3>2. \A i \in DOMAIN s : s[i].line = cur[u]
      BY <1>1 DEF OwnLines
    <3> HIDE DEF s
    <3>3. /\ Len(s) \in Nat /\ DOMAIN s = 1..Len(s)
          /\ DOMAIN Tail(s) = 1..(Len(s) - 1)
          /\ \A i \in 1..(Len(s) - 1) : Tail(s)[i] = s[i + 1]
      BY <3>1, HeadAndTail
    <3>4. \A i \in 1..(Len(s) - 1) : i + 1 \in DOMAIN s
      BY <3>3
    <3>5. \A i \in DOMAIN todo'[u] : todo'[u][i].line = cur[u]
      BY <3>1, <3>2, <3>3, <3>4
    <3>6. cur[u] >= 1
      BY <1>1, <1>3, <2>2 DEF OwnLines
    <3> QED
      BY <1>1, <1>3, <3>5, <3>6 DEF OwnLines
  <2>3. CASE u # x
    <3>1. pc'[u] = pc[u] /\ todo'[u] = todo[u]
      BY <1>0, <1>3, <2>1, <2>3
    <3> QED
      BY <1>2, <1>3, <3>1
  <2> QED
    BY <2>2, <2>3
<1>4. CASE Change
  BY <1>2, <1>4 DEF Change, writeVars, logVars
<1>5. CASE WorkerTake
  <2>1. /\ pc' = [pc EXCEPT ![Worker] = "send"] /\ cur' = cur /\ sent' = sent
        /\ \E s : todo' = [todo EXCEPT ![Worker] = s]
    BY <1>5 DEF WorkerTake, Go, logVars
  <2> QED
    BY <1>0, <1>2, <2>1
<1>6. ASSUME NEW t \in Writer, Log(t)
      PROVE  OwnLines(u)'
  <2>1. /\ pc[t] = "out" /\ todo' = todo /\ sent' = sent + 1
        /\ cur' = [cur EXCEPT ![t] = sent + 1]
    BY <1>6 DEF Log, At
  <2>2. todo[t] = <<>>
    BY <1>0, <2>1 DEF PlaceAgrees
  <2>3. CASE u = t
    <3>1. cur'[u] = sent + 1 /\ todo'[u] = <<>>
      BY <1>0, <2>1, <2>2, <2>3
    <3> QED
      BY <1>0, <2>1, <3>1 DEF OwnLines
  <2>4. CASE u # t
    <3>1. \E p : pc' = [pc EXCEPT ![t] = p]
      BY <1>6 DEF Log, Go
    <3>2. pc'[u] = pc[u] /\ cur'[u] = cur[u] /\ todo'[u] = todo[u]
      BY <1>0, <2>1, <2>4, <3>1
    <3>3. cur[u] <= sent + 1
      BY <1>0, <1>1 DEF OwnLines
    <3> QED
      BY <1>1, <2>1, <3>2, <3>3 DEF OwnLines
  <2> QED
    BY <2>3, <2>4
<1>7. ASSUME NEW t \in Writer, Refresh(t) \/ Defers(t)
      PROVE  OwnLines(u)'
  <2>1. cur' = cur /\ sent' = sent /\ todo' = todo /\ pc[t] # "out"
    BY <1>7 DEF Refresh, Defers, logVars, At
  <2>2. \E p : pc' = [pc EXCEPT ![t] = p]
    BY <1>7 DEF Refresh, Defers, Go
  <2>3. pc'[u] # "out" => pc[u] # "out"
    BY <1>0, <2>1, <2>2
  <2> QED
    BY <1>1, <2>1, <2>3 DEF OwnLines
<1>8. ASSUME NEW t \in Writer, Renders(t)
      PROVE  OwnLines(u)'
  <2>1. PICK s \in Seq(Job) : Rendered(t, s) /\ todo' = [todo EXCEPT ![t] = s]
    BY <1>8 DEF Renders
  <2>2. /\ cur' = cur /\ sent' = sent /\ pc[t] # "out"
        /\ pc' = [pc EXCEPT ![t] = "send"]
    BY <1>8 DEF Renders, logVars, At, Go
  <2>3. CASE u = t
    <3>1. todo'[u] = s /\ \A i \in DOMAIN s : s[i].line = cur[u]
      BY <1>0, <2>1, <2>3 DEF Rendered
    <3> QED
      BY <1>1, <2>2, <2>3, <3>1 DEF OwnLines
  <2>4. CASE u # t
    BY <1>0, <1>2, <2>1, <2>2, <2>4
  <2> QED
    BY <2>3, <2>4
<1>9. ASSUME NEW t \in Writer, Enqueue(t)
      PROVE  OwnLines(u)'
  <2>1. /\ GoOn(t) /\ todo[t] # <<>> /\ pc[t] # "out"
        /\ todo' = [todo EXCEPT ![t] = Tail(@)] /\ cur' = cur /\ sent' = sent
    BY <1>9 DEF Enqueue, At, logVars
  <2> QED
    BY <1>0, <1>3, <2>1
<1>10. ASSUME NEW x \in Actor, EmitBegin(x) \/ EmitSink(x)
       PROVE  OwnLines(u)'
  <2>1. cur' = cur /\ sent' = sent /\ todo' = todo
    BY <1>10 DEF EmitBegin, EmitSink, logVars
  <2>2. pc'[u] # "out" => pc[u] # "out"
    BY <1>0, <1>10 DEF EmitBegin, EmitSink, Go, At
  <2> QED
    BY <1>1, <2>1, <2>2 DEF OwnLines
<1>11. ASSUME NEW x \in Actor, EmitEnd(x)
       PROVE  OwnLines(u)'
  <2>1. /\ GoOn(x) /\ pc[x] = "emit"
        /\ todo' = [todo EXCEPT ![x] = Tail(@)] /\ cur' = cur /\ sent' = sent
    BY <1>11 DEF EmitEnd, At, logVars
  <2>2. todo[x] # <<>>
    BY <2>1 DEF PlaceAgrees
  <2> QED
    BY <1>3, <2>1, <2>2
<1> QED
  BY <1>4, <1>5, <1>6, <1>7, <1>8, <1>9, <1>10, <1>11 DEF Kinds

\* The places of the threads agree after every step.
LEMMA PlacesKept ==
  ASSUME SinksAssumption, RunType, HeldType, LineType, PlaceAgrees, Kinds
  PROVE  PlaceAgrees'
<1>0. /\ Worker \in Actor /\ \A t \in Writer : t \in Actor /\ t # Worker
      /\ DOMAIN pc = Actor /\ DOMAIN cur = Writer /\ sent \in Nat
      /\ \A t \in Writer : cur[t] \in Nat
  BY DEF SinksAssumption, Actor, RunType, LineType
<1>1. \A x \in Actor : (lock' = x <=> pc'[x] = "emit")
  BY LockKeeps
<1>2. \A x \in Actor : Emptied(x)'
  BY EmptiedKeeps
<1>3. \A t \in Writer : OwnLines(t)'
  BY OwnLinesKeep
<1>4. pc'[Worker] \notin Preparing
  <2>1. pc[Worker] \notin Preparing
    BY DEF PlaceAgrees
  <2>2. Change => pc' = pc
    BY DEF Change, writeVars
  <2>3. WorkerTake => pc'[Worker] = "send"
    BY <1>0 DEF WorkerTake, Go
  <2>4. ASSUME NEW t \in Writer, Log(t) \/ Refresh(t) \/ Renders(t) \/ Defers(t) \/ Enqueue(t)
        PROVE  pc'[Worker] = pc[Worker]
    <3>1. pc' = pc \/ \E p : pc' = [pc EXCEPT ![t] = p]
      BY <2>4 DEF Log, Refresh, Renders, Defers, Enqueue, Go, GoOn
    <3> QED
      BY <1>0, <3>1
  <2>5. ASSUME NEW x \in Actor, EmitBegin(x) \/ EmitSink(x) \/ EmitEnd(x)
        PROVE  pc'[Worker] \in {pc[Worker], "out", "emit", "send"}
    <3>1. pc' = pc \/ \E p \in {"out", "emit", "send"} : pc' = [pc EXCEPT ![x] = p]
      BY <2>5 DEF EmitBegin, EmitSink, EmitEnd, Go, GoOn
    <3> QED
      BY <1>0, <3>1
  <2> QED
    BY <2>1, <2>2, <2>3, <2>4, <2>5 DEF Kinds, Preparing
<1>5. \A t, u \in Writer : cur'[t] = cur'[u] /\ cur'[t] # 0 => t = u
  <2>1. \A t, u \in Writer : cur[t] = cur[u] /\ cur[t] # 0 => t = u
    BY DEF PlaceAgrees
  <2>2. cur' = cur \/ \E t \in Writer : cur' = [cur EXCEPT ![t] = sent + 1]
    BY DEF Kinds, Change, WorkerTake, Log, Refresh, Renders, Defers, Enqueue, EmitBegin,
           EmitSink, EmitEnd, logVars
  <2>3. \A t \in Writer : cur[t] # sent + 1
    <3>1. \A t \in Writer : cur[t] <= sent
      BY DEF PlaceAgrees
    <3> QED
      BY <1>0, <3>1
  <2> QED
    BY <1>0, <2>1, <2>2, <2>3
<1>6. /\ \A x \in Actor : /\ pc'[x] \in Preparing \cup {"out"} => todo'[x] = <<>>
                          /\ pc'[x] = "emit" => todo'[x] # <<>>
                          /\ pos'[x] >= 1
      /\ \A t \in Writer : /\ cur'[t] <= sent'
                           /\ pc'[t] # "out" => cur'[t] >= 1
                           /\ \A i \in DOMAIN todo'[t] : todo'[t][i].line = cur'[t]
  BY <1>2, <1>3 DEF Emptied, OwnLines
<1> QED
  BY <1>1, <1>4, <1>5, <1>6 DEF PlaceAgrees

-----------------------------------------------------------------------------
(***************************************************************************)
(* How rendered lines move.                                                *)
(***************************************************************************)

\* The places of rendered lines, and the same before and after a step.
LEMMA HeldNow ==
  ASSUME SinksAssumption, HeldType
  PROVE  /\ Held \in [Place -> Seq(Job)]
         /\ Nobody \in Place /\ Held[Nobody] = queue
         /\ Gone \in Place /\ Held[Gone] = dropped /\ Gone # Nobody
         /\ \A x \in Actor : x \in Place /\ x # Nobody /\ x # Gone /\ Held[x] = todo[x]
         /\ \A w \in Place : w = Nobody \/ w = Gone \/ w \in Actor
<1>1. todo \in [Actor -> Seq(Job)] /\ queue \in Seq(Job) /\ dropped \in Seq(Job)
  BY DEF HeldType
<1>2. /\ Held \in [Place -> Seq(Job)] /\ Nobody \in Place /\ Held[Nobody] = queue
      /\ Gone \in Place /\ Held[Gone] = dropped /\ Gone # Nobody
      /\ \A x \in Actor : x \in Place /\ x # Nobody /\ x # Gone /\ Held[x] = todo[x]
  BY <1>1, HeldIs DEF Held
<1>3. \A w \in Place : w = Nobody \/ w = Gone \/ w \in Actor
  BY DEF Place
<1> QED
  BY <1>2, <1>3

LEMMA HeldTyped ==
  ASSUME SinksAssumption, HeldType, HeldType'
  PROVE  /\ Held \in [Place -> Seq(Job)] /\ Held' \in [Place -> Seq(Job)]
         /\ Nobody \in Place /\ Held[Nobody] = queue /\ Held'[Nobody] = queue'
         /\ Gone \in Place /\ Held[Gone] = dropped /\ Held'[Gone] = dropped'
         /\ Gone # Nobody
         /\ \A x \in Actor : /\ x \in Place /\ x # Nobody /\ x # Gone
                             /\ Held[x] = todo[x] /\ Held'[x] = todo'[x]
         /\ \A t \in Writer : t \in Place
         /\ \A w \in Place : w = Nobody \/ w = Gone \/ w \in Actor
<1>1. todo' \in [Actor -> Seq(Job)] /\ queue' \in Seq(Job) /\ dropped' \in Seq(Job)
  BY DEF HeldType
<1>2. Held' = HeldBy(todo', queue', dropped')
  BY DEF Held, HeldBy
<1>3. /\ Held' \in [Place -> Seq(Job)] /\ Held'[Nobody] = queue' /\ Held'[Gone] = dropped'
      /\ \A x \in Actor : Held'[x] = todo'[x]
  BY <1>1, <1>2, HeldIs
<1> QED
  BY <1>3, HeldNow DEF Actor

\* Rendered lines are put where there were none.
LEMMA RendersPuts ==
  ASSUME SinksAssumption, HeldType, HeldType', PlaceAgrees, NEW t \in Writer, Renders(t)
  PROVE  \E s \in Seq(Job) : Rendered(t, s) /\ Put(Held, Held', t, s)
<1>1. PICK s \in Seq(Job) : /\ Rendered(t, s) /\ todo' = [todo EXCEPT ![t] = s]
                            /\ queue' = queue /\ dropped' = dropped
  BY DEF Renders
<1>2. t \in Actor /\ DOMAIN todo = Actor
  BY DEF Actor, HeldType
<1>3. todo[t] = <<>>
  BY <1>2 DEF Renders, At, PlaceAgrees, Preparing
<1>4. DOMAIN Held = Place
  BY HeldTyped
<1>5. \A w \in Place \ {t} : Held'[w] = Held[w]
  BY <1>1, <1>2, HeldTyped
<1>6. Held[t] = <<>> /\ Held'[t] = s
  BY <1>1, <1>2, <1>3, HeldTyped
<1> QED
  BY <1>1, <1>4, <1>5, <1>6 DEF Put

\* What dispatching a rendering in asynchronous mode does to the places: the
\* rendering moves, after the oldest one in the queue or alone.
EnqueueMove(t) ==
    \/ \E z \in {Nobody, Gone} : Moved(Held, Held', t, z)
    \/ \E h \in [Place -> Seq(Job)] :
          /\ Moved(Held, h, Nobody, Gone)
          /\ \E z \in {Nobody, Gone} : Moved(h, Held', t, z)

\* A line enters the queue or is dropped (core_dispatch_line).
LEMMA EnqueueMoves ==
  ASSUME SinksAssumption, HeldType, HeldType', NEW t \in Writer, Enqueue(t)
  PROVE  EnqueueMove(t)
<1>1. /\ todo[t] # <<>> /\ todo' = [todo EXCEPT ![t] = Tail(@)]
      /\ t \in Actor /\ DOMAIN todo = Actor
  BY DEF Enqueue, Actor, HeldType
<1>2. Tails(t)
  BY EnqueueForms
<1>3. /\ DOMAIN Held = Place /\ Held[t] = todo[t] /\ t # Nobody /\ t # Gone
      /\ Held'[t] = Tail(Held[t]) /\ t \in Place
      /\ \A w \in Place \ {t, Nobody, Gone} : Held'[w] = Held[w]
  BY <1>1, HeldTyped
<1>4. CASE queue' = Append(queue, Head(todo[t])) /\ dropped' = dropped
  <2>1. Moved(Held, Held', t, Nobody)
    BY <1>1, <1>3, <1>4, HeldTyped DEF Moved
  <2> QED
    BY <2>1 DEF EnqueueMove
<1>5. CASE dropped' = Append(dropped, Head(todo[t])) /\ queue' = queue
  <2>1. Moved(Held, Held', t, Gone)
    BY <1>1, <1>3, <1>5, HeldTyped DEF Moved
  <2> QED
    BY <2>1 DEF EnqueueMove
<1>6. CASE /\ queue # <<>>
           /\ \/ /\ queue' = Append(Tail(queue), Head(todo[t]))
                 /\ dropped' = Append(dropped, Head(queue))
              \/ /\ queue' = Tail(queue)
                 /\ dropped' = Append(Append(dropped, Head(queue)), Head(todo[t]))
  <2> DEFINE q == Tail(queue)
             d == Append(dropped, Head(queue))
             h == [w \in Place |-> IF w = Nobody THEN q ELSE IF w = Gone THEN d ELSE Held[w]]
  <2>1. q \in Seq(Job) /\ d \in Seq(Job)
    BY <1>6, TakenAndAdded DEF HeldType
  <2>2. q = Tail(queue) /\ d = Append(dropped, Head(queue))
    OBVIOUS
  <2>3. \/ queue' = Append(q, Head(todo[t])) /\ dropped' = d
        \/ queue' = q /\ dropped' = Append(d, Head(todo[t]))
    BY <1>6
  <2> HIDE DEF q, d
  <2>4. h \in [Place -> Seq(Job)]
    BY <2>1, HeldTyped
  <2>5. /\ h[Nobody] = q /\ h[Gone] = d /\ DOMAIN h = Place
        /\ \A w \in Place \ {Nobody, Gone} : h[w] = Held[w]
    BY HeldTyped
  <2> HIDE DEF h
  <2>6. Moved(Held, h, Nobody, Gone)
    BY <1>3, <1>6, <2>2, <2>5, HeldTyped DEF Moved
  <2>7. h[t] = Held[t]
    BY <1>3, <2>5
  <2>8. CASE queue' = Append(q, Head(todo[t])) /\ dropped' = d
    <3>1. Moved(h, Held', t, Nobody)
      BY <1>1, <1>3, <2>5, <2>7, <2>8, HeldTyped DEF Moved
    <3> QED
      BY <2>4, <2>6, <3>1 DEF EnqueueMove
  <2>9. CASE queue' = q /\ dropped' = Append(d, Head(todo[t]))
    <3>1. Moved(h, Held', t, Gone)
      BY <1>1, <1>3, <2>5, <2>7, <2>9, HeldTyped DEF Moved
    <3> QED
      BY <2>4, <2>6, <3>1 DEF EnqueueMove
  <2> QED
    BY <2>3, <2>8, <2>9
<1> QED
  BY <1>2, <1>4, <1>5, <1>6 DEF Tails

\* The worker takes a line from the queue (worker_main).
LEMMA TakeMoves ==
  ASSUME SinksAssumption, HeldType, HeldType', PlaceAgrees, WorkerTake
  PROVE  Moved(Held, Held', Nobody, Worker)
<1>1. /\ queue # <<>> /\ queue' = Tail(queue) /\ dropped' = dropped
      /\ todo' = [todo EXCEPT ![Worker] = <<Head(queue)>>]
  BY DEF WorkerTake
<1>2. Worker \in Actor /\ DOMAIN todo = Actor
  BY DEF Actor, HeldType
<1>3. todo[Worker] = <<>>
  BY <1>2 DEF WorkerTake, At, PlaceAgrees
<1>4. DOMAIN Held = Place /\ Worker # Nobody
  BY <1>2, HeldTyped
<1>5. \A w \in Place \ {Nobody, Worker} : Held'[w] = Held[w]
  BY <1>1, <1>2, HeldTyped
<1>6. Held[Worker] = <<>> /\ Held'[Worker] = <<Head(Held[Nobody])>>
  BY <1>1, <1>2, <1>3, HeldTyped
<1>7. <<Head(Held[Nobody])>> = Append(<<>>, Head(Held[Nobody]))
  OBVIOUS
<1>8. Held[Nobody] # <<>> /\ Held'[Nobody] = Tail(Held[Nobody])
  BY <1>1, HeldTyped
<1> QED
  BY <1>4, <1>5, <1>6, <1>7, <1>8 DEF Moved

\* The end of an emission takes its job away (hx_core_emit_to_sinks).
LEMMA EndDrops ==
  ASSUME SinksAssumption, HeldType, HeldType', PlaceAgrees, NEW x \in Actor, EmitEnd(x)
  PROVE  Dropped(Held, Held', x) /\ Held[x] = todo[x]
<1>1. todo' = [todo EXCEPT ![x] = Tail(@)] /\ queue' = queue /\ dropped' = dropped
  BY DEF EmitEnd
<1>2. todo[x] # <<>> /\ DOMAIN todo = Actor
  BY DEF EmitEnd, At, PlaceAgrees, HeldType
<1>3. DOMAIN Held = Place
  BY HeldTyped
<1>4. \A w \in Place \ {x} : Held'[w] = Held[w]
  BY <1>1, <1>2, HeldTyped
<1>5. Held[x] = todo[x] /\ Held'[x] = Tail(Held[x])
  BY <1>1, <1>2, HeldTyped
<1> QED
  BY <1>2, <1>3, <1>4, <1>5 DEF Dropped

\* The steps that leave the rendered lines where they are.
StillStep ==
    \/ Change
    \/ \E t \in Writer : Log(t) \/ Refresh(t) \/ Defers(t)
    \/ \E x \in Actor : EmitBegin(x) \/ EmitSink(x)

\* They leave them there.
LEMMA StillKeeps ==
  ASSUME StillStep
  PROVE  Held' = Held
<1>1. UNCHANGED <<todo, queue, dropped>>
  BY DEF StillStep, Change, writeVars, Log, Refresh, Defers, EmitBegin, EmitSink
<1> QED
  BY <1>1 DEF Held, HeldBy

\* No step but a rendering makes a job, and none doubles one.
LEMMA NothingNew ==
  ASSUME SinksAssumption, HeldType, HeldType', PlaceAgrees, Kinds,
         ~ \E t \in Writer : Renders(t), NEW J
  PROVE  /\ SomeIn(Held', J) => SomeIn(Held, J)
         /\ SingleIn(Held, J) => SingleIn(Held', J)
         /\ (~ \E x \in Actor : EmitEnd(x)) => (SomeIn(Held', J) <=> SomeIn(Held, J))
<1> DEFINE f == Held
           g == Held'
<1>1. f \in [Place -> Seq(Job)] /\ g \in [Place -> Seq(Job)]
  BY HeldTyped
<1>2. /\ Nobody \in Place /\ Gone \in Place /\ Worker \in Place
      /\ \A t \in Writer : t \in Place
  BY DEF Place, Actor
<1>3. \A x \in Actor : x \in Place
  BY DEF Place
<1>4. CASE StillStep
  <2>1. g = f
    BY <1>4, StillKeeps
  <2> QED
    BY <2>1
<1>5. CASE WorkerTake
  <2>1. Moved(f, g, Nobody, Worker)
    BY <1>5, TakeMoves
  <2> HIDE DEF f, g
  <2>2. (SomeIn(g, J) <=> SomeIn(f, J)) /\ (SingleIn(f, J) => SingleIn(g, J))
    BY <1>1, <1>2, <2>1, MovedKeeps
  <2> QED
    BY <2>2 DEF f, g
<1>6. ASSUME NEW t \in Writer, Enqueue(t)
      PROVE  (SomeIn(Held', J) <=> SomeIn(Held, J)) /\ (SingleIn(Held, J) => SingleIn(Held', J))
  <2>1. EnqueueMove(t)
    BY <1>6, EnqueueMoves
  <2>2. CASE \E z \in {Nobody, Gone} : Moved(f, g, t, z)
    <3> HIDE DEF f, g
    <3>1. (SomeIn(g, J) <=> SomeIn(f, J)) /\ (SingleIn(f, J) => SingleIn(g, J))
      BY <1>1, <1>2, <2>2, MovedKeeps
    <3> QED
      BY <3>1 DEF f, g
  <2>3. ASSUME NEW h \in [Place -> Seq(Job)], Moved(f, h, Nobody, Gone),
               NEW z \in {Nobody, Gone}, Moved(h, g, t, z)
        PROVE  (SomeIn(g, J) <=> SomeIn(f, J)) /\ (SingleIn(f, J) => SingleIn(g, J))
    <3> HIDE DEF f, g
    <3>1. (SomeIn(h, J) <=> SomeIn(f, J)) /\ (SingleIn(f, J) => SingleIn(h, J))
      BY <1>1, <1>2, <2>3, MovedKeeps
    <3>2. z \in Place
      BY <1>2
    <3>3. (SomeIn(g, J) <=> SomeIn(h, J)) /\ (SingleIn(h, J) => SingleIn(g, J))
      BY <1>1, <1>2, <2>3, <3>2, MovedKeeps
    <3> QED
      BY <3>1, <3>3
  <2> QED
    BY <2>1, <2>2, <2>3 DEF EnqueueMove
<1>7. ASSUME NEW x \in Actor, EmitEnd(x)
      PROVE  (SomeIn(Held', J) => SomeIn(Held, J)) /\ (SingleIn(Held, J) => SingleIn(Held', J))
  <2>1. Dropped(f, g, x)
    BY <1>7, EndDrops
  <2> HIDE DEF f, g
  <2>2. /\ SingleIn(f, J) => SingleIn(g, J)
        /\ Head(f[x]) \notin J => (SomeIn(g, J) <=> SomeIn(f, J))
        /\ Head(f[x]) \in J => SomeIn(f, J) /\ (SingleIn(f, J) => ~SomeIn(g, J))
    BY <1>1, <1>3, <2>1, DroppedKeeps
  <2>3. SomeIn(g, J) => SomeIn(f, J)
    BY <2>2
  <2> QED
    BY <2>2, <2>3 DEF f, g
<1> QED
  BY <1>4, <1>5, <1>6, <1>7 DEF Kinds, StillStep

\* The jobs that a rendering puts.
New(t, j) ==
    \E s \in Seq(Job) : Rendered(t, s) /\ Put(Held, Held', t, s) /\ j \in Range(s)

\* A job was there before the step or is rendered in it.
LEMMA Origin ==
  ASSUME SinksAssumption, HeldType, HeldType', PlaceAgrees, Kinds,
         NEW y \in Place, NEW i \in DOMAIN Held'[y]
  PROVE  \/ \E z \in Place : \E k \in DOMAIN Held[z] : Held[z][k] = Held'[y][i]
         \/ \E t \in Writer : Renders(t) /\ New(t, Held'[y][i])
<1>1. DOMAIN Held = Place /\ DOMAIN Held' = Place
  BY HeldTyped
<1>2. CASE ~ \E t \in Writer : Renders(t)
  <2> DEFINE J == {Held'[y][i]}
  <2>1. SomeIn(Held', J)
    BY <1>1 DEF SomeIn
  <2>2. J = {Held'[y][i]}
    OBVIOUS
  <2> HIDE DEF J
  <2>3. SomeIn(Held, J)
    BY <1>2, <2>1, NothingNew
  <2> QED
    BY <1>1, <2>2, <2>3 DEF SomeIn
<1>3. ASSUME NEW t \in Writer, Renders(t)
      PROVE  \/ \E z \in Place : \E k \in DOMAIN Held[z] : Held[z][k] = Held'[y][i]
             \/ New(t, Held'[y][i])
  <2>1. PICK s \in Seq(Job) : Rendered(t, s) /\ Put(Held, Held', t, s)
    BY <1>3, RendersPuts
  <2>2. CASE y = t
    <3>1. Held'[y] = s
      BY <2>1, <2>2 DEF Put
    <3>2. Held'[y][i] \in Range(s)
      BY <3>1 DEF Range
    <3> QED
      BY <2>1, <3>2 DEF New
  <2>3. CASE y # t
    BY <1>1, <2>1, <2>3 DEF Put
  <2> QED
    BY <2>2, <2>3
<1> QED
  BY <1>2, <1>3

-----------------------------------------------------------------------------
(***************************************************************************)
(* Lines before they are rendered, and the formats of rendered lines.      *)
(***************************************************************************)

\* A step that is not a thread's own leaves its place; a thread begins to
\* prepare a line by logging it, and ends by rendering it.
LEMMA EarlyAfter ==
  ASSUME SinksAssumption, RunType, LineType, PlaceAgrees, Kinds, NEW l \in Line
  PROVE  /\ Early(l)' => \/ Early(l) /\ ~ \E t \in Writer : Renders(t) /\ cur[t] = l
                         \/ \E t \in Writer : Log(t) /\ l = sent + 1
         /\ Early(l) => \/ Early(l)'
                        \/ \E t \in Writer : Renders(t) /\ cur[t] = l
<1>0. /\ \A t \in Writer : t \in Actor /\ t # Worker /\ cur[t] \in Nat /\ cur[t] <= sent
      /\ DOMAIN pc = Actor /\ DOMAIN cur = Writer /\ sent \in Nat /\ l # 0 /\ l \in Nat
      /\ \A t, u \in Writer : cur[t] = cur[u] /\ cur[t] # 0 => t = u
  BY DEF SinksAssumption, Actor, RunType, LineType, PlaceAgrees, Line
<1>1. CASE /\ \A t \in Writer : pc'[t] = pc[t] \/ {pc'[t], pc[t]} \cap Preparing = {}
           /\ cur' = cur /\ ~ \E t \in Writer : Renders(t)
  BY <1>1 DEF Early
<1>2. Change \/ WorkerTake \/ (\E t \in Writer : Enqueue(t))
         \/ (\E x \in Actor : EmitBegin(x) \/ EmitSink(x) \/ EmitEnd(x))
      => /\ \A t \in Writer : pc'[t] = pc[t] \/ {pc'[t], pc[t]} \cap Preparing = {}
         /\ cur' = cur
  <2>1. Change => pc' = pc /\ cur' = cur
    BY DEF Change, writeVars, logVars
  <2>2. WorkerTake => (\A t \in Writer : pc'[t] = pc[t]) /\ cur' = cur
    BY <1>0 DEF WorkerTake, Go, logVars
  <2>3. ASSUME NEW t \in Writer, Enqueue(t)
        PROVE  /\ \A u \in Writer : pc'[u] = pc[u] \/ {pc'[u], pc[u]} \cap Preparing = {}
               /\ cur' = cur
    <3>1. pc[t] = "send" /\ \E p \in {"out", "send"} : pc' = [pc EXCEPT ![t] = p]
      BY <2>3 DEF Enqueue, At, Go, GoOn
    <3>2. cur' = cur
      BY <2>3 DEF Enqueue, logVars
    <3> QED
      BY <1>0, <3>1, <3>2 DEF Preparing
  <2>4. ASSUME NEW x \in Actor, EmitBegin(x) \/ EmitSink(x) \/ EmitEnd(x)
        PROVE  /\ \A t \in Writer : pc'[t] = pc[t] \/ {pc'[t], pc[t]} \cap Preparing = {}
               /\ cur' = cur
    <3>1. pc' = pc \/ ( /\ pc[x] \in {"send", "emit"}
                        /\ \E p \in {"out", "emit", "send"} : pc' = [pc EXCEPT ![x] = p])
      BY <2>4 DEF EmitBegin, EmitSink, EmitEnd, Go, GoOn, At
    <3>2. \A t \in Writer : pc'[t] = pc[t] \/ {pc'[t], pc[t]} \cap Preparing = {}
      BY <1>0, <3>1 DEF Preparing
    <3>3. cur' = cur
      BY <2>4 DEF EmitBegin, EmitSink, EmitEnd, logVars
    <3> QED
      BY <3>2, <3>3
  <2> QED
    BY <2>1, <2>2, <2>3, <2>4
<1>3. ASSUME NEW t \in Writer, Log(t)
      PROVE  /\ Early(l)' => \/ Early(l) /\ ~ \E u \in Writer : Renders(u) /\ cur[u] = l
                             \/ l = sent + 1
             /\ Early(l) => Early(l)'
  <2>1. /\ cur' = [cur EXCEPT ![t] = sent + 1] /\ pc[t] = "out"
        /\ \E p \in Preparing : pc' = [pc EXCEPT ![t] = p]
    BY <1>3 DEF Log, Go, At, Preparing
  <2>2. sent' = sent + 1
    BY <1>3 DEF Log
  <2>3. ~ \E u \in Writer : Renders(u)
    <3>1. \A u \in Writer : Renders(u) => sent' = sent
      BY DEF Renders, logVars
    <3> QED
      BY <1>0, <2>2, <3>1
  <2>4. Early(l)' => Early(l) \/ l = sent + 1
    BY <1>0, <2>1 DEF Early, Preparing
  <2>5. Early(l) => Early(l)'
    BY <1>0, <2>1 DEF Early, Preparing
  <2> QED
    BY <2>3, <2>4, <2>5
<1>4. ASSUME NEW t \in Writer, Refresh(t) \/ Defers(t)
      PROVE  /\ Early(l)' <=> Early(l)
             /\ ~ \E u \in Writer : Renders(u)
  <2>1. /\ cur' = cur /\ todo' = todo /\ pc[t] \in Preparing
        /\ \E p \in {"render", "snap"} : pc' = [pc EXCEPT ![t] = p]
    BY <1>4 DEF Refresh, Defers, Go, At, Preparing, logVars
  <2>2. Early(l)' <=> Early(l)
    BY <1>0, <2>1 DEF Early, Preparing
  <2>3. \A u \in Writer : ~Renders(u)
    <3> SUFFICES ASSUME NEW u \in Writer, Renders(u) PROVE FALSE
      OBVIOUS
    <3>1. pc' = [pc EXCEPT ![u] = "send"] /\ pc[u] \in {"render", "snap"}
      BY DEF Renders, Go, At
    <3>2. pc'[u] = "send"
      BY <1>0, <3>1
    <3> QED
      BY <1>0, <2>1, <3>1, <3>2
  <2> QED
    BY <2>2, <2>3
<1>5. ASSUME NEW t \in Writer, Renders(t)
      PROVE  /\ Early(l)' => Early(l) /\ ~ \E u \in Writer : Renders(u) /\ cur[u] = l
             /\ Early(l) => Early(l)' \/ \E u \in Writer : Renders(u) /\ cur[u] = l
  <2>1. cur' = cur /\ pc' = [pc EXCEPT ![t] = "send"] /\ pc[t] \in Preparing
    BY <1>5 DEF Renders, Go, At, Preparing, logVars
  <2>2. \A u \in Writer : Renders(u) => u = t
    <3> SUFFICES ASSUME NEW u \in Writer, Renders(u) PROVE u = t
      OBVIOUS
    <3>1. pc' = [pc EXCEPT ![u] = "send"] /\ pc[u] \in {"render", "snap"}
      BY DEF Renders, Go, At
    <3>2. pc'[u] = "send"
      BY <1>0, <3>1
    <3> QED
      BY <1>0, <2>1, <3>1, <3>2
  <2>3. Early(l)' => Early(l) /\ cur[t] # l
    <3> SUFFICES ASSUME NEW u \in Writer, cur'[u] = l, pc'[u] \in Preparing
                 PROVE  Early(l) /\ cur[t] # l
      BY DEF Early
    <3>1. u # t
      BY <1>0, <2>1 DEF Preparing
    <3>2. pc[u] = pc'[u] /\ cur[u] = l
      BY <1>0, <2>1, <3>1
    <3> QED
      BY <1>0, <3>1, <3>2 DEF Early
  <2>4. Early(l) /\ cur[t] # l => Early(l)'
    BY <1>0, <2>1 DEF Early
  <2> QED
    BY <1>5, <2>2, <2>3, <2>4
<1>6. CASE \E t \in Writer : Renders(t)
  BY <1>5, <1>6
<1>7. CASE ~ \E t \in Writer : Renders(t)
  BY <1>1, <1>2, <1>3, <1>4, <1>7 DEF Kinds
<1> QED
  BY <1>6, <1>7

\* What a step does to the lines logged so far.
LEMMA HistoryKept ==
  ASSUME SinksAssumption, LineType, Kinds
  PROVE  /\ sent \in Nat /\ sent' \in {sent, sent + 1}
         /\ sent' # sent => \E t \in Writer : Log(t)
         /\ \A l \in Line : l # sent' \/ sent' = sent => began'[l] = began[l]
         /\ got' # got => \E x \in Actor : EmitSink(x)
<1>0. sent \in Nat /\ MaxLines \in Nat
  BY DEF LineType, SinksAssumption
<1>1. CASE Change
  BY <1>0, <1>1 DEF Change, writeVars, logVars
<1>2. CASE WorkerTake
  BY <1>0, <1>2 DEF WorkerTake, logVars
<1>3. ASSUME NEW t \in Writer, Log(t)
      PROVE  /\ sent' = sent + 1 /\ got' = got
             /\ \A l \in Line : l # sent' => began'[l] = began[l]
  <2>1. sent' = sent + 1 /\ got' = got /\ began' = [began EXCEPT ![sent + 1] = fmt]
    BY <1>3 DEF Log
  <2> QED
    BY <2>1 DEF LineType
<1>4. ASSUME NEW t \in Writer, Refresh(t) \/ Renders(t) \/ Defers(t) \/ Enqueue(t)
      PROVE  sent' = sent /\ began' = began /\ got' = got
  BY <1>4 DEF Refresh, Renders, Defers, Enqueue, logVars
<1>5. ASSUME NEW x \in Actor, EmitBegin(x) \/ EmitEnd(x)
      PROVE  sent' = sent /\ began' = began /\ got' = got
  BY <1>5 DEF EmitBegin, EmitEnd, logVars
<1>6. ASSUME NEW x \in Actor, EmitSink(x)
      PROVE  sent' = sent /\ began' = began
  BY <1>6 DEF EmitSink, logVars
<1>7. CASE \E t \in Writer : Log(t)
  <2>1. sent' # sent
    BY <1>0, <1>3, <1>7
  <2> QED
    BY <1>0, <1>3, <1>7, <2>1
<1>8. CASE \E x \in Actor : EmitSink(x)
  BY <1>0, <1>6, <1>8
<1>9. CASE \/ \E t \in Writer : Refresh(t) \/ Renders(t) \/ Defers(t) \/ Enqueue(t)
           \/ \E x \in Actor : EmitBegin(x) \/ EmitEnd(x)
  <2>1. sent' = sent /\ began' = began /\ got' = got
    BY <1>4, <1>5, <1>9
  <2> QED
    BY <1>0, <2>1
<1> QED
  BY <1>1, <1>2, <1>7, <1>8, <1>9 DEF Kinds

\* A job on its way is one of its line.
LEMMA HeldIn ==
  ASSUME SinksAssumption, HeldType, HeldType', NEW J, NEW y \in Place,
         NEW i \in DOMAIN Held[y], Held[y][i] \in J
  PROVE  SomeIn(Held, J)
<1>1. DOMAIN Held = Place
  BY HeldTyped
<1> QED
  BY <1>1 DEF SomeIn

\* A line that is emitted is on its way, so no thread still prepares it.
LEMMA EmittedIsHeld ==
  ASSUME SinksAssumption, HeldType, HeldType', PlaceAgrees, LinesAgree,
         NEW x \in Actor, pc[x] = "emit"
  PROVE  /\ Head(todo[x]).line \in Line /\ Head(todo[x]).line <= sent
         /\ SomeIn(Held, Of(Head(todo[x]).line)) /\ ~Early(Head(todo[x]).line)
<1> DEFINE job == Head(todo[x])
<1>1. /\ job \in Job /\ job.line \in Line /\ 1 \in DOMAIN todo[x] /\ todo[x][1] = job
  BY EmittedJob
<1>2. x \in Place /\ Held[x] = todo[x]
  BY HeldTyped
<1>3. job \in Of(job.line)
  BY <1>1 DEF Of
<1> HIDE DEF job
<1>4. SomeIn(Held, Of(job.line))
  BY <1>1, <1>2, <1>3, HeldIn
<1>5. job.line <= sent
  BY <1>1, <1>2 DEF LinesAgree
<1>6. ~Early(job.line)
  BY <1>1, <1>4 DEF LinesAgree
<1> QED
  BY <1>1, <1>4, <1>5, <1>6 DEF job

\* Lines that are not rendered yet stay nowhere.
LEMMA LinesKept ==
  ASSUME SinksAssumption, TableType, RunType, HeldType, HeldType', LineType, PlaceAgrees,
         LinesAgree, Kinds
  PROVE  LinesAgree'
<1>0. /\ sent \in Nat /\ sent' \in {sent, sent + 1}
      /\ \A l \in Line : l # sent' \/ sent' = sent => began'[l] = began[l]
      /\ got' # got => \E x \in Actor : EmitSink(x)
  BY HistoryKept
<1>1. ASSUME NEW y \in Place, NEW i \in DOMAIN Held'[y]
      PROVE  Held'[y][i].line <= sent'
  <2>1. \/ \E z \in Place : \E k \in DOMAIN Held[z] : Held[z][k] = Held'[y][i]
        \/ \E t \in Writer : Renders(t) /\ New(t, Held'[y][i])
    BY <1>1, Origin
  <2>2. CASE \E z \in Place : \E k \in DOMAIN Held[z] : Held[z][k] = Held'[y][i]
    <3>1. PICK z \in Place : \E k \in DOMAIN Held[z] : Held[z][k] = Held'[y][i]
      BY <2>2
    <3>2. PICK k \in DOMAIN Held[z] : Held[z][k] = Held'[y][i]
      BY <3>1
    <3>3. Held[z][k].line <= sent /\ Held[z][k].line \in Line
      <4>1. Held \in [Place -> Seq(Job)]
        BY HeldTyped
      <4>2. Held[z][k] \in Job
        BY <4>1
      <4> QED
        BY <4>2 DEF LinesAgree, Job
    <3>4. Held'[y][i].line \in Nat /\ Held'[y][i].line <= sent
      BY <3>2, <3>3 DEF Line
    <3> QED
      BY <1>0, <3>4
  <2>3. ASSUME NEW t \in Writer, New(t, Held'[y][i])
        PROVE  Held'[y][i].line <= sent'
    <3>1. Held'[y][i].line = cur[t]
      BY <2>3 DEF New, Rendered, Range
    <3>2. cur[t] <= sent /\ cur[t] \in Nat
      BY DEF PlaceAgrees, LineType
    <3> QED
      BY <1>0, <3>1, <3>2
  <2> QED
    BY <2>1, <2>2, <2>3
<1>2. ASSUME NEW l \in Line, l > sent \/ Early(l)
      PROVE  got'[l] = got[l]
  <2> SUFFICES ASSUME NEW x \in Actor, EmitSink(x) PROVE got'[l] = got[l]
    BY <1>0
  <2> DEFINE job == Head(todo[x])
             s == table[pos[x]]
  <2>1. job = Head(todo[x]) /\ s = table[pos[x]]
    OBVIOUS
  <2>2. pc[x] = "emit"
    BY DEF EmitSink, At
  <2>3. job.line <= sent /\ ~Early(job.line)
    BY <2>2, EmittedIsHeld
  <2> HIDE DEF job, s
  <2>4. job.line \in Line /\ \A m \in Line : m # job.line => got'[m] = got[m]
    BY <2>1, Delivers
  <2>5. l # job.line
    BY <1>0, <1>2, <2>3, <2>4 DEF Line
  <2> QED
    BY <2>4, <2>5
<1>3. ASSUME NEW l \in Line, l > sent'
      PROVE  began'[l] = 0 /\ got'[l] = <<>>
  <2>1. l > sent /\ l # sent' /\ l \in Nat
    BY <1>0, <1>3 DEF Line
  <2>2. got[l] = <<>> /\ began[l] = 0
    BY <2>1 DEF LinesAgree
  <2> QED
    BY <1>0, <1>2, <2>1, <2>2
<1>4. ASSUME NEW l \in Line, Early(l)'
      PROVE  got'[l] = <<>> /\ ~SomeIn(Held', Of(l))
  <2>1. \/ Early(l) /\ ~ \E t \in Writer : Renders(t) /\ cur[t] = l
        \/ \E t \in Writer : Log(t) /\ l = sent + 1
    BY <1>4, EarlyAfter
  <2>2. Early(l) \/ l > sent
    BY <1>0, <2>1
  <2>3. got[l] = <<>>
    BY <2>2 DEF LinesAgree
  <2>4. got'[l] = <<>>
    BY <1>2, <2>2, <2>3
  <2>5. ~SomeIn(Held, Of(l))
    <3>1. CASE Early(l)
      BY <3>1 DEF LinesAgree
    <3>2. CASE l > sent
      <4> SUFFICES ASSUME NEW y \in Place, NEW i \in DOMAIN Held[y], Held[y][i] \in Of(l)
                   PROVE  FALSE
        BY HeldTyped DEF SomeIn
      <4>1. Held[y][i].line <= sent /\ Held[y][i].line = l
        BY DEF LinesAgree, Of
      <4> QED
        BY <1>0, <3>2, <4>1 DEF Line
    <3> QED
      BY <2>2, <3>1, <3>2
  <2>6. ~SomeIn(Held', Of(l))
    <3> SUFFICES ASSUME NEW y \in Place, NEW i \in DOMAIN Held'[y], Held'[y][i] \in Of(l)
                 PROVE  FALSE
      BY HeldTyped DEF SomeIn
    <3>1. \/ \E z \in Place : \E k \in DOMAIN Held[z] : Held[z][k] = Held'[y][i]
          \/ \E t \in Writer : Renders(t) /\ New(t, Held'[y][i])
      BY Origin
    <3>2. ~ \E z \in Place : \E k \in DOMAIN Held[z] : Held[z][k] = Held'[y][i]
      BY <2>5, HeldTyped DEF SomeIn
    <3>3. PICK t \in Writer : Renders(t) /\ New(t, Held'[y][i])
      BY <3>1, <3>2
    <3>4. cur[t] = l
      BY <3>3 DEF New, Rendered, Range, Of
    <3>5. \E u \in Writer : Log(u) /\ l = sent + 1
      BY <2>1, <3>3, <3>4
    <3>6. cur[t] <= sent
      BY DEF PlaceAgrees
    <3> QED
      BY <1>0, <3>4, <3>5, <3>6
  <2> QED
    BY <2>4, <2>6
<1> QED
  BY <1>1, <1>3, <1>4 DEF LinesAgree

\* The version of the format and the number of changes grow together.
LEMMA FormatMoves ==
  ASSUME SinksAssumption, TableType, LineType, TableAgrees, Kinds
  PROVE  /\ ops' \in {ops, ops + 1}
         /\ \/ fmt' = fmt /\ gen' = gen
            \/ fmt' = fmt + 1 /\ gen' = Bump(gen) /\ ops' = ops + 1
<1>1. TableOp => fmt' = fmt /\ gen' = gen
  BY TableOps
<1>2. SetFormat \/ Swap => fmt' = fmt + 1 /\ gen' = Bump(gen)
  BY DEF SetFormat, Swap
<1>3. CASE Change
  BY <1>1, <1>2, <1>3 DEF Change
<1>4. ASSUME NEW x \in Actor, EmitSink(x)
      PROVE  \/ UNCHANGED <<fmt, gen, ops>>
             \/ ops' = ops + 1 /\ (TableOp \/ SetFormat)
  BY <1>4 DEF EmitSink, tableVars
<1>5. CASE \E x \in Actor : EmitSink(x)
  BY <1>1, <1>2, <1>4, <1>5
<1>6. CASE \/ WorkerTake
           \/ \E t \in Writer : Log(t) \/ Refresh(t) \/ Renders(t) \/ Defers(t) \/ Enqueue(t)
           \/ \E x \in Actor : EmitBegin(x) \/ EmitEnd(x)
  BY <1>6 DEF WorkerTake, Log, Refresh, Renders, Defers, Enqueue, EmitBegin, EmitEnd,
              tableVars
<1> QED
  BY <1>3, <1>5, <1>6 DEF Kinds

\* The next version has the next generation, and none of those that a cache
\* can hold has the same (bump_format_gen_locked).
LEMMA GenOfNext ==
  ASSUME SinksAssumption, NEW v \in 1..(MaxOps + 1)
  PROVE  /\ GenOf(v) \in 1..(GenWidth - 1)
         /\ Bump(GenOf(v)) = GenOf(v + 1)
         /\ \A w \in 1..(MaxOps + 1) : GenOf(v) = GenOf(w) => v = w
<1>1. MaxOps \in Nat /\ GenWidth \in Nat /\ GenWidth > MaxOps + 2
  BY DEF SinksAssumption
<1>2. GenOf(v) \in 1..(GenWidth - 1)
  BY <1>1 DEF GenOf
<1>3. Bump(GenOf(v)) = IF GenOf(v) = GenWidth - 1 THEN 1 ELSE GenOf(v) + 1
  BY <1>2, BumpIs
<1>4. Bump(GenOf(v)) = GenOf(v + 1)
  <2>1. CASE v = 1
    BY <1>1, <1>3, <2>1 DEF GenOf
  <2>2. CASE v # 1
    <3>1. GenOf(v) = v - 1 /\ v - 1 # GenWidth - 1
      BY <1>1, <2>2 DEF GenOf
    <3>2. Bump(GenOf(v)) = (v - 1) + 1
      BY <1>3, <3>1
    <3>3. GenOf(v + 1) = (v + 1) - 1
      BY <1>1, <2>2 DEF GenOf
    <3> QED
      BY <1>1, <3>2, <3>3
  <2> QED
    BY <2>1, <2>2
<1>5. \A w \in 1..(MaxOps + 1) : GenOf(v) = GenOf(w) => v = w
  BY <1>1 DEF GenOf
<1> QED
  BY <1>2, <1>4, <1>5

\* Versions of the format that were ever current are few enough.
LEMMA VersionsBounded ==
  ASSUME SinksAssumption, TableType, LineType, GenAgrees
  PROVE  /\ fmt \in 1..(MaxOps + 1) /\ ops \in 0..MaxOps /\ MaxOps \in Nat
         /\ \A v \in 1..fmt : v \in 1..(MaxOps + 1)
<1>1. MaxOps \in Nat /\ ops \in 0..MaxOps /\ fmt \in Nat /\ fmt >= 1 /\ fmt <= ops + 1
  BY DEF SinksAssumption, TableType, LineType, GenAgrees
<1>2. fmt \in 1..(MaxOps + 1)
  BY <1>1
<1> QED
  BY <1>1, <1>2

\* A thread's copy of the format changes only when it is refreshed.
LEMMA CacheMoves ==
  ASSUME RunType, Kinds, NEW u \in Writer
  PROVE  \/ cache'[u] = cache[u]
         \/ Refresh(u) /\ cache'[u] = [gen |-> gen, fmt |-> fmt]
<1>1. ASSUME NEW t \in Writer, Refresh(t)
      PROVE  \/ cache'[u] = cache[u]
             \/ Refresh(u) /\ cache'[u] = [gen |-> gen, fmt |-> fmt]
  BY <1>1 DEF Refresh, RunType
<1>2. \/ Change \/ WorkerTake
      \/ \E t \in Writer : Log(t) \/ Renders(t) \/ Defers(t) \/ Enqueue(t)
      \/ \E x \in Actor : EmitBegin(x) \/ EmitSink(x) \/ EmitEnd(x)
      => cache' = cache
  BY DEF Change, writeVars, WorkerTake, Log, Renders, Defers, Enqueue, EmitBegin,
         EmitSink, EmitEnd
<1> QED
  BY <1>1, <1>2 DEF Kinds

\* The generation goes with the version, in every copy too.
LEMMA GenKept ==
  ASSUME SinksAssumption, TableType, RunType, LineType, TableAgrees, GenAgrees, Kinds
  PROVE  GenAgrees'
<1>0. /\ fmt \in 1..(MaxOps + 1) /\ ops \in 0..MaxOps /\ MaxOps \in Nat
      /\ fmt <= ops + 1 /\ gen = GenOf(fmt)
  BY VersionsBounded DEF GenAgrees
<1>1. /\ ops' \in {ops, ops + 1}
      /\ \/ fmt' = fmt /\ gen' = gen
         \/ fmt' = fmt + 1 /\ gen' = Bump(gen) /\ ops' = ops + 1
  BY FormatMoves
<1>2. fmt' >= 1 /\ fmt' <= ops' + 1 /\ fmt' >= fmt /\ fmt' \in Nat
  BY <1>0, <1>1
<1>3. gen' = GenOf(fmt')
  <2>1. Bump(GenOf(fmt)) = GenOf(fmt + 1)
    BY <1>0, GenOfNext
  <2> QED
    BY <1>0, <1>1, <2>1
<1>4. ASSUME NEW t \in Writer
      PROVE  cache'[t].gen = 0 \/ (cache'[t].fmt \in 1..fmt' /\ cache'[t].gen = GenOf(cache'[t].fmt))
  <2>1. cache[t].gen = 0 \/ (cache[t].fmt \in 1..fmt /\ cache[t].gen = GenOf(cache[t].fmt))
    BY DEF GenAgrees
  <2>2. \A v \in 1..fmt : v \in 1..fmt'
    BY <1>0, <1>2
  <2>3. fmt \in 1..fmt
    BY <1>0
  <2>4. CASE cache'[t] = cache[t]
    BY <2>1, <2>2, <2>4
  <2>5. CASE cache'[t] = [gen |-> gen, fmt |-> fmt]
    <3>1. cache'[t].gen = gen /\ cache'[t].fmt = fmt
      BY <2>5
    <3> QED
      BY <1>0, <2>2, <2>3, <3>1
  <2> QED
    BY <2>4, <2>5, CacheMoves
<1> QED
  BY <1>2, <1>3, <1>4 DEF GenAgrees, GenOf

\* A thread comes to render only by its own steps.
LEMMA ReadyMoves ==
  ASSUME SinksAssumption, RunType, LineType, Kinds,
         NEW u \in Writer, pc'[u] \in {"render", "snap"}
  PROVE  \/ Log(u)
         \/ Refresh(u) /\ cur'[u] = cur[u]
         \/ pc[u] \in {"render", "snap"} /\ cur'[u] = cur[u]
<1>0. /\ \A t \in Writer : t \in Actor /\ t # Worker
      /\ DOMAIN pc = Actor /\ DOMAIN cur = Writer
  BY DEF SinksAssumption, Actor, RunType, LineType
<1>1. Change => pc' = pc /\ cur' = cur
  BY DEF Change, writeVars, logVars
<1>2. WorkerTake => pc'[u] = pc[u] /\ cur' = cur
  BY <1>0 DEF WorkerTake, Go, logVars
<1>3. ASSUME NEW t \in Writer, Log(t), t # u PROVE pc'[u] = pc[u] /\ cur'[u] = cur[u]
  <2>1. (\E p : pc' = [pc EXCEPT ![t] = p]) /\ cur' = [cur EXCEPT ![t] = sent + 1]
    BY <1>3 DEF Log, Go
  <2> QED
    BY <1>0, <1>3, <2>1
<1>4. ASSUME NEW t \in Writer, Refresh(t) \/ Defers(t) \/ Renders(t) \/ Enqueue(t)
      PROVE  /\ cur' = cur
             /\ t # u => pc'[u] = pc[u]
             /\ Defers(t) => pc[t] = "render"
             /\ Renders(t) => pc'[t] = "send"
             /\ Enqueue(t) => pc[t] = "send" /\ pc'[t] \in {"out", "send"}
  <2>1. cur' = cur
    BY <1>4 DEF Refresh, Defers, Renders, Enqueue, logVars
  <2>2. pc' = pc \/ \E p : pc' = [pc EXCEPT ![t] = p]
    BY <1>4 DEF Refresh, Defers, Renders, Enqueue, Go, GoOn
  <2>3. Renders(t) => pc'[t] = "send"
    BY <1>0 DEF Renders, Go
  <2>4. Defers(t) => pc[t] = "render"
    BY DEF Defers, At
  <2>5. Enqueue(t) => pc[t] = "send" /\ pc'[t] \in {"out", "send"}
    BY <1>0 DEF Enqueue, At, Go, GoOn
  <2> QED
    BY <1>0, <2>1, <2>2, <2>3, <2>4, <2>5
<1>5. ASSUME NEW x \in Actor, EmitBegin(x) \/ EmitSink(x) \/ EmitEnd(x)
      PROVE  pc'[u] = pc[u] /\ cur' = cur
  <2>1. cur' = cur
    BY <1>5 DEF EmitBegin, EmitSink, EmitEnd, logVars
  <2>2. pc' = pc \/ \E p \in {"out", "emit", "send"} : pc' = [pc EXCEPT ![x] = p]
    BY <1>5 DEF EmitBegin, EmitSink, EmitEnd, Go, GoOn
  <2> QED
    BY <1>0, <2>1, <2>2
<1>6. CASE \E t \in Writer : Log(t)
  BY <1>3, <1>6
<1>7. CASE \E t \in Writer : Refresh(t) \/ Defers(t) \/ Renders(t) \/ Enqueue(t)
  BY <1>4, <1>7
<1>8. CASE \E x \in Actor : EmitBegin(x) \/ EmitSink(x) \/ EmitEnd(x)
  BY <1>5, <1>8
<1> QED
  BY <1>1, <1>2, <1>6, <1>7, <1>8 DEF Kinds

\* Formats of lines on their way and at the sinks stay timely.
LEMMA FormatKept ==
  ASSUME SinksAssumption, TableType, RunType, HeldType, HeldType', LineType, LineType',
         TableAgrees, PlaceAgrees, LinesAgree, GenAgrees, FormatAgrees, Kinds
  PROVE  FormatAgrees'
<1>0. /\ sent \in Nat /\ sent' \in {sent, sent + 1}
      /\ sent' # sent => \E t \in Writer : Log(t)
      /\ \A l \in Line : l # sent' \/ sent' = sent => began'[l] = began[l]
      /\ got' # got => \E x \in Actor : EmitSink(x)
  BY HistoryKept
<1>1. /\ fmt \in Nat /\ fmt \in 1..(MaxOps + 1) /\ MaxOps \in Nat /\ gen = GenOf(fmt)
      /\ fmt' \in {fmt, fmt + 1} /\ \A v \in 1..fmt : v \in 1..(MaxOps + 1)
  BY VersionsBounded, FormatMoves DEF GenAgrees
<1>2. \A l \in Line : began[l] \in Nat /\ began'[l] \in Nat
  BY DEF LineType
<1>3. ASSUME NEW t \in Writer, Log(t)
      PROVE  /\ sent' = sent + 1 /\ sent' \in Line /\ cur'[t] = sent' /\ began'[sent'] = fmt
             /\ fmt' = fmt /\ pc'[t] = IF cache[t].gen = gen THEN "render" ELSE "refresh"
  <2>1. /\ sent' = sent + 1 /\ cur' = [cur EXCEPT ![t] = sent + 1]
        /\ began' = [began EXCEPT ![sent + 1] = fmt] /\ sent < MaxLines /\ fmt' = fmt
    BY <1>3 DEF Log, tableVars
  <2>2. sent + 1 \in Line
    BY <1>0, <2>1 DEF Line, SinksAssumption
  <2>3. pc'[t] = IF cache[t].gen = gen THEN "render" ELSE "refresh"
    <3>1. pc' = [pc EXCEPT ![t] = IF cache[t].gen = gen THEN "render" ELSE "refresh"]
      BY <1>3 DEF Log, Go
    <3> QED
      BY <3>1 DEF RunType, Actor
  <2> QED
    BY <2>1, <2>2, <2>3 DEF LineType
<1>4. ASSUME NEW l \in Line PROVE began'[l] <= fmt'
  <2>1. CASE l # sent' \/ sent' = sent
    BY <1>0, <1>1, <1>2, <2>1 DEF FormatAgrees
  <2>2. CASE ~ (l # sent' \/ sent' = sent)
    <3>1. PICK t \in Writer : Log(t)
      BY <1>0, <2>2
    <3>2. began'[l] = fmt /\ fmt' = fmt
      BY <1>3, <2>2, <3>1
    <3> QED
      BY <1>1, <3>2
  <2> QED
    BY <2>1, <2>2
<1>5. ASSUME NEW l \in Line, l <= sent, NEW v \in Nat, Timely(l, v)
      PROVE  began'[l] <= v /\ v <= fmt'
  <2>1. l # sent' \/ sent' = sent
    BY <1>0, <1>5 DEF Line
  <2> QED
    BY <1>0, <1>1, <1>2, <1>5, <2>1 DEF Timely
<1>6. ASSUME NEW t \in Writer, pc'[t] \in {"render", "snap"}
      PROVE  began'[cur'[t]] <= cache'[t].fmt /\ cache'[t].fmt <= fmt'
  <2>1. \/ Log(t)
        \/ Refresh(t) /\ cur'[t] = cur[t]
        \/ pc[t] \in {"render", "snap"} /\ cur'[t] = cur[t]
    BY <1>6, ReadyMoves
  <2>2. \/ cache'[t] = cache[t]
        \/ Refresh(t) /\ cache'[t] = [gen |-> gen, fmt |-> fmt]
    BY CacheMoves
  <2>3. CASE Log(t)
    <3>1. cache' = cache
      BY <2>3 DEF Log
    <3>2. cache[t].gen = gen
      BY <1>3, <1>6, <2>3
    <3>3. gen # 0
      BY DEF TableType
    <3>4. cache[t].fmt \in 1..fmt /\ GenOf(cache[t].fmt) = GenOf(fmt)
      BY <1>1, <3>2, <3>3 DEF GenAgrees
    <3>5. cache[t].fmt \in 1..(MaxOps + 1)
      BY <1>1, <3>4
    <3>6. cache[t].fmt = fmt
      BY <1>1, <3>4, <3>5, GenOfNext
    <3>7. began'[cur'[t]] = fmt /\ fmt' = fmt
      BY <1>3, <2>3
    <3> QED
      BY <1>1, <3>1, <3>6, <3>7
  <2>4. CASE Refresh(t) /\ cur'[t] = cur[t]
    <3>1. pc[t] # "out" /\ cache' = [cache EXCEPT ![t] = [gen |-> gen, fmt |-> fmt]]
          /\ sent' = sent
      BY <2>4 DEF Refresh, At, logVars
    <3>2. cache'[t].fmt = fmt
      BY <3>1 DEF RunType
    <3>3. cur[t] \in Line
      BY <3>1, LineOf
    <3>4. began'[cur[t]] = began[cur[t]] /\ began[cur[t]] <= fmt
      BY <1>0, <3>1, <3>3 DEF FormatAgrees
    <3> QED
      BY <1>1, <2>4, <3>2, <3>4
  <2>5. CASE pc[t] \in {"render", "snap"} /\ cur'[t] = cur[t] /\ cache'[t] = cache[t]
    <3>1. cur[t] \in Line
      BY <2>5, LineOf
    <3>2. cur[t] <= sent
      BY DEF PlaceAgrees
    <3>3. Timely(cur[t], cache[t].fmt)
      BY <2>5 DEF FormatAgrees
    <3>4. cache[t].fmt \in Nat
      BY DEF RunType
    <3>5. began'[cur[t]] <= cache[t].fmt /\ cache[t].fmt <= fmt'
      BY <1>5, <3>1, <3>2, <3>3, <3>4
    <3> QED
      BY <2>5, <3>5
  <2>6. Refresh(t) => cur'[t] = cur[t]
    BY DEF Refresh, logVars
  <2> QED
    BY <2>1, <2>2, <2>3, <2>4, <2>5, <2>6
<1>7. ASSUME NEW y \in Place, NEW i \in DOMAIN Held'[y]
      PROVE  LET j == Held'[y][i] IN began'[j.line] <= j.fmt /\ j.fmt <= fmt'
  <2> DEFINE j == Held'[y][i]
  <2>1. \/ \E z \in Place : \E k \in DOMAIN Held[z] : Held[z][k] = j
        \/ \E t \in Writer : Renders(t) /\ New(t, j)
    BY Origin
  <2> HIDE DEF j
  <2>2. CASE \E z \in Place : \E k \in DOMAIN Held[z] : Held[z][k] = j
    <3>1. PICK z \in Place : \E k \in DOMAIN Held[z] : Held[z][k] = j
      BY <2>2
    <3>2. PICK k \in DOMAIN Held[z] : Held[z][k] = j
      BY <3>1
    <3>3. Held \in [Place -> Seq(Job)]
      BY HeldTyped
    <3>4. j \in Job
      BY <3>2, <3>3
    <3>5. j.line \in Line /\ j.fmt \in Nat
      BY <3>4 DEF Job
    <3>6. j.line <= sent /\ Timely(j.line, j.fmt)
      BY <3>2 DEF LinesAgree, FormatAgrees
    <3>7. began'[j.line] <= j.fmt /\ j.fmt <= fmt'
      BY <1>5, <3>5, <3>6
    <3> QED
      BY <3>7 DEF j
  <2>3. ASSUME NEW t \in Writer, Renders(t), New(t, j)
        PROVE  began'[j.line] <= j.fmt /\ j.fmt <= fmt'
    <3>1. j.line = cur[t] /\ j.fmt = cache[t].fmt
      BY <2>3 DEF New, Rendered, Range
    <3>2. pc[t] \in {"render", "snap"}
      BY <2>3 DEF Renders, At
    <3>3. cur[t] \in Line
      BY <3>2, LineOf
    <3>4. Timely(cur[t], cache[t].fmt) /\ cur[t] <= sent
      BY <3>2 DEF FormatAgrees, PlaceAgrees
    <3>5. cache[t].fmt \in Nat
      BY DEF RunType
    <3>6. began'[cur[t]] <= cache[t].fmt /\ cache[t].fmt <= fmt'
      BY <1>5, <3>3, <3>4, <3>5
    <3> QED
      BY <3>1, <3>6
  <2>4. began'[j.line] <= j.fmt /\ j.fmt <= fmt'
    BY <2>1, <2>2, <2>3 DEF j
  <2> QED
    BY <2>4 DEF j
<1>8. ASSUME NEW l \in Line, NEW k \in DOMAIN got'[l]
      PROVE  began'[l] <= got'[l][k].fmt /\ got'[l][k].fmt <= fmt'
  <2>1. ASSUME k \in DOMAIN got[l], got'[l][k] = got[l][k]
        PROVE  began'[l] <= got'[l][k].fmt /\ got'[l][k].fmt <= fmt'
    <3>1. l <= sent
      <4>1. got[l] # <<>>
        BY <2>1
      <4>2. ~ (l > sent)
        BY <4>1 DEF LinesAgree
      <4> QED
        BY <1>0, <4>2 DEF Line
    <3>2. Timely(l, got[l][k].fmt)
      BY <2>1 DEF FormatAgrees, FormatIsFresh, Timely, Range
    <3>3. got[l][k].fmt \in Nat
      <4>1. got[l] \in Seq(Entry)
        BY DEF LineType, Entry
      <4>2. got[l][k] \in Entry
        BY <2>1, <4>1
      <4> QED
        BY <4>2 DEF Entry
    <3>4. began'[l] <= got[l][k].fmt /\ got[l][k].fmt <= fmt'
      BY <1>5, <3>1, <3>2, <3>3
    <3> QED
      BY <2>1, <3>4
  <2>2. CASE got'[l] = got[l]
    BY <2>1, <2>2
  <2>3. CASE got'[l] # got[l]
    <3>1. PICK x \in Actor : EmitSink(x)
      BY <1>0, <2>3
    <3> DEFINE job == Head(todo[x])
               s == table[pos[x]]
    <3>2. pc[x] = "emit"
      BY <3>1 DEF EmitSink, At
    <3>3. job.line \in Line /\ job.line <= sent
      BY <3>2, EmittedIsHeld
    <3>4. job \in Job /\ 1 \in DOMAIN todo[x] /\ todo[x][1] = job
      BY <3>2, EmittedJob
    <3>5. x \in Place /\ Held[x] = todo[x]
      BY HeldTyped
    <3>6. Timely(job.line, job.fmt)
      BY <3>4, <3>5 DEF FormatAgrees
    <3>7. job = Head(todo[x]) /\ s = table[pos[x]]
      OBVIOUS
    <3> HIDE DEF job, s
    <3>8. /\ \A m \in Line : m # job.line => got'[m] = got[m]
          /\ ~Takes(job, s) => got' = got
          /\ Takes(job, s) => Longer(got[job.line], got'[job.line], EntryOf(job, s))
      BY <3>1, <3>7, Delivers
    <3>9. l = job.line /\ Takes(job, s)
      BY <2>3, <3>8
    <3>10. Longer(got[l], got'[l], EntryOf(job, s))
      BY <3>8, <3>9
    <3>11. k \in DOMAIN got[l] \/ k = Len(got[l]) + 1
      BY <3>10 DEF Longer
    <3>12. CASE k \in DOMAIN got[l]
      BY <2>1, <3>10, <3>12 DEF Longer
    <3>13. CASE k = Len(got[l]) + 1
      <4>1. got'[l][k].fmt = job.fmt
        BY <3>10, <3>13 DEF Longer, EntryOf
      <4>2. job.fmt \in Nat
        BY <3>4 DEF Job
      <4>3. began'[job.line] <= job.fmt /\ job.fmt <= fmt'
        BY <1>5, <3>3, <3>6, <4>2
      <4> QED
        BY <3>9, <4>1, <4>3
    <3> QED
      BY <3>11, <3>12, <3>13
  <2> QED
    BY <2>2, <2>3
<1>9. FormatIsFresh'
  BY <1>8 DEF FormatIsFresh, Range
<1> QED
  BY <1>4, <1>6, <1>7, <1>9 DEF FormatAgrees, Timely

-----------------------------------------------------------------------------
(***************************************************************************)
(* The count of written lines.                                             *)
(***************************************************************************)

\* A rendering is no other step.
LEMMA RendersApart ==
  ASSUME SinksAssumption, RunType, LineType, NEW t \in Writer, Renders(t)
  PROVE  /\ \A u \in Writer : ~Log(u) /\ (Renders(u) => u = t)
         /\ \A x \in Actor : ~EmitEnd(x) /\ ~EmitSink(x)
<1>1. /\ pc' = [pc EXCEPT ![t] = "send"] /\ pc[t] \in {"render", "snap"}
      /\ sent' = sent
  BY DEF Renders, Go, At, logVars
<1>2. t \in Actor /\ DOMAIN pc = Actor /\ sent \in Nat
  BY DEF Actor, RunType, LineType
<1>3. pc'[t] = "send" /\ \A x \in Actor : x # t => pc'[x] = pc[x]
  BY <1>1, <1>2
<1>4. \A u \in Writer : Log(u) => sent' = sent + 1
  BY DEF Log
<1>5. ASSUME NEW u \in Writer, Renders(u) PROVE u = t
  <2>1. pc' = [pc EXCEPT ![u] = "send"] /\ pc[u] \in {"render", "snap"} /\ u \in Actor
    BY <1>5 DEF Renders, Go, At, Actor
  <2>2. pc'[u] = "send"
    BY <1>2, <2>1
  <2> QED
    BY <1>3, <2>1, <2>2
<1>6. ASSUME NEW x \in Actor, EmitEnd(x) PROVE FALSE
  <2>1. (\E p : pc' = [pc EXCEPT ![x] = p]) /\ pc[x] = "emit"
    BY <1>6 DEF EmitEnd, Go, GoOn, At
  <2>2. x # t
    BY <1>1, <2>1
  <2>3. pc'[t] = pc[t]
    BY <1>2, <2>1, <2>2
  <2> QED
    BY <1>1, <1>3, <2>3
<1>7. ASSUME NEW x \in Actor, EmitSink(x) PROVE FALSE
  <2>1. pc' = pc
    BY <1>7 DEF EmitSink
  <2> QED
    BY <1>1, <1>3, <2>1
<1> QED
  BY <1>1, <1>2, <1>4, <1>5, <1>6, <1>7

\* A line on its way is pending, and so is one not yet rendered.
LEMMA HeldIsPending ==
  ASSUME SinksAssumption, HeldType, PlaceAgrees, NEW y \in Place, y # Gone,
         NEW i \in DOMAIN Held[y]
  PROVE  Pending(Held[y][i].line)
<1>1. CASE y = Nobody
  <2>1. Held[y] = queue
    BY <1>1, HeldNow
  <2> QED
    BY <2>1 DEF Pending, Range
<1>2. CASE y = Worker
  <2>1. Held[y] = todo[Worker]
    BY <1>2, HeldNow DEF Actor
  <2> QED
    BY <2>1 DEF Pending, Range
<1>3. CASE y \in Writer
  <2>1. Held[y] = todo[y] /\ y \in Actor
    BY <1>3, HeldNow DEF Actor
  <2>2. Held[y][i].line = cur[y]
    BY <1>3, <2>1 DEF PlaceAgrees
  <2>3. todo[y] # <<>>
    BY <2>1
  <2>4. pc[y] # "out"
    BY <2>1, <2>3 DEF PlaceAgrees
  <2> QED
    BY <1>3, <2>2, <2>4 DEF Pending, At
<1> QED
  BY <1>1, <1>2, <1>3 DEF Place, Actor

LEMMA EarlyIsPending ==
  ASSUME NEW l, Early(l)
  PROVE  Pending(l)
BY DEF Early, Pending, At, Preparing

\* A line at the sinks is pending.
LEMMA EmittedIsPending ==
  ASSUME SinksAssumption, HeldType, PlaceAgrees, NEW x \in Actor, pc[x] = "emit"
  PROVE  Pending(Head(todo[x]).line)
<1>1. 1 \in DOMAIN todo[x] /\ todo[x][1] = Head(todo[x])
  BY EmittedJob
<1>2. x \in Place /\ x # Gone /\ Held[x] = todo[x]
  BY HeldNow
<1>3. Pending(Held[x][1].line)
  BY <1>1, <1>2, HeldIsPending
<1> QED
  BY <1>1, <1>2, <1>3

\* The lines that have not counted yet are finitely many.
LEMMA OwedFinite ==
  ASSUME LineType
  PROVE  IsFiniteSet(Owed) /\ Cardinality(Owed) \in Nat
<1>1. sent \in Nat
  BY DEF LineType
<1>2. IsFiniteSet(1..sent)
  <2>1. 1 \in Int /\ sent \in Int
    BY <1>1
  <2> QED
    BY <2>1, FS_Interval
<1>3. Owed \in SUBSET (1..sent)
  BY DEF Owed
<1>4. IsFiniteSet(Owed)
  BY <1>2, <1>3, FS_Subset
<1> QED
  BY <1>4, FS_CardinalityType

\* A line has at most one job that counts it.
LEMMA SingleKept ==
  ASSUME SinksAssumption, RunType, LineType, HeldType, HeldType', PlaceAgrees, LinesAgree,
         CountAgrees, Kinds, NEW l \in Line
  PROVE  SingleIn(Held', Counting(l))
<1>1. SingleIn(Held, Counting(l))
  BY DEF CountAgrees
<1>2. CASE ~ \E t \in Writer : Renders(t)
  BY <1>1, <1>2, NothingNew
<1>3. ASSUME NEW t \in Writer, Renders(t)
      PROVE  SingleIn(Held', Counting(l))
  <2>1. PICK s \in Seq(Job) : Rendered(t, s) /\ Put(Held, Held', t, s)
    BY <1>3, RendersPuts
  <2> DEFINE f == Held
             g == Held'
             J == Counting(l)
  <2>2. f \in [Place -> Seq(Job)] /\ g \in [Place -> Seq(Job)] /\ t \in Place
    BY HeldTyped
  <2>3. Put(f, g, t, s) /\ SingleIn(f, J)
    BY <1>1, <2>1
  <2>4. \A i, k \in DOMAIN s : s[i] \in J /\ s[k] \in J => i = k
    BY <2>1 DEF Rendered, Counting
  <2>5. CASE cur[t] = l
    <3>1. Early(l)
      BY <1>3, <2>5 DEF Renders, Early, At, Preparing
    <3>2. ~SomeIn(f, Of(l))
      BY <3>1 DEF LinesAgree
    <3>3. ~SomeIn(f, J)
      BY <3>2 DEF SomeIn, Counting
    <3> HIDE DEF f, g, J
    <3>4. SingleIn(g, J)
      BY <2>2, <2>3, <2>4, <3>3, PutKeeps
    <3> QED
      BY <3>4 DEF g, J
  <2>6. CASE cur[t] # l
    <3>1. \A i \in DOMAIN s : s[i] \notin J
      BY <2>1, <2>6 DEF Rendered, Counting, Of
    <3> HIDE DEF f, g, J
    <3>2. SingleIn(g, J)
      BY <2>2, <2>3, <3>1, PutKeeps
    <3> QED
      BY <3>2 DEF g, J
  <2> QED
    BY <2>5, <2>6
<1> QED
  BY <1>2, <1>3

\* A line begins to owe its count when it is logged, and counts when the
\* delivery of its counting job ends.
LEMMA OwedMoves ==
  ASSUME SinksAssumption, RunType, LineType, HeldType, HeldType', PlaceAgrees, LinesAgree,
         CountAgrees, Kinds, NEW l \in Line
  PROVE  /\ \/ \E t \in Writer : Log(t)
            \/ \E x \in Actor : EmitEnd(x) /\ Head(todo[x]) \in Counting(l)
            \/ Owes(l)' <=> Owes(l)
         /\ \A t \in Writer : Log(t) => (Owes(l)' <=> Owes(l) \/ l = sent + 1)
         /\ \A x \in Actor : EmitEnd(x) /\ Head(todo[x]) \in Counting(l) =>
                                Owes(l) /\ ~Owes(l)'
<1> DEFINE f == Held
           g == Held'
           J == Counting(l)
<1>0. sent \in Nat
  BY DEF LineType
<1>1. /\ Early(l)' => \/ Early(l) /\ ~ \E t \in Writer : Renders(t) /\ cur[t] = l
                      \/ \E t \in Writer : Log(t) /\ l = sent + 1
      /\ Early(l) => Early(l)' \/ \E t \in Writer : Renders(t) /\ cur[t] = l
  BY EarlyAfter
<1>2. f \in [Place -> Seq(Job)] /\ g \in [Place -> Seq(Job)]
  BY HeldTyped
<1>3. ASSUME NEW t \in Writer, Renders(t)
      PROVE  Owes(l)' <=> Owes(l)
  <2>1. PICK s \in Seq(Job) : Rendered(t, s) /\ Put(Held, Held', t, s)
    BY <1>3, RendersPuts
  <2>2. Put(f, g, t, s)
    BY <2>1
  <2>3. \A u \in Writer : ~Log(u) /\ (Renders(u) => u = t)
    BY <1>3, RendersApart
  <2>4. SomeIn(g, J) <=> SomeIn(f, J) \/ OneIn(s, J)
    <3>1. t \in Place
      BY HeldTyped
    <3> HIDE DEF f, g, J
    <3> QED
      BY <1>2, <2>2, <3>1, PutAdds
  <2>5. CASE cur[t] = l
    <3>1. Early(l)
      BY <1>3, <2>5 DEF Renders, Early, At, Preparing
    <3>2. PICK i \in DOMAIN s : s[i].counts
      BY <2>1 DEF Rendered
    <3>3. s[i] \in Job /\ s[i].line = l
      BY <2>1, <2>5, <3>2 DEF Rendered
    <3>4. s[i] \in J
      BY <3>2, <3>3 DEF Counting, Of
    <3>5. SomeIn(g, J)
      BY <2>4, <3>2, <3>4 DEF OneIn
    <3> QED
      BY <3>1, <3>5 DEF Owes
  <2>6. CASE cur[t] # l
    <3>1. \A i \in DOMAIN s : s[i] \notin J
      BY <2>1, <2>6 DEF Rendered, Counting, Of
    <3>2. Early(l)' <=> Early(l)
      BY <1>1, <2>3, <2>6
    <3>3. SomeIn(g, J) <=> SomeIn(f, J)
      BY <2>4, <3>1 DEF OneIn
    <3> QED
      BY <3>2, <3>3 DEF Owes
  <2> QED
    BY <2>5, <2>6
<1>4. ASSUME NEW t \in Writer, Log(t)
      PROVE  Owes(l)' <=> Owes(l) \/ l = sent + 1
  <2>1. Held' = Held
    BY <1>4, StillKeeps DEF StillStep
  <2>2. \A u \in Writer : ~Renders(u)
    BY <1>4, RendersApart
  <2>3. l = sent + 1 => Early(l)'
    <3>1. /\ cur' = [cur EXCEPT ![t] = sent + 1]
          /\ \E p \in Preparing : pc' = [pc EXCEPT ![t] = p]
      BY <1>4 DEF Log, Go, Preparing
    <3>2. cur'[t] = sent + 1 /\ pc'[t] \in Preparing
      BY <3>1 DEF LineType, RunType, Actor
    <3> QED
      BY <3>2 DEF Early
  <2>4. Early(l)' <=> Early(l) \/ l = sent + 1
    BY <1>1, <2>2, <2>3
  <2>5. SomeIn(Held', J) <=> SomeIn(Held, J)
    BY <2>1
  <2> QED
    BY <2>4, <2>5 DEF Owes
<1>5. ASSUME NEW x \in Actor, EmitEnd(x)
      PROVE  /\ Head(todo[x]) \in J => Owes(l) /\ ~Owes(l)'
             /\ Head(todo[x]) \notin J => (Owes(l)' <=> Owes(l))
  <2>1. Dropped(f, g, x)
    BY <1>5, EndDrops
  <2>2. /\ Head(f[x]) \notin J => (SomeIn(g, J) <=> SomeIn(f, J))
        /\ Head(f[x]) \in J => SomeIn(f, J) /\ (SingleIn(f, J) => ~SomeIn(g, J))
    <3>1. x \in Place
      BY HeldTyped
    <3> HIDE DEF f, g, J
    <3> QED
      BY <1>2, <2>1, <3>1, DroppedKeeps
  <2>3. SingleIn(f, J)
    BY DEF CountAgrees
  <2>4. ~ \E t \in Writer : Renders(t)
    BY <1>5, RendersApart
  <2>5. ~ \E t \in Writer : Log(t)
    <3>1. sent' = sent
      BY <1>5 DEF EmitEnd, logVars
    <3> QED
      BY <1>0, <3>1 DEF Log
  <2>6. Early(l)' <=> Early(l)
    BY <1>1, <2>4, <2>5
  <2>7. Head(todo[x]) \in J => ~Early(l)
    <3>1. pc[x] = "emit"
      BY <1>5 DEF EmitEnd, At
    <3>2. ~Early(Head(todo[x]).line)
      BY <3>1, EmittedIsHeld
    <3> QED
      BY <3>2 DEF Counting, Of
  <2>8. Held[x] = todo[x]
    BY HeldTyped
  <2> QED
    BY <2>2, <2>3, <2>6, <2>7, <2>8 DEF Owes
<1>6. CASE (~ \E t \in Writer : Renders(t) \/ Log(t)) /\ ~ \E x \in Actor : EmitEnd(x)
  <2>1. SomeIn(Held', J) <=> SomeIn(Held, J)
    BY <1>6, NothingNew
  <2>2. Early(l)' <=> Early(l)
    BY <1>1, <1>6
  <2> QED
    BY <1>6, <2>1, <2>2 DEF Owes
<1> QED
  BY <1>3, <1>4, <1>5, <1>6

\* Every line counts once (core_dispatch_record, hx_core_emit_to_sinks).
LEMMA CountKept ==
  ASSUME SinksAssumption, RunType, LineType, LineType', HeldType, HeldType', PlaceAgrees,
         LinesAgree, CountAgrees, Kinds
  PROVE  CountAgrees'
<1>0. /\ sent \in Nat /\ sent' \in {sent, sent + 1} /\ sent <= MaxLines /\ sent' <= MaxLines
      /\ sent' # sent => \E t \in Writer : Log(t)
      /\ written \in Nat /\ written' \in Nat /\ MaxLines \in Nat
  <2>1. /\ sent \in Nat /\ sent' \in {sent, sent + 1}
        /\ sent' # sent => \E t \in Writer : Log(t)
    BY HistoryKept
  <2>2. sent \in 0..MaxLines /\ written \in Nat
    BY DEF LineType
  <2>3. sent' \in 0..MaxLines /\ written' \in Nat
    BY DEF LineType
  <2>4. MaxLines \in Nat
    BY DEF SinksAssumption
  <2>5. sent <= MaxLines
    BY <2>2, <2>4
  <2>6. sent' <= MaxLines
    BY <2>3, <2>4
  <2> QED
    BY <2>1, <2>2, <2>3, <2>4, <2>5, <2>6
<1>1. \A l \in Line : SingleIn(Held', Counting(l))
  BY SingleKept
<1>2. IsFiniteSet(Owed) /\ Cardinality(Owed) \in Nat
  BY OwedFinite
<1>3. written + Cardinality(Owed) = sent
  BY DEF CountAgrees
<1>4. Owed' = {l \in 1..sent' : Owes(l)'}
  BY DEF Owed
<1>5. \A l \in 1..sent : l \in Line
  BY <1>0 DEF Line
<1>6. ASSUME NEW t \in Writer, Log(t)
      PROVE  written' + Cardinality(Owed') = sent'
  <2>1. sent' = sent + 1 /\ written' = written
    BY <1>6 DEF Log
  <2>2. sent + 1 \in Line
    BY <1>0, <2>1 DEF Line
  <2>3. \A l \in Line : Owes(l)' <=> Owes(l) \/ l = sent + 1
    BY <1>6, OwedMoves
  <2>4. sent + 1 \notin Owed
    BY <1>0 DEF Owed
  <2>5. \A l : l \in 1..(sent + 1) <=> l \in 1..sent \/ l = sent + 1
    BY <1>0
  <2>6. Owed' = Owed \cup {sent + 1}
    BY <1>4, <1>5, <2>1, <2>2, <2>3, <2>5 DEF Owed
  <2>7. Cardinality(Owed \cup {sent + 1}) = Cardinality(Owed) + 1
    BY <1>2, <2>4, FS_AddElement
  <2> QED
    BY <1>0, <1>2, <1>3, <2>1, <2>6, <2>7
<1>7. ASSUME NEW x \in Actor, EmitEnd(x)
      PROVE  written' + Cardinality(Owed') = sent'
  <2> DEFINE job == Head(todo[x])
  <2>1. /\ written' = written + (IF job.counts THEN 1 ELSE 0) /\ sent' = sent
        /\ pc[x] = "emit"
    BY <1>7 DEF EmitEnd, logVars, At
  <2>2. job \in Job /\ job.line \in Line /\ job.line <= sent
    BY <2>1, EmittedJob, EmittedIsHeld
  <2>3. job \in Of(job.line) /\ \A l \in Line : l # job.line => job \notin Of(l)
    BY <2>2 DEF Of
  <2>4. ~ \E t \in Writer : Log(t)
    BY <1>0, <2>1 DEF Log
  <2>5. \A l \in Line : job \in Counting(l) => Owes(l) /\ ~Owes(l)'
    BY <1>7, OwedMoves
  <2>6. ASSUME NEW l \in Line, job \notin Counting(l) PROVE Owes(l)' <=> Owes(l)
    <3>1. \A y \in Actor : EmitEnd(y) => y = x
      <4> SUFFICES ASSUME NEW y \in Actor, EmitEnd(y) PROVE y = x
        OBVIOUS
      <4>1. pc[y] = "emit"
        BY DEF EmitEnd, At
      <4> QED
        BY <2>1, <4>1 DEF PlaceAgrees
    <3> QED
      BY <2>4, <2>6, <3>1, OwedMoves
  <2> HIDE DEF job
  <2>7. CASE job.counts
    <3>1. job \in Counting(job.line) /\ \A l \in Line : l # job.line => job \notin Counting(l)
      BY <2>3, <2>7 DEF Counting
    <3>2. job.line \in 1..sent
      BY <1>0, <2>2 DEF Line
    <3>3. job.line \in Owed
      BY <2>2, <2>5, <3>1, <3>2 DEF Owed
    <3>4. Owed' = Owed \ {job.line}
      BY <1>4, <1>5, <2>1, <2>2, <2>5, <2>6, <3>1 DEF Owed
    <3>5. Cardinality(Owed \ {job.line}) = Cardinality(Owed) - 1
      BY <1>2, <3>3, FS_RemoveElement
    <3>6. written' = written + 1
      BY <2>1, <2>7
    <3> QED
      BY <1>0, <1>2, <1>3, <2>1, <3>4, <3>5, <3>6
  <2>8. CASE ~job.counts
    <3>1. \A l \in Line : job \notin Counting(l)
      BY <2>8 DEF Counting
    <3>2. Owed' = Owed
      BY <1>4, <1>5, <2>1, <2>6, <3>1 DEF Owed
    <3>3. written' = written
      BY <1>0, <2>1, <2>8
    <3> QED
      BY <1>3, <2>1, <3>2, <3>3
  <2> QED
    BY <2>7, <2>8
<1>8. ASSUME ~ \E t \in Writer : Log(t), ~ \E x \in Actor : EmitEnd(x)
      PROVE  written' + Cardinality(Owed') = sent'
  <2>1. \A l \in Line : Owes(l)' <=> Owes(l)
    BY <1>8, OwedMoves
  <2>2. sent' = sent
    BY <1>0, <1>8
  <2>3. written' = written
    BY <1>8 DEF Kinds, Change, writeVars, WorkerTake, Log, Refresh, Renders, Defers, Enqueue,
                EmitBegin, EmitSink
  <2>4. Owed' = Owed
    BY <1>4, <1>5, <2>1, <2>2 DEF Owed
  <2> QED
    BY <1>3, <2>2, <2>3, <2>4
<1>9. written' + Cardinality(Owed') = sent'
  BY <1>6, <1>7, <1>8
<1> QED
  BY <1>1, <1>9 DEF CountAgrees

-----------------------------------------------------------------------------
(***************************************************************************)
(* Sinks that stay as they are.                                            *)
(***************************************************************************)

\* A thread goes on with its line, or ends it, until it logs another.
LEMMA GoesOn ==
  ASSUME SinksAssumption, RunType, LineType, Kinds, NEW t \in Writer
  PROVE  \/ Log(t) /\ cur'[t] = sent + 1
         \/ cur'[t] = cur[t] /\ (pc[t] = "out" => pc'[t] = "out")
<1>1. /\ t \in Actor /\ t # Worker /\ Worker \in Actor /\ DOMAIN pc = Actor
      /\ DOMAIN cur = Writer /\ Writer \subseteq Actor
  BY DEF SinksAssumption, Actor, RunType, LineType
<1>2. Change => pc' = pc /\ cur' = cur
  BY DEF Change, writeVars, logVars
<1>3. WorkerTake => pc'[t] = pc[t] /\ cur' = cur
  BY <1>1 DEF WorkerTake, Go, logVars
<1>4. ASSUME NEW u \in Writer, Log(u)
      PROVE  IF u = t THEN cur'[t] = sent + 1 ELSE cur'[t] = cur[t] /\ pc'[t] = pc[t]
  <2>1. cur' = [cur EXCEPT ![u] = sent + 1] /\ \E p : pc' = [pc EXCEPT ![u] = p]
    BY <1>4 DEF Log, Go
  <2> QED
    BY <1>1, <2>1
<1>5. ASSUME NEW u \in Writer, Refresh(u) \/ Renders(u) \/ Defers(u) \/ Enqueue(u)
      PROVE  cur' = cur /\ (pc[t] = "out" => pc'[t] = "out")
  <2>1. cur' = cur /\ (\/ pc' = pc
                       \/ pc[u] # "out" /\ \E p : pc' = [pc EXCEPT ![u] = p])
    BY <1>5 DEF Refresh, Renders, Defers, Enqueue, Go, GoOn, At, logVars
  <2> QED
    BY <1>1, <2>1
<1>6. ASSUME NEW x \in Actor, EmitBegin(x) \/ EmitSink(x) \/ EmitEnd(x)
      PROVE  cur' = cur /\ (pc[t] = "out" => pc'[t] = "out")
  <2>1. cur' = cur /\ (\/ pc' = pc
                       \/ pc[x] # "out" /\ \E p : pc' = [pc EXCEPT ![x] = p])
    BY <1>6 DEF EmitBegin, EmitSink, EmitEnd, Go, GoOn, At, logVars
  <2> QED
    BY <1>1, <2>1
<1> QED
  BY <1>2, <1>3, <1>4, <1>5, <1>6 DEF Kinds

\* What the tail of a sequence has, and what an addition brings.
LEMMA TailRange ==
  ASSUME NEW q \in Seq(Job), q # <<>>
  PROVE  Range(Tail(q)) \subseteq Range(q) /\ Head(q) \in Range(q)
<1> DEFINE n == Len(q)
<1>1. /\ n \in Nat \ {0} /\ DOMAIN q = 1..n /\ Head(q) = q[1]
      /\ DOMAIN Tail(q) = 1..(n - 1) /\ \A i \in 1..(n - 1) : Tail(q)[i] = q[i + 1]
  BY HeadAndTail
<1> HIDE DEF n
<1>2. 1 \in 1..n /\ \A i \in 1..(n - 1) : i + 1 \in 1..n
  BY <1>1
<1> QED
  BY <1>1, <1>2 DEF Range

LEMMA AddedRange ==
  ASSUME NEW q \in Seq(Job), NEW j \in Job
  PROVE  Range(Append(q, j)) = Range(q) \cup {j}
<1> DEFINE J == Job
           n == Len(q)
<1>1. q \in Seq(J) /\ j \in J
  OBVIOUS
<1> HIDE DEF J
<1>2. /\ n \in Nat /\ DOMAIN q = 1..n /\ DOMAIN Append(q, j) = 1..(n + 1)
      /\ \A i \in 1..n : Append(q, j)[i] = q[i]
      /\ Append(q, j)[n + 1] = j
  BY <1>1
<1> HIDE DEF n
<1>3. \A i : i \in 1..(n + 1) <=> i \in 1..n \/ i = n + 1
  BY <1>2
<1> QED
  BY <1>2, <1>3 DEF Range

\* What waits for the worker, or is with it, was there before or comes from a
\* thread that is logging its line.
LEMMA WaitsBefore ==
  ASSUME SinksAssumption, RunType, HeldType, HeldType', LineType, PlaceAgrees, Kinds,
         NEW j \in Range(queue') \cup Range(todo'[Worker])
  PROVE  \/ j \in Range(queue) \cup Range(todo[Worker])
         \/ \E t \in Writer : pc[t] # "out" /\ cur[t] = j.line
<1>0. /\ \A t \in Writer : t \in Actor /\ t # Worker
      /\ Worker \in Actor /\ DOMAIN todo = Actor
      /\ queue \in Seq(Job) /\ \A x \in Actor : todo[x] \in Seq(Job)
  BY DEF SinksAssumption, Actor, HeldType
<1>1. CASE StillStep
  <2>1. UNCHANGED <<todo, queue>>
    BY <1>1 DEF StillStep, Change, writeVars, Log, Refresh, Defers, EmitBegin, EmitSink
  <2> QED
    BY <2>1
<1>2. CASE WorkerTake
  <2>1. /\ queue # <<>> /\ queue' = Tail(queue)
        /\ todo'[Worker] = <<Head(queue)>>
    BY <1>0, <1>2 DEF WorkerTake
  <2>2. Range(<<Head(queue)>>) = {Head(queue)}
    BY DEF Range
  <2> QED
    BY <1>0, <2>1, <2>2, TailRange
<1>3. ASSUME NEW t \in Writer, Renders(t)
      PROVE  j \in Range(queue) \cup Range(todo[Worker])
  <2>1. queue' = queue /\ todo'[Worker] = todo[Worker]
    BY <1>0, <1>3 DEF Renders
  <2> QED
    BY <2>1
<1>4. ASSUME NEW t \in Writer, Enqueue(t)
      PROVE  \/ j \in Range(queue) \cup Range(todo[Worker])
             \/ pc[t] # "out" /\ cur[t] = j.line
  <2> DEFINE h == Head(todo[t])
  <2>1. todo[t] # <<>> /\ pc[t] = "send" /\ todo'[Worker] = todo[Worker]
    BY <1>0, <1>4 DEF Enqueue, At
  <2>2. h \in Job /\ 1 \in DOMAIN todo[t] /\ h = todo[t][1]
    BY <1>0, <2>1, HeadAndTail
  <2>3. cur[t] = h.line
    BY <2>2 DEF PlaceAgrees
  <2>4. \/ queue' = Append(queue, h) \/ queue' = queue
        \/ queue # <<>> /\ (queue' = Append(Tail(queue), h) \/ queue' = Tail(queue))
    BY <1>4, EnqueueForms DEF Tails
  <2> HIDE DEF h
  <2>5. queue # <<>> => Tail(queue) \in Seq(Job) /\ Range(Tail(queue)) \subseteq Range(queue)
    BY <1>0, TailRange, TakenAndAdded
  <2>6. Range(queue') \subseteq Range(queue) \cup {h}
    BY <1>0, <2>2, <2>4, <2>5, AddedRange
  <2> QED
    BY <2>1, <2>3, <2>6
<1>5. ASSUME NEW x \in Actor, EmitEnd(x)
      PROVE  j \in Range(queue) \cup Range(todo[Worker])
  <2>1. /\ queue' = queue /\ todo' = [todo EXCEPT ![x] = Tail(@)] /\ todo[x] # <<>>
    BY <1>5 DEF EmitEnd, At, PlaceAgrees
  <2>2. \/ todo'[Worker] = todo[Worker]
        \/ todo[Worker] # <<>> /\ todo'[Worker] = Tail(todo[Worker])
    BY <1>0, <2>1
  <2> QED
    BY <1>0, <2>1, <2>2, TailRange
<1> QED
  BY <1>1, <1>2, <1>3, <1>4, <1>5 DEF Kinds, StillStep

\* A line that is done stays done.
LEMMA PendingBefore ==
  ASSUME SinksAssumption, RunType, HeldType, HeldType', LineType, PlaceAgrees, Kinds,
         NEW l \in Line, Begun(l), Pending(l)'
  PROVE  Pending(l)
<1>1. sent \in Nat /\ l # sent + 1
  BY DEF LineType, Begun, Line
<1>2. ASSUME NEW t \in Writer, l = cur'[t], pc'[t] # "out"
      PROVE  Pending(l)
  BY <1>1, <1>2, GoesOn DEF Pending, At
<1>3. ASSUME NEW j, j \in Range(queue') \cup Range(todo'[Worker]), j.line = l
      PROVE  Pending(l)
  <2>1. j \in Range(queue) \cup Range(todo[Worker]) => Pending(l)
    BY <1>3 DEF Pending
  <2>2. ASSUME NEW t \in Writer, pc[t] # "out", cur[t] = l PROVE Pending(l)
    BY <2>2 DEF Pending, At
  <2> QED
    BY <1>3, <2>1, <2>2, WaitsBefore
<1>4. CASE \E t \in Writer : l = cur'[t] /\ pc'[t] # "out"
  BY <1>2, <1>4
<1>5. CASE \E j \in Range(queue') \cup Range(todo'[Worker]) : j.line = l
  BY <1>3, <1>5
<1> QED
  BY <1>4, <1>5 DEF Pending, At

\* One thread at a time is at the sinks.
LEMMA EmitterAlone ==
  ASSUME PlaceAgrees, NEW x \in Actor, NEW y \in Actor, pc[x] = "emit",
         pc[y] = "emit" \/ lock = y
  PROVE  x = y
BY DEF PlaceAgrees

\* A sink has at most one job of each line while it is steady, in its shape.
LEMMA JobsKept ==
  ASSUME SinksAssumption, HeldType, HeldType', PlaceAgrees, LinesAgree, Kinds,
         RunType, LineType, NEW l \in Line, NEW s \in Sink, Pending(l) => s \in Range(table),
         SingleIn(Held, For(l, s)), ShapesAgree(l, s)
  PROVE  SingleIn(Held', For(l, s)) /\ ShapesAgree(l, s)'
<1> DEFINE f == Held
           g == Held'
           J == For(l, s)
<1>1. J \subseteq Of(l)
  BY DEF For
<1>2. ASSUME NEW t \in Writer, Renders(t), cur[t] = l
      PROVE  Early(l) /\ s \in Range(table) /\ ~SomeIn(f, J)
  <2>1. Early(l)
    BY <1>2 DEF Renders, Early, At, Preparing
  <2>2. ~SomeIn(f, Of(l))
    BY <2>1 DEF LinesAgree
  <2>3. ~SomeIn(f, J)
    BY <1>1, <2>2 DEF SomeIn
  <2> QED
    BY <2>1, <2>3, EarlyIsPending
<1>3. SingleIn(g, J)
  <2>1. CASE ~ \E t \in Writer : Renders(t)
    BY <2>1, NothingNew
  <2>2. ASSUME NEW t \in Writer, Renders(t)
        PROVE  SingleIn(g, J)
    <3>1. PICK r \in Seq(Job) : Rendered(t, r) /\ Put(Held, Held', t, r)
      BY <2>2, RendersPuts
    <3>2. f \in [Place -> Seq(Job)] /\ g \in [Place -> Seq(Job)]
      BY HeldTyped
    <3>3. t \in Place
      BY HeldTyped
    <3>4. Put(f, g, t, r) /\ SingleIn(f, J)
      BY <3>1
    <3>5. CASE cur[t] = l
      <4>1. s \in Range(table) /\ ~SomeIn(f, J)
        BY <1>2, <2>2, <3>5
      <4>2. PICK k \in DOMAIN table : table[k] = s
        BY <4>1 DEF Range
      <4>3. \A i, j \in DOMAIN r : Routed(r[i], s) /\ Routed(r[j], s) => i = j
        BY <3>1, <4>2 DEF Rendered
      <4>4. \A i, j \in DOMAIN r : r[i] \in J /\ r[j] \in J => i = j
        BY <4>3 DEF For
      <4> HIDE DEF f, g, J
      <4>5. SingleIn(g, J)
        BY <3>2, <3>3, <3>4, <4>1, <4>4, PutKeeps
      <4> QED
        BY <4>5 DEF g, J
    <3>6. CASE cur[t] # l
      <4>1. \A i \in DOMAIN r : r[i] \notin J
        BY <1>1, <3>1, <3>6 DEF Rendered, Of
      <4> HIDE DEF f, g, J
      <4>2. SingleIn(g, J)
        BY <3>2, <3>3, <3>4, <4>1, PutKeeps
      <4> QED
        BY <4>2 DEF g, J
    <3> QED
      BY <3>5, <3>6
  <2> QED
    BY <2>1, <2>2
<1>4. ASSUME NEW y \in Place, NEW i \in DOMAIN Held'[y], Held'[y][i] \in J
      PROVE  Held'[y][i].shape = ShapeFor(s)
  <2>1. ASSUME NEW z \in Place, NEW k \in DOMAIN Held[z], Held[z][k] = Held'[y][i]
        PROVE  Held'[y][i].shape = ShapeFor(s)
    BY <1>4, <2>1 DEF ShapesAgree
  <2>2. ASSUME NEW t \in Writer, Renders(t), New(t, Held'[y][i])
        PROVE  Held'[y][i].shape = ShapeFor(s)
    <3>1. PICK r \in Seq(Job) : Rendered(t, r) /\ Held'[y][i] \in Range(r)
      BY <2>2 DEF New
    <3>2. PICK n \in DOMAIN r : r[n] = Held'[y][i]
      BY <3>1 DEF Range
    <3>3. cur[t] = l
      BY <1>1, <1>4, <3>1, <3>2 DEF Rendered, Of
    <3>4. s \in Range(table)
      BY <1>2, <2>2, <3>3
    <3>5. PICK k \in DOMAIN table : table[k] = s
      BY <3>4 DEF Range
    <3>6. Routed(r[n], s)
      BY <1>4, <3>2 DEF For
    <3> QED
      BY <3>1, <3>2, <3>5, <3>6 DEF Rendered
  <2> QED
    BY <2>1, <2>2, Origin
<1> QED
  BY <1>3, <1>4 DEF ShapesAgree


\* What a sink has of a line while nothing of the line is delivered.
LEMMA CopiesKept ==
  ASSUME NEW l, NEW s, got'[l] = got[l]
  PROVE  Copies(l, s)' = Copies(l, s) /\ (Delivered(l, s)' <=> Delivered(l, s))
BY DEF Copies, Delivered

\* What another sink is given does not change what a sink has.
LEMMA CopiesApart ==
  ASSUME NEW l, NEW s, NEW e, Longer(got[l], got'[l], e), e.id # s.id
  PROVE  Copies(l, s)' = Copies(l, s) /\ (Delivered(l, s)' <=> Delivered(l, s))
<1>1. /\ Len(got[l]) \in Nat /\ DOMAIN got[l] = 1..Len(got[l])
      /\ DOMAIN got'[l] = 1..(Len(got[l]) + 1)
      /\ \A i \in 1..Len(got[l]) : got'[l][i] = got[l][i]
      /\ got'[l][Len(got[l]) + 1] = e
  BY DEF Longer
<1> DEFINE n == Len(got[l])
<1>2. n \in Nat /\ \A k : k \in 1..(n + 1) <=> k \in 1..n \/ k = n + 1
  BY <1>1
<1>3. \A k : k \in DOMAIN got'[l] /\ got'[l][k].id = s.id
                <=> k \in DOMAIN got[l] /\ got[l][k].id = s.id
  BY <1>1, <1>2
<1>4. Copies(l, s)' = Copies(l, s)
  BY <1>3 DEF Copies
<1>5. \A k \in Copies(l, s) : got'[l][k] = got[l][k]
  BY <1>1 DEF Copies
<1>6. \A k : k \in Copies(l, s) => k \in DOMAIN got[l] /\ k \in DOMAIN got'[l]
  BY <1>3 DEF Copies
<1> QED
  BY <1>4, <1>5, <1>6 DEF Delivered

\* A sink that had nothing of a line and is given it has one copy of it.
LEMMA CopyAdded ==
  ASSUME NEW l, NEW s, NEW job, Longer(got[l], got'[l], EntryOf(job, s)),
         Copies(l, s) = {}, job.shape = ShapeFor(s), ~ (LineLevel < s.min)
  PROVE  Delivered(l, s)'
<1>1. /\ Len(got[l]) \in Nat /\ DOMAIN got[l] = 1..Len(got[l])
      /\ DOMAIN got'[l] = 1..(Len(got[l]) + 1)
      /\ \A i \in 1..Len(got[l]) : got'[l][i] = got[l][i]
      /\ got'[l][Len(got[l]) + 1] = EntryOf(job, s)
  BY DEF Longer
<1> DEFINE n == Len(got[l])
<1>2. n \in Nat /\ \A k : k \in 1..(n + 1) <=> k \in 1..n \/ k = n + 1
  BY <1>1
<1>3. \A k \in 1..n : got[l][k].id # s.id
  BY <1>1 DEF Copies
<1>4. got'[l][n + 1].id = s.id /\ got'[l][n + 1].shape = ShapeFor(s)
  BY <1>1 DEF EntryOf
<1>5. Copies(l, s)' = {n + 1}
  BY <1>1, <1>2, <1>3, <1>4 DEF Copies
<1>6. n + 1 \in DOMAIN got'[l]
  BY <1>1, <1>2
<1> QED
  BY <1>4, <1>5, <1>6 DEF Delivered

\* A step that is not at the sinks leaves who is there, and the table meanwhile.
LEMMA EmitterKept ==
  ASSUME SinksAssumption, RunType, HeldType, PlaceAgrees, Kinds, NEW x \in Actor,
         ~ \E y \in Actor : EmitBegin(y) \/ EmitSink(y) \/ EmitEnd(y)
  PROVE  /\ pc'[x] = "emit" <=> pc[x] = "emit"
         /\ pc[x] = "emit" => todo'[x] = todo[x] /\ pos'[x] = pos[x] /\ table' = table
<1>1. /\ DOMAIN pc = Actor /\ DOMAIN todo = Actor /\ Writer \subseteq Actor
      /\ Worker \in Actor /\ Nobody # x
  BY DEF SinksAssumption, Actor, RunType, HeldType
<1>2. CASE Change
  <2>1. pc' = pc /\ lock = Nobody
    BY <1>2 DEF Change, writeVars
  <2>2. pc[x] # "emit"
    BY <1>1, <2>1 DEF PlaceAgrees
  <2> QED
    BY <2>1, <2>2
<1>3. CASE WorkerTake
  <2>1. /\ pc[Worker] = "out" /\ pc' = [pc EXCEPT ![Worker] = "send"] /\ pos' = pos
        /\ todo' = [todo EXCEPT ![Worker] = <<Head(queue)>>] /\ table' = table
    BY <1>3 DEF WorkerTake, At, Go, tableVars
  <2> QED
    BY <1>1, <2>1
<1>4. ASSUME NEW t \in Writer, Log(t) \/ Refresh(t) \/ Renders(t) \/ Defers(t)
      PROVE  /\ pc'[x] = "emit" <=> pc[x] = "emit"
             /\ pc[x] = "emit" => todo'[x] = todo[x] /\ pos'[x] = pos[x] /\ table' = table
  <2>1. /\ pc[t] # "emit" /\ \E p : p # "emit" /\ pc' = [pc EXCEPT ![t] = p]
        /\ pos' = pos /\ table' = table
        /\ todo' = todo \/ \E s : todo' = [todo EXCEPT ![t] = s]
    BY <1>4 DEF Log, Refresh, Renders, Defers, At, Go, tableVars
  <2> QED
    BY <1>1, <2>1
<1>5. ASSUME NEW t \in Writer, Enqueue(t)
      PROVE  /\ pc'[x] = "emit" <=> pc[x] = "emit"
             /\ pc[x] = "emit" => todo'[x] = todo[x] /\ pos'[x] = pos[x] /\ table' = table
  <2>1. /\ pc[t] = "send" /\ pos' = pos /\ table' = table
        /\ \E p \in {"out", "send"} : pc' = [pc EXCEPT ![t] = p]
        /\ todo' = [todo EXCEPT ![t] = Tail(todo[t])]
    BY <1>5 DEF Enqueue, At, Go, GoOn, tableVars
  <2> QED
    BY <1>1, <2>1
<1> QED
  BY <1>2, <1>3, <1>4, <1>5 DEF Kinds

\* ... so that no sink is passed meanwhile.
LEMMA PassingKept ==
  ASSUME SinksAssumption, RunType, HeldType, PlaceAgrees, Kinds, NEW l, NEW s,
         ~ \E y \in Actor : EmitBegin(y) \/ EmitSink(y) \/ EmitEnd(y)
  PROVE  Passing(l, s)' <=> Passing(l, s)
<1>1. ASSUME NEW x \in Actor
      PROVE  (pc[x] = "emit" /\ Head(todo[x]) \in For(l, s) /\ Behind(x, s))'
             <=> pc[x] = "emit" /\ Head(todo[x]) \in For(l, s) /\ Behind(x, s)
  <2>1. CASE pc[x] = "emit"
    <3>1. pc'[x] = "emit" /\ todo'[x] = todo[x] /\ pos'[x] = pos[x] /\ table' = table
      BY <2>1, EmitterKept
    <3>2. Behind(x, s)' <=> Behind(x, s)
      BY <3>1 DEF Behind
    <3>3. For(l, s)' = For(l, s)
      BY DEF For, Of, Routed
    <3> QED
      BY <2>1, <3>1, <3>2, <3>3
  <2>2. CASE pc[x] # "emit"
    BY <2>2, EmitterKept
  <2> QED
    BY <2>1, <2>2
<1> QED
  BY <1>1 DEF Passing


\* A line logged before is early after a step as before, unless it is rendered.
LEMMA EarlyKept ==
  ASSUME SinksAssumption, RunType, LineType, PlaceAgrees, Kinds, NEW l \in Line, Begun(l),
         ~ \E t \in Writer : Renders(t) /\ cur[t] = l
  PROVE  Early(l)' <=> Early(l)
<1>1. l # sent + 1
  BY DEF LineType, Begun, Line
<1> QED
  BY <1>1, EarlyAfter

\* A rendered line is on its way to the sinks that were in the table.
LEMMA ServedByRender ==
  ASSUME SinksAssumption, RunType, HeldType, HeldType', LineType, PlaceAgrees, LinesAgree,
         Kinds, NEW l \in Line, NEW s \in Sink, NEW t \in Writer, Renders(t), cur[t] = l,
         s \in Range(table), Served(l, s)
  PROVE  Served(l, s)'
<1> DEFINE f == Held
           g == Held'
           J == For(l, s)
<1>1. Early(l)
  BY DEF Renders, Early, At, Preparing
<1>2. Copies(l, s) = {}
  BY <1>1 DEF Served, Waits
<1>3. got' = got /\ table' = table /\ pos' = pos
  BY DEF Renders, tableVars
<1>4. Copies(l, s)' = {}
  BY <1>2, <1>3, CopiesKept
<1>5. ~SomeIn(f, Of(l))
  BY <1>1 DEF LinesAgree
<1>6. PICK r \in Seq(Job) : Rendered(t, r) /\ Put(Held, Held', t, r)
  BY RendersPuts
<1>7. SomeIn(g, J)
  <2>1. PICK k \in DOMAIN table : table[k] = s
    BY DEF Range
  <2>2. PICK i \in DOMAIN r : Routed(r[i], s)
    BY <1>6, <2>1 DEF Rendered
  <2>3. r[i] \in J
    BY <1>6, <2>2 DEF Rendered, For, Of
  <2>4. f \in [Place -> Seq(Job)] /\ g \in [Place -> Seq(Job)]
    BY HeldTyped
  <2>5. t \in Place
    BY HeldTyped
  <2>6. Put(f, g, t, r)
    BY <1>6
  <2> HIDE DEF f, g, J
  <2> QED
    BY <2>2, <2>3, <2>4, <2>5, <2>6, PutAdds DEF OneIn
<1>8. ~Passing(l, s)
  <2> SUFFICES ASSUME NEW x \in Actor, pc[x] = "emit", Head(todo[x]) \in J
               PROVE  FALSE
    BY DEF Passing
  <2>1. Head(todo[x]).line = l
    BY DEF For, Of
  <2> QED
    BY <1>1, <2>1, EmittedIsHeld
<1>9. ~Passing(l, s)'
  <2>1. \A y \in Actor : ~EmitSink(y) /\ ~EmitEnd(y) /\ ~EmitBegin(y)
    <3>1. \A y \in Actor : EmitBegin(y) => lock' = y /\ lock = Nobody
      BY DEF EmitBegin
    <3>2. lock' = lock
      BY DEF Renders
    <3>3. Nobody \notin Actor
      BY DEF SinksAssumption
    <3> QED
      BY <3>1, <3>2, <3>3, RendersApart
  <2> QED
    BY <1>8, <2>1, PassingKept
<1>10. Waits(l, s)'
  BY <1>7, <1>9 DEF Waits, For, Of, Routed
<1> QED
  BY <1>4, <1>10 DEF Served

\* A step that neither renders the line nor is at the sinks changes nothing for it.
LEMMA ServedCalmly ==
  ASSUME SinksAssumption, RunType, HeldType, HeldType', LineType, PlaceAgrees, LinesAgree,
         Kinds, NEW l \in Line, NEW s \in Sink, Begun(l), Served(l, s),
         ~ \E t \in Writer : Renders(t) /\ cur[t] = l,
         ~ \E y \in Actor : EmitBegin(y) \/ EmitSink(y) \/ EmitEnd(y)
  PROVE  Served(l, s)'
<1>1. Early(l)' <=> Early(l)
  BY EarlyKept
<1>2. Passing(l, s)' <=> Passing(l, s)
  BY PassingKept
<1>3. got' = got
  BY HistoryKept
<1>4. Copies(l, s)' = Copies(l, s) /\ (Delivered(l, s)' <=> Delivered(l, s))
  BY <1>3, CopiesKept
<1> DEFINE f == Held
           g == Held'
           J == For(l, s)
<1>5. SomeIn(g, J) <=> SomeIn(f, J)
  <2>1. CASE ~ \E t \in Writer : Renders(t)
    <3>1. ~ \E x \in Actor : EmitEnd(x)
      OBVIOUS
    <3> QED
      BY <2>1, <3>1, NothingNew
  <2>2. ASSUME NEW t \in Writer, Renders(t) PROVE SomeIn(g, J) <=> SomeIn(f, J)
    <3>1. PICK r \in Seq(Job) : Rendered(t, r) /\ Put(Held, Held', t, r)
      BY <2>2, RendersPuts
    <3>2. f \in [Place -> Seq(Job)] /\ g \in [Place -> Seq(Job)]
      BY HeldTyped
    <3>3. t \in Place
      BY HeldTyped
    <3>4. Put(f, g, t, r)
      BY <3>1
    <3>5. \A i \in DOMAIN r : r[i] \notin J
      BY <2>2, <3>1 DEF Rendered, For, Of
    <3> HIDE DEF f, g, J
    <3>6. SomeIn(g, J) <=> SomeIn(f, J) \/ OneIn(r, J)
      BY <3>2, <3>3, <3>4, PutAdds
    <3> QED
      BY <3>5, <3>6 DEF OneIn
  <2> QED
    BY <2>1, <2>2
<1>6. (SomeIn(Held, For(l, s)))' <=> SomeIn(Held, For(l, s))
  BY <1>5 DEF For, Of, Routed
<1>7. Waits(l, s)' <=> Waits(l, s)
  BY <1>1, <1>2, <1>6 DEF Waits
<1> QED
  BY <1>4, <1>7 DEF Served

\* The loop begins before the first sink.
LEMMA ServedAtBegin ==
  ASSUME SinksAssumption, TableType, RunType, HeldType, HeldType', LineType, PlaceAgrees,
         LinesAgree, Kinds, NEW l \in Line, NEW s \in Sink, Begun(l), Served(l, s),
         NEW x \in Actor, EmitBegin(x)
  PROVE  Served(l, s)'
<1>1. /\ lock = Nobody /\ lock' = x /\ pos' = [pos EXCEPT ![x] = 1] /\ table' = table
      /\ pc' = [pc EXCEPT ![x] = "emit"] /\ got' = got
  BY DEF EmitBegin, Go, tableVars
<1>2. Nobody \notin Actor /\ DOMAIN pos = Actor /\ DOMAIN pc = Actor
  BY DEF SinksAssumption, RunType
<1>3. \A t \in Writer : ~Renders(t)
  <2>1. \A t \in Writer : Renders(t) => lock' = lock
    BY DEF Renders
  <2> QED
    BY <1>1, <1>2, <2>1
<1>4. Early(l)' <=> Early(l)
  BY <1>3, EarlyKept
<1>5. Held' = Held
  BY StillKeeps DEF StillStep
<1>6. \A y \in Actor : pc[y] # "emit"
  BY <1>1, <1>2 DEF PlaceAgrees
<1>7. ~Passing(l, s)
  BY <1>6 DEF Passing
<1>8. ~Passing(l, s)'
  <2> SUFFICES ASSUME NEW y \in Actor, pc'[y] = "emit", Behind(y, s)'
               PROVE  FALSE
    BY DEF Passing
  <2>1. y = x
    BY <1>1, <1>2, <1>6
  <2>2. pos'[y] = 1
    BY <1>1, <1>2, <2>1
  <2>3. PICK k \in DOMAIN table : k < pos'[y]
    BY <1>1 DEF Behind
  <2>4. k \in 1..Len(table) /\ Len(table) \in Nat
    BY DEF TableType
  <2> QED
    BY <2>2, <2>3, <2>4
<1>9. Copies(l, s)' = Copies(l, s) /\ (Delivered(l, s)' <=> Delivered(l, s))
  BY <1>1, CopiesKept
<1>10. Waits(l, s)' <=> Waits(l, s)
  BY <1>4, <1>5, <1>7, <1>8 DEF Waits, For, Of, Routed
<1> QED
  BY <1>9, <1>10 DEF Served

\* The loop ends behind the last sink.
LEMMA ServedAtEnd ==
  ASSUME SinksAssumption, TableType, RunType, HeldType, HeldType', LineType, PlaceAgrees,
         LinesAgree, Kinds, NEW l \in Line, NEW s \in Sink, Begun(l), Served(l, s),
         SingleIn(Held, For(l, s)), Pending(l) => s \in Range(table),
         NEW x \in Actor, EmitEnd(x)
  PROVE  Served(l, s)'
<1> DEFINE f == Held
           g == Held'
           J == For(l, s)
           job == Head(todo[x])
<1>1. /\ pc[x] = "emit" /\ pos[x] > Len(table) /\ got' = got
      /\ \E p \in {"out", "send"} : pc' = [pc EXCEPT ![x] = p]
  BY DEF EmitEnd, At, Go, GoOn
<1>2. \A y \in Actor : pc[y] = "emit" => y = x
  BY <1>1, EmitterAlone
<1>3. Early(l)' <=> Early(l)
  <2>1. \A t \in Writer : ~Renders(t)
    BY RendersApart
  <2> QED
    BY <2>1, EarlyKept
<1>4. ~Passing(l, s)'
  <2>1. \A y \in Actor : pc'[y] # "emit"
    BY <1>1, <1>2 DEF RunType
  <2> QED
    BY <2>1 DEF Passing
<1>5. Copies(l, s)' = Copies(l, s) /\ (Delivered(l, s)' <=> Delivered(l, s))
  BY <1>1, CopiesKept
<1>6. /\ job \notin J => (SomeIn(g, J) <=> SomeIn(f, J))
      /\ job \in J => SomeIn(f, J) /\ ~SomeIn(g, J)
  <2>1. f \in [Place -> Seq(Job)] /\ g \in [Place -> Seq(Job)]
    BY HeldTyped
  <2>2. x \in Place
    BY HeldTyped
  <2>3. Dropped(f, g, x) /\ f[x] = todo[x]
    BY EndDrops
  <2>4. SingleIn(f, J) /\ job = Head(f[x])
    BY <2>3
  <2> HIDE DEF f, g, J, job
  <2> QED
    BY <2>1, <2>2, <2>3, <2>4, DroppedKeeps
<1>7. CASE job \in J
  <2>1. job.line = l
    BY <1>7 DEF For, Of
  <2>2. ~Early(l) /\ SomeIn(Held, Of(l))
    BY <1>1, <2>1, EmittedIsHeld
  <2>3. s \in Range(table)
    BY <1>1, <2>1, EmittedIsPending
  <2>4. PICK k \in DOMAIN table : table[k] = s
    BY <2>3 DEF Range
  <2>5. k < pos[x]
    <3>1. k \in 1..Len(table) /\ Len(table) \in Nat /\ pos[x] \in Nat
      BY DEF TableType, RunType
    <3> QED
      BY <1>1, <3>1
  <2>6. Passing(l, s)
    BY <1>1, <1>7, <2>4, <2>5 DEF Passing, Behind
  <2>7. ~Waits(l, s) /\ ~Waits(l, s)'
    BY <1>3, <1>6, <1>7, <2>2, <2>6 DEF Waits, For, Of, Routed
  <2> QED
    BY <1>5, <2>7 DEF Served
<1>8. CASE job \notin J
  <2>1. ~Passing(l, s)
    BY <1>2, <1>8 DEF Passing
  <2>2. Waits(l, s)' <=> Waits(l, s)
    BY <1>3, <1>4, <1>6, <1>8, <2>1 DEF Waits, For, Of, Routed
  <2> QED
    BY <1>5, <2>2 DEF Served
<1> QED
  BY <1>7, <1>8


\* What a step of the loop at the sinks moves: the index, and the table by what
\* a callback does, which spoils the line if it takes a sink out that the loop
\* has passed.
LoopMoves(x, job) ==
    /\ pos' = [pos EXCEPT ![x] = pos[x] + 1]
    /\ \/ table' = table
       \/ /\ Grows \/ Shrinks \/ Edits
          /\ job.line \notin spoilt' => \A k \in 1..pos[x] : table[k].id \in Ids'
\* What a step of the loop at the sinks moves (hx_core_emit_to_sinks).
LEMMA SinkMoves ==
  ASSUME TableType, TableAgrees, NEW x \in Actor, EmitSink(x), NEW job, job = Head(todo[x])
  PROVE  LoopMoves(x, job)
<1>1. pos' = [pos EXCEPT ![x] = pos[x] + 1]
  BY DEF EmitSink
<1>2. CASE UNCHANGED <<tableVars, spoilt, ops>>
  BY <1>1, <1>2 DEF LoopMoves, tableVars
<1>3. CASE /\ TableOp \/ SetFormat
           /\ spoilt' = IF \E k \in 1..pos[x] : table[k].id \notin Ids'
                        THEN spoilt \cup {Head(todo[x]).line} ELSE spoilt
  <2>1. job.line \notin spoilt' => \A k \in 1..pos[x] : table[k].id \in Ids'
    BY <1>3
  <2>2. CASE TableOp
    <3>1. Grows \/ Shrinks \/ Edits
      BY <2>2, TableOps
    <3> QED
      BY <1>1, <2>1, <3>1 DEF LoopMoves
  <2>3. CASE SetFormat
    BY <1>1, <2>3 DEF SetFormat, LoopMoves
  <2> QED
    BY <1>3, <2>2, <2>3
<1> QED
  BY <1>2, <1>3 DEF EmitSink

\* Behind, after the step.
Passed(x, s) == \E k \in DOMAIN table' : table'[k] = s /\ k < pos'[x]

\* The loop passes a sink that stays as it is when it serves it, and not before
\* or after, if it takes no sink out that it has passed.
LEMMA PassesInTurn ==
  ASSUME SinksAssumption, TableType, TableType', RunType, TableAgrees, TableAgrees',
         NEW x \in Actor, NEW job, LoopMoves(x, job), job.line \notin spoilt',
         pos[x] \in 1..Len(table), NEW a \in DOMAIN table, table[a] \in Range(table')
  PROVE  /\ Behind(x, table[a]) <=> a < pos[x]
         /\ Passed(x, table[a]) <=> a <= pos[x]
<1>1. /\ DOMAIN table = 1..Len(table) /\ Len(table) \in Nat
      /\ DOMAIN table' = 1..Len(table') /\ Len(table') \in Nat
      /\ pos[x] \in Nat /\ DOMAIN pos = Actor
  BY DEF TableType, RunType
<1>2. \A i \in DOMAIN table : table[i] = table[a] => i = a
  BY DEF TableAgrees
<1>3. PICK b \in DOMAIN table' : table'[b] = table[a]
  BY DEF Range
<1>4. \A i \in DOMAIN table' : table'[i] = table'[b] => i = b
  BY DEF TableAgrees
<1>5. pos'[x] = pos[x] + 1
  BY <1>1 DEF LoopMoves
<1>6. a <= pos[x] <=> b <= pos[x]
  <2>1. CASE table' = table
    BY <1>2, <1>3, <2>1
  <2>2. CASE Grows \/ Shrinks \/ Edits
    <3>1. CASE table' = table
      BY <1>2, <1>3, <3>1
    <3>2. CASE table' # table
      <4>1. \A k \in 1..pos[x] : table[k].id \in Ids'
        BY <3>2 DEF LoopMoves
      <4> QED
        BY <1>3, <2>2, <4>1, OrderKept
    <3> QED
      BY <3>1, <3>2
  <2> QED
    BY <2>1, <2>2 DEF LoopMoves
<1>7. Behind(x, table[a]) <=> a < pos[x]
  BY <1>2 DEF Behind
<1>8. Passed(x, table[a]) <=> b < pos[x] + 1
  BY <1>3, <1>4, <1>5 DEF Passed
<1>9. b \in Nat
  BY <1>1
<1> QED
  BY <1>1, <1>6, <1>7, <1>8, <1>9


\* The loop delivers a job to a sink when it comes to the sink, and to other
\* sinks otherwise.
LEMMA ServedAtSink ==
  ASSUME SinksAssumption, TableType, TableType', TableAgrees, TableAgrees', RunType, HeldType,
         HeldType', LineType, PlaceAgrees, LinesAgree, Kinds, NEW l \in Line, NEW s \in Sink,
         Begun(l), l \notin spoilt', Served(l, s), ShapesAgree(l, s),
         Pending(l) => s \in Range(table) /\ s \in Range(table'),
         NEW x \in Actor, EmitSink(x)
  PROVE  Served(l, s)'
<1> DEFINE J == For(l, s)
<1>0. PICK job : job = Head(todo[x])
  OBVIOUS
<1>1. PICK s0 : s0 = table[pos[x]]
  OBVIOUS
<1>2. /\ pos[x] \in 1..Len(table) /\ pos[x] \in DOMAIN table /\ s0 \in Sink
      /\ job \in Job /\ job.line \in Line
      /\ \A k \in Line : k # job.line => got'[k] = got[k]
      /\ ~Takes(job, s0) => got' = got
      /\ Takes(job, s0) => Longer(got[job.line], got'[job.line], EntryOf(job, s0))
  BY <1>0, <1>1, Delivers
<1>3. pc[x] = "emit" /\ pc' = pc /\ todo' = todo
  BY DEF EmitSink, At
<1>4. \A y \in Actor : pc[y] = "emit" => y = x
  BY <1>3, EmitterAlone
<1>5. Held' = Held
  BY StillKeeps DEF StillStep
<1>6. Early(l)' <=> Early(l)
  <2>1. \A t \in Writer : ~Renders(t)
    BY RendersApart
  <2> QED
    BY <2>1, EarlyKept
<1>7. /\ Passing(l, s) <=> job \in J /\ Behind(x, s)
      /\ Passing(l, s)' <=> job \in J /\ Passed(x, s)
  <2>1. Passing(l, s) <=> job \in J /\ Behind(x, s)
    BY <1>0, <1>3, <1>4 DEF Passing
  <2>2. Behind(x, s)' <=> Passed(x, s)
    BY DEF Behind, Passed
  <2>3. \A y \in Actor : (pc[y] = "emit")' /\ y # x => FALSE
    BY <1>3, <1>4
  <2>4. Passing(l, s)' <=> Head(todo[x]) \in J /\ Behind(x, s)'
    BY <1>3, <2>3 DEF Passing, For, Of, Routed
  <2> QED
    BY <1>0, <2>1, <2>2, <2>4
<1>8. (SomeIn(Held, J))' <=> SomeIn(Held, J)
  BY <1>5 DEF For, Of, Routed
<1>9. SomeIn(Held, Of(job.line)) /\ ~Early(job.line) /\ Pending(job.line)
  <2>1. SomeIn(Held, Of(job.line)) /\ ~Early(job.line)
    BY <1>0, <1>3, EmittedIsHeld
  <2> QED
    BY <1>0, <1>3, <2>1, EmittedIsPending
<1>10. s0 # s /\ s \in Range(table) => s0.id # s.id
  BY <1>1, <1>2 DEF TableAgrees, Range
<1>11. s0 # s /\ (job.line = l => s \in Range(table))
         => Copies(l, s)' = Copies(l, s) /\ (Delivered(l, s)' <=> Delivered(l, s))
  <2> SUFFICES ASSUME s0 # s, job.line = l => s \in Range(table)
               PROVE  Copies(l, s)' = Copies(l, s) /\ (Delivered(l, s)' <=> Delivered(l, s))
    OBVIOUS
  <2>1. CASE got'[l] = got[l]
    BY <2>1, CopiesKept
  <2>2. CASE got'[l] # got[l]
    <3>1. job.line = l /\ Takes(job, s0)
      BY <1>2, <2>2
    <3>2. Longer(got[l], got'[l], EntryOf(job, s0))
      BY <1>2, <3>1
    <3>3. EntryOf(job, s0).id # s.id
      BY <1>10, <3>1 DEF EntryOf
    <3> HIDE DEF J
    <3> QED
      BY <3>2, <3>3, CopiesApart
  <2> QED
    BY <2>1, <2>2
<1>12. CASE job \notin J
  <2>1. Waits(l, s)' <=> Waits(l, s)
    BY <1>6, <1>7, <1>8, <1>12 DEF Waits
  <2>2. CASE s0 # s
    <3>1. job.line = l => s \in Range(table)
      BY <1>9
    <3>2. Copies(l, s)' = Copies(l, s) /\ (Delivered(l, s)' <=> Delivered(l, s))
      BY <1>11, <2>2, <3>1
    <3> QED
      BY <2>1, <3>2 DEF Served
  <2>3. CASE s0 = s
    <3>1. got'[l] = got[l]
      <4>1. CASE job.line = l
        <5>1. ~Routed(job, s)
          BY <1>2, <1>12, <4>1 DEF For, Of
        <5> QED
          BY <1>2, <2>3, <5>1 DEF Takes
      <4>2. CASE job.line # l
        BY <1>2, <4>2
      <4> QED
        BY <4>1, <4>2
    <3>2. Copies(l, s)' = Copies(l, s) /\ (Delivered(l, s)' <=> Delivered(l, s))
      BY <3>1, CopiesKept
    <3> QED
      BY <2>1, <3>2 DEF Served
  <2> QED
    BY <2>2, <2>3
<1>13. CASE job \in J
  <2>1. job.line = l /\ Routed(job, s)
    BY <1>13 DEF For, Of
  <2>2. ~Early(l) /\ s \in Range(table) /\ s \in Range(table')
    BY <1>9, <2>1
  <2>3. PICK a \in DOMAIN table : table[a] = s
    BY <2>2 DEF Range
  <2>4. /\ Behind(x, s) <=> a < pos[x]
        /\ Passed(x, s) <=> a <= pos[x]
    <3>1. LoopMoves(x, job)
      BY <1>0, SinkMoves
    <3>2. job.line \notin spoilt' /\ table[a] \in Range(table')
      BY <2>1, <2>2, <2>3
    <3>3. /\ Behind(x, table[a]) <=> a < pos[x]
          /\ Passed(x, table[a]) <=> a <= pos[x]
      BY <1>2, <3>1, <3>2, PassesInTurn
    <3> QED
      BY <2>3, <3>3
  <2>5. SomeIn(Held, J)
    <3>1. todo[x][1] = job /\ 1 \in DOMAIN todo[x]
      BY <1>0, <1>3, EmittedJob
    <3>2. Held[x] = todo[x] /\ x \in Place
      BY HeldTyped
    <3> QED
      BY <1>13, <3>1, <3>2, HeldIn
  <2>6. /\ Waits(l, s) <=> ~ (a < pos[x])
        /\ Waits(l, s)' <=> ~ (a <= pos[x])
    BY <1>6, <1>7, <1>8, <1>13, <2>2, <2>4, <2>5 DEF Waits
  <2>7. a \in Nat /\ pos[x] \in Nat
    BY DEF TableType, RunType
  <2>8. CASE a = pos[x]
    <3>1. s0 = s /\ Waits(l, s) /\ ~Waits(l, s)'
      BY <1>1, <2>3, <2>6, <2>7, <2>8
    <3>2. Copies(l, s) = {}
      BY <3>1 DEF Served
    <3>3. job.shape = ShapeFor(s)
      <4>1. todo[x][1] = job /\ 1 \in DOMAIN todo[x]
        BY <1>0, <1>3, EmittedJob
      <4>2. Held[x] = todo[x] /\ x \in Place
        BY HeldTyped
      <4> QED
        BY <1>13, <4>1, <4>2 DEF ShapesAgree
    <3>4. LineLevel \in Nat /\ s.min \in Nat
      BY DEF SinksAssumption, Sink
    <3>5. CASE LineLevel < s.min
      <4>1. got' = got
        BY <1>2, <3>1, <3>4, <3>5 DEF Takes
      <4>2. Copies(l, s)' = {}
        BY <3>2, <4>1, CopiesKept
      <4>3. Delivered(l, s)'
        BY <3>5, <4>2 DEF Delivered
      <4> QED
        BY <3>1, <4>3 DEF Served
    <3>6. CASE ~ (LineLevel < s.min)
      <4>1. Takes(job, s0)
        BY <2>1, <3>1, <3>4, <3>6 DEF Takes
      <4>2. Longer(got[l], got'[l], EntryOf(job, s))
        BY <1>2, <2>1, <3>1, <4>1
      <4> HIDE DEF J
      <4>3. Delivered(l, s)'
        BY <3>2, <3>3, <3>6, <4>2, CopyAdded
      <4> QED
        BY <3>1, <4>3 DEF Served
    <3> QED
      BY <3>5, <3>6
  <2>9. CASE a # pos[x]
    <3>1. s0 # s
      BY <1>1, <1>2, <2>3, <2>9 DEF TableAgrees
    <3>2. Copies(l, s)' = Copies(l, s) /\ (Delivered(l, s)' <=> Delivered(l, s))
      BY <1>11, <2>2, <3>1
    <3>3. Waits(l, s)' <=> Waits(l, s)
      BY <2>6, <2>7, <2>9
    <3> QED
      BY <3>2, <3>3 DEF Served
  <2> QED
    BY <2>8, <2>9
<1> QED
  BY <1>12, <1>13


\* A sink that stays as it is is served with every line that was logged before.
LEMMA ServedKept ==
  ASSUME SinksAssumption, TableType, TableType', TableAgrees, TableAgrees', RunType, HeldType,
         HeldType', LineType, PlaceAgrees, LinesAgree, Kinds, NEW l \in Line, NEW s \in Sink,
         Begun(l), l \notin spoilt', Served(l, s), ShapesAgree(l, s),
         SingleIn(Held, For(l, s)),
         Pending(l) => s \in Range(table) /\ s \in Range(table')
  PROVE  Served(l, s)'
<1>1. ASSUME NEW t \in Writer, Renders(t), cur[t] = l PROVE Served(l, s)'
  <2>1. Pending(l)
    BY <1>1 DEF Renders, At, Pending
  <2> QED
    BY <1>1, <2>1, ServedByRender
<1>2. ASSUME NEW x \in Actor, EmitBegin(x) PROVE Served(l, s)'
  BY <1>2, ServedAtBegin
<1>3. ASSUME NEW x \in Actor, EmitSink(x) PROVE Served(l, s)'
  BY <1>3, ServedAtSink
<1>4. ASSUME NEW x \in Actor, EmitEnd(x) PROVE Served(l, s)'
  BY <1>4, ServedAtEnd
<1> QED
  BY <1>1, <1>2, <1>3, <1>4, ServedCalmly

\* A line begins with all sinks steady, and none of them has anything of it.
LEMMA SteadyAtFirst ==
  ASSUME SinksAssumption, TableType, RunType, HeldType, HeldType', LineType, PlaceAgrees,
         LinesAgree, Kinds, Watch, NEW l \in Line, ~Begun(l), Begun(l)', NEW s \in steady'[l]
  PROVE  SteadyAgrees(l, s)'
<1>1. sent \in Nat /\ sent' # sent
  BY DEF LineType, Begun
<1>2. PICK t \in Writer : Log(t)
  BY <1>1, HistoryKept
<1>3. l = sent + 1 /\ sent' = sent + 1
  <2>1. sent' = sent + 1
    BY <1>2 DEF Log
  <2>2. l \in Int /\ ~ (l <= sent) /\ l <= sent + 1
    BY <2>1 DEF Begun, Line
  <2> QED
    BY <1>1, <2>1, <2>2
<1>4. s \in Range(table) /\ table' = table
  BY <1>2 DEF Watch, Log, tableVars
<1>5. Held' = Held
  BY <1>2, StillKeeps DEF StillStep
<1>6. \A y \in Place : \A i \in DOMAIN Held'[y] : Held'[y][i].line # l
  BY <1>1, <1>3, <1>5 DEF LinesAgree
<1>7. \A y \in Place : \A i \in DOMAIN Held'[y] : Held'[y][i] \notin For(l, s)
  BY <1>6 DEF For, Of
<1>8. DOMAIN Held' = Place
  BY HeldTyped
<1>9. SingleIn(Held', For(l, s))
  BY <1>7, <1>8 DEF SingleIn
<1>10. Early(l)'
  <2>1. /\ cur' = [cur EXCEPT ![t] = sent + 1]
        /\ \E p \in Preparing : pc' = [pc EXCEPT ![t] = p]
    BY <1>2 DEF Log, Go, Preparing
  <2>2. cur'[t] = sent + 1 /\ pc'[t] \in Preparing
    BY <2>1 DEF LineType, RunType, Actor
  <2> QED
    BY <1>3, <2>2 DEF Early
<1>11. Copies(l, s)' = {}
  <2>1. got' = got /\ got[l] = <<>>
    BY <1>1, <1>2, <1>3 DEF Log, LinesAgree
  <2> QED
    BY <2>1 DEF Copies
<1>12. SingleIn(Held', For(l, s)')
  BY <1>9 DEF For, Of, Routed
<1>13. ShapesAgree(l, s)'
  BY <1>7 DEF ShapesAgree, For, Of, Routed
<1> QED
  BY <1>4, <1>10, <1>11, <1>12, <1>13 DEF SteadyAgrees, Served, Waits

\* Steady sinks stay served.
LEMMA SteadyKept ==
  ASSUME SinksAssumption, TableType, TableType', TableAgrees, TableAgrees', RunType, HeldType,
         HeldType', LineType, SteadyType, PlaceAgrees, LinesAgree, Kinds, Watch, SteadyHolds
  PROVE  SteadyHolds'
<1> SUFFICES ASSUME NEW l \in Line, Begun(l)', l \notin spoilt', NEW s \in steady'[l]
             PROVE  SteadyAgrees(l, s)'
  BY DEF SteadyHolds
<1>1. CASE ~Begun(l)
  BY <1>1, SteadyAtFirst
<1>2. CASE Begun(l)
  <2>1. /\ Pending(l) => s \in steady[l] /\ s \in Range(table')
        /\ ~Pending(l) => s \in steady[l]
    BY <1>2 DEF Watch
  <2>2. s \in steady[l] /\ s \in Sink
    BY <2>1 DEF SteadyType
  <2>3. l \notin spoilt
    <3>1. spoilt \subseteq spoilt'
      BY DEF Kinds, Change, writeVars, WorkerTake, Log, Refresh, Renders, Defers, Enqueue,
             EmitBegin, EmitSink, EmitEnd
    <3> QED
      BY <3>1
  <2>4. SteadyAgrees(l, s)
    BY <1>2, <2>2, <2>3 DEF SteadyHolds
  <2>5. /\ Pending(l) => s \in Range(table) /\ s \in Range(table')
        /\ SingleIn(Held, For(l, s)) /\ ShapesAgree(l, s) /\ Served(l, s)
    BY <2>1, <2>4 DEF SteadyAgrees
  <2>6. SingleIn(Held', For(l, s)) /\ ShapesAgree(l, s)'
    BY <2>2, <2>5, JobsKept
  <2>7. Served(l, s)'
    BY <1>2, <2>2, <2>5, ServedKept
  <2>8. Pending(l)' => s \in Range(table')
    BY <1>2, <2>5, PendingBefore
  <2>9. SingleIn(Held', For(l, s)')
    BY <2>6 DEF For, Of, Routed
  <2> QED
    BY <2>6, <2>7, <2>8, <2>9 DEF SteadyAgrees
<1> QED
  BY <1>1, <1>2


-----------------------------------------------------------------------------
(***************************************************************************)
(* The theorems.                                                           *)
(***************************************************************************)

\* At first every thread is out and there is no line.
LEMMA StartsTyped ==
  ASSUME SinksAssumption, SinksInit
  PROVE  SinksTypeOK /\ TableAgrees
<1> DEFINE a == [id |-> 1, cb |-> FALSE, min |-> 0, own |-> NoOverride]
           b == [id |-> 2, cb |-> TRUE, min |-> 0, own |-> NoOverride]
<1>2. NoOverride \in Override /\ ~NoOverride.set
  BY DEF NoOverride, Override
<1>3. a \in Sink /\ b \in Sink
  BY <1>2 DEF Sink, SinksAssumption
<1>4. a.id = 1 /\ b.id = 2 /\ ~a.own.set /\ ~b.own.set
  BY <1>2
<1>5. table = <<a, b>>
  BY DEF SinksInit
<1> HIDE DEF a, b
<1>6. table \in Seq(Sink) /\ Len(table) = 2 /\ DOMAIN table = 1..2
      /\ table[1] = a /\ table[2] = b
  BY <1>3, <1>5
<1>7. \A i \in DOMAIN table : i = 1 \/ i = 2
  BY <1>6
<1>8. \A i \in DOMAIN table : ~table[i].own.set
  BY <1>4, <1>6, <1>7
<1>9. OverCount(table) = 0
  <2>1. {k \in DOMAIN table : table[k].own.set} = {}
    BY <1>8
  <2> QED
    BY <2>1, FS_EmptySet DEF OverCount
<1>10. TableAgrees
  <2>1. next_id = 3 /\ over = 0
    BY DEF SinksInit
  <2>2. \A i \in DOMAIN table : table[i].id \in 1..(next_id - 1)
    BY <1>4, <1>6, <1>7, <2>1
  <2>3. \A i, j \in DOMAIN table : table[i].id = table[j].id => i = j
    BY <1>4, <1>6, <1>7
  <2> QED
    BY <1>9, <2>1, <2>2, <2>3 DEF TableAgrees
<1>11. TableType
  BY <1>6 DEF TableType, SinksInit, SinksAssumption
<1>12. RunType
  BY DEF RunType, SinksInit, SinksAssumption
<1>13. HeldType
  BY DEF HeldType, SinksInit
<1>14. LineType
  BY DEF LineType, SinksInit, SinksAssumption, Line
<1>15. SteadyType
  BY DEF SteadyType, SinksInit
<1> QED
  BY <1>10, <1>11, <1>12, <1>13, <1>14, <1>15, TypeGroups

\* The invariant holds at first.
LEMMA SinksStart ==
  ASSUME SinksAssumption, SinksInit
  PROVE  SinksInv
<1>1. SinksTypeOK /\ TableAgrees
  BY StartsTyped
<1>2. /\ \A x \in Actor : pc[x] = "out" /\ todo[x] = <<>> /\ pos[x] = 1
      /\ \A t \in Writer : cur[t] = 0 /\ cache[t].gen = 0
      /\ Writer \subseteq Actor /\ Worker \in Actor /\ Nobody \notin Actor
      /\ lock = Nobody /\ queue = <<>> /\ dropped = <<>> /\ sent = 0 /\ written = 0
      /\ fmt = 1 /\ gen = GenWidth - 1 /\ ops = 0
  BY DEF SinksInit, SinksAssumption, Actor
<1>3. \A l \in Line : got[l] = <<>> /\ began[l] = 0 /\ steady[l] = {}
  BY DEF SinksInit
<1>4. \A y \in Place : Held[y] = <<>>
  <2>1. HeldType
    BY DEF SinksInit, HeldType
  <2> QED
    BY <1>2, <2>1, HeldNow
<1>5. DOMAIN Held = Place
  BY DEF Held, HeldBy
<1>6. \A y \in Place : DOMAIN Held[y] = {}
  BY <1>4
<1>7. \A l : ~Early(l)
  BY <1>2 DEF Early, Preparing
<1>8. PlaceAgrees
  BY <1>2 DEF PlaceAgrees, Preparing
<1>9. LinesAgree
  BY <1>3, <1>6, <1>7 DEF LinesAgree
<1>10. GenAgrees
  BY <1>2 DEF GenAgrees, GenOf
<1>11. FormatAgrees
  <2>1. \A l \in Line : Range(got[l]) = {}
    BY <1>3 DEF Range
  <2>2. FormatIsFresh
    BY <2>1 DEF FormatIsFresh
  <2> QED
    BY <1>2, <1>3, <1>6, <2>2 DEF FormatAgrees
<1>12. CountAgrees
  <2>1. \A J : SingleIn(Held, J)
    BY <1>5, <1>6 DEF SingleIn
  <2>2. Owed = {}
    BY <1>2 DEF Owed
  <2> QED
    BY <1>2, <2>1, <2>2, FS_EmptySet DEF CountAgrees
<1>13. SteadyHolds
  BY <1>3 DEF SteadyHolds
<1> QED
  BY <1>1, <1>8, <1>9, <1>10, <1>11, <1>12, <1>13 DEF SinksInv

\* Nothing the invariant speaks of changes in a stuttering step.
LEMMA SinksStutter ==
  ASSUME SinksInv, UNCHANGED sinksVars
  PROVE  SinksInv'
<1>1. /\ UNCHANGED <<table, next_id, over, fmt, gen>>
      /\ UNCHANGED <<lock, cache, pc, todo, pos, queue, dropped, written, got, spoilt>>
      /\ UNCHANGED <<cur, sent, began, steady, ops>>
  BY DEF sinksVars, tableVars, writeVars, logVars
<1>2. Held' = Held
  BY <1>1 DEF Held, HeldBy
<1>3. \A l \in Line : Early(l)' <=> Early(l)
  BY <1>1 DEF Early
<1>4. SinksTypeOK' /\ TableAgrees'
  <2>1. SinksTypeOK /\ TableAgrees
    BY DEF SinksInv
  <2>2. SinksTypeOK'
    BY <1>1, <2>1 DEF SinksTypeOK
  <2>3. TableAgrees'
    BY <1>1, <2>1 DEF TableAgrees
  <2> QED
    BY <2>2, <2>3
<1>5. PlaceAgrees'
  BY <1>1 DEF SinksInv, PlaceAgrees
<1>6. LinesAgree'
  BY <1>1, <1>2, <1>3 DEF SinksInv, LinesAgree
<1>7. GenAgrees'
  BY <1>1 DEF SinksInv, GenAgrees
<1>8. FormatAgrees'
  BY <1>1, <1>2 DEF SinksInv, FormatAgrees, FormatIsFresh, Timely
<1>9. CountAgrees'
  <2>1. \A l \in Line : Owes(l)' <=> Owes(l)
    BY <1>2, <1>3 DEF Owes
  <2>2. \A l \in 1..sent : l \in Line
    <3>1. sent \in 0..MaxLines
      BY DEF SinksInv, SinksTypeOK
    <3> QED
      BY <3>1, SinksAssumption DEF Line, SinksAssumption
  <2>3. Owed' = Owed
    BY <1>1, <2>1, <2>2 DEF Owed
  <2> QED
    BY <1>1, <1>2, <2>3 DEF SinksInv, CountAgrees
<1>10. SteadyHolds'
  <2> SUFFICES ASSUME NEW l \in Line, Begun(l)', l \notin spoilt', NEW s \in steady'[l]
               PROVE  SteadyAgrees(l, s)'
    BY DEF SteadyHolds
  <2>1. SteadyAgrees(l, s)
    BY <1>1 DEF SinksInv, SteadyHolds, Begun
  <2>2. (Pending(l)' <=> Pending(l)) /\ (Passing(l, s)' <=> Passing(l, s))
    BY <1>1 DEF Pending, At, Passing, Behind, For, Of, Routed
  <2>3. Copies(l, s)' = Copies(l, s) /\ (Delivered(l, s)' <=> Delivered(l, s))
    BY <1>1, CopiesKept
  <2>4. Waits(l, s)' <=> Waits(l, s)
    BY <1>2, <1>3, <2>2 DEF Waits, For, Of, Routed
  <2>5. (s \in Range(table))' <=> s \in Range(table)
    BY <1>1
  <2>6. (SingleIn(Held, For(l, s)))' <=> SingleIn(Held, For(l, s))
    BY <1>2 DEF For, Of, Routed
  <2>7. ShapesAgree(l, s)'
    BY <1>2, <2>1 DEF SteadyAgrees, ShapesAgree, For, Of, Routed
  <2>8. Served(l, s)'
    BY <2>1, <2>3, <2>4 DEF SteadyAgrees, Served
  <2> QED
    BY <2>1, <2>2, <2>5, <2>6, <2>7, <2>8 DEF SteadyAgrees
<1> QED
  BY <1>4, <1>5, <1>6, <1>7, <1>8, <1>9, <1>10 DEF SinksInv

\* Every step keeps the invariant.
LEMMA SinksKept ==
  ASSUME SinksInv, SinksStep, Watch
  PROVE  SinksInv'
<1>1. SinksAssumption
  BY SinksAssumption
<1>2. /\ TableType /\ RunType /\ HeldType /\ LineType /\ SteadyType /\ TableAgrees
      /\ PlaceAgrees /\ LinesAgree /\ GenAgrees /\ FormatAgrees /\ CountAgrees /\ SteadyHolds
  BY TypeGroups DEF SinksInv
<1>3. SinksTypeOK
  BY DEF SinksInv
<1>4. Kinds
  BY <1>1, <1>2, StepKinds
<1>5. SinksTypeOK' /\ TableAgrees'
  BY <1>1, <1>2, <1>3, TypesKept
<1>6. TableType' /\ HeldType' /\ LineType'
  BY <1>5 DEF SinksTypeOK, TableType, HeldType, LineType
<1>7. PlaceAgrees'
  BY <1>1, <1>2, <1>4, PlacesKept
<1>8. LinesAgree'
  BY <1>1, <1>2, <1>4, <1>6, LinesKept
<1>9. GenAgrees'
  BY <1>1, <1>2, <1>4, GenKept
<1>10. FormatAgrees'
  BY <1>1, <1>2, <1>4, <1>6, FormatKept
<1>11. CountAgrees'
  BY <1>1, <1>2, <1>4, <1>6, CountKept
<1>12. SteadyHolds'
  BY <1>1, <1>2, <1>4, <1>5, <1>6, SteadyKept
<1> QED
  BY <1>5, <1>7, <1>8, <1>9, <1>10, <1>11, <1>12 DEF SinksInv

\* The inductive invariant.
THEOREM SinksInvariant == SinksSpec => []SinksInv
<1>1. SinksInit => SinksInv
  BY SinksAssumption, SinksStart
<1>2. SinksInv /\ [SinksNext]_sinksVars => SinksInv'
  BY SinksStutter, SinksKept DEF SinksNext
<1> QED
  BY <1>1, <1>2, PTL DEF SinksSpec

\* Every variable has its type: the table never outgrows its array, and the
\* generation of the format is never 0, the one of a cache that was not filled
\* (hx_core_add_sink, bump_format_gen_locked).
THEOREM SinksTypeCorrect == SinksSpec => []SinksTypeOK
<1>1. SinksInv => SinksTypeOK
  BY DEF SinksInv
<1> QED
  BY <1>1, SinksInvariant, PTL

\* A line is rendered with a format that was current during its call, though
\* threads compare generations without sink_lock (fmt_cache_refresh).
THEOREM FormatIsCurrent == SinksSpec => []FormatIsFresh
<1>1. SinksInv => FormatIsFresh
  BY DEF SinksInv, FormatAgrees
<1> QED
  BY <1>1, SinksInvariant, PTL

\* With every line done, written_lines is the number of lines, however many
\* variants of each were dispatched, without the lines whose counting rendering
\* the queue dropped (core_dispatch_record, core_dispatch_line,
\* hx_core_emit_to_sinks).
THEOREM EachLineCounts == SinksSpec => []LinesCountedOnce
<1>1. SinksInv => LinesCountedOnce
  <2> SUFFICES ASSUME SinksInv, \A l \in Line : ~Pending(l)
               PROVE  written + Cardinality(Uncounted) = sent
    BY DEF LinesCountedOnce
  <2>1. /\ sent \in 0..MaxLines /\ written \in Nat
        /\ PlaceAgrees /\ LinesAgree /\ CountAgrees /\ HeldType
    BY DEF SinksInv, SinksTypeOK, HeldType
  <2>2. Gone \in Place /\ Held[Gone] = dropped /\ DOMAIN Held = Place /\ dropped \in Seq(Job)
    BY <2>1, SinksAssumption, HeldNow DEF HeldType
  <2>3. ASSUME NEW l \in Line, Owes(l)
        PROVE  \E i \in DOMAIN dropped : dropped[i].line = l /\ dropped[i].counts
    <3>1. ~Early(l)
      BY EarlyIsPending
    <3>2. PICK y \in Place : \E i \in DOMAIN Held[y] : Held[y][i] \in Counting(l)
      BY <2>2, <2>3, <3>1 DEF Owes, SomeIn
    <3>3. PICK i \in DOMAIN Held[y] : Held[y][i] \in Counting(l)
      BY <3>2
    <3>4. Held[y][i].line = l /\ Held[y][i].counts
      BY <3>3 DEF Counting, Of
    <3>5. y = Gone
      BY <2>1, <3>4, SinksAssumption, HeldIsPending
    <3> QED
      BY <2>2, <3>4, <3>5
  <2>4. ASSUME NEW i \in DOMAIN dropped, dropped[i].counts
        PROVE  dropped[i].line \in 1..sent /\ Owes(dropped[i].line)
    <3> DEFINE l == dropped[i].line
    <3>1. dropped[i] \in Job
      BY <2>2
    <3>2. l \in Line /\ l <= sent
      BY <2>1, <2>2, <3>1 DEF LinesAgree, Job
    <3>3. dropped[i] \in Counting(l)
      BY <2>4, <3>1 DEF Counting, Of
    <3>4. l \in 1..sent
      BY <2>1, <3>2 DEF Line
    <3> QED
      BY <2>2, <3>3, <3>4 DEF Owes, SomeIn
  <2>5. \A l \in 1..sent : l \in Line
    BY <2>1, SinksAssumption DEF Line, SinksAssumption
  <2>6. Owed = Uncounted
    <3>1. Uncounted = {l \in Line : \E i \in DOMAIN dropped :
                                       dropped[i].line = l /\ dropped[i].counts}
      BY DEF Uncounted, Range
    <3> QED
      BY <2>3, <2>4, <2>5, <3>1 DEF Owed
  <2> QED
    BY <2>1, <2>6 DEF CountAgrees
<1> QED
  BY <1>1, SinksInvariant, PTL

\* A sink whose entry stays the same from the call to the delivery gets the line
\* once, in its own format, or not at all below its level; callbacks may change
\* the table meanwhile, unless they take out the sink they are at or an earlier
\* one.  A sink whose rendering the queue dropped gets nothing of the line
\* (core_dispatch_record, core_dispatch_line, hx_core_emit_to_sinks).
THEOREM SteadySinkIsServed == SinksSpec => []SteadySinksGetTheLine
<1>1. SinksInv => SteadySinksGetTheLine
  <2> SUFFICES ASSUME SinksInv, NEW l \in Line, Done(l), l \notin spoilt, NEW s \in steady[l]
               PROVE  IF Lost(l, s) THEN Copies(l, s) = {} ELSE Delivered(l, s)
    BY DEF SteadySinksGetTheLine, Delivered
  <2>1. SteadyAgrees(l, s)
    BY DEF SinksInv, SteadyHolds, Done
  <2>2. HeldType /\ PlaceAgrees /\ dropped \in Seq(Job)
    BY DEF SinksInv, SinksTypeOK, HeldType
  <2>3. Gone \in Place /\ Held[Gone] = dropped /\ DOMAIN Held = Place
    BY <2>2, SinksAssumption, HeldNow
  <2>4. ~Early(l)
    BY EarlyIsPending DEF Done
  <2>5. ~Passing(l, s)
    <3> SUFFICES ASSUME NEW x \in Actor, pc[x] = "emit", Head(todo[x]) \in For(l, s)
                 PROVE  FALSE
      BY DEF Passing
    <3>1. Head(todo[x]).line = l
      BY DEF For, Of
    <3> QED
      BY <2>2, <3>1, SinksAssumption, EmittedIsPending DEF Done
  <2>6. SomeIn(Held, For(l, s)) <=> Lost(l, s)
    <3>1. Lost(l, s) <=> \E i \in DOMAIN dropped : dropped[i].line = l /\ Routed(dropped[i], s)
      BY DEF Lost, Range
    <3>2. \A i \in DOMAIN dropped : dropped[i] \in Job
      BY <2>2
    <3>3. Lost(l, s) <=> \E i \in DOMAIN dropped : dropped[i] \in For(l, s)
      BY <3>1, <3>2 DEF For, Of
    <3>4. ASSUME NEW y \in Place, NEW i \in DOMAIN Held[y], Held[y][i] \in For(l, s)
          PROVE  y = Gone
      <4>1. Held[y][i].line = l
        BY <3>4 DEF For, Of
      <4> QED
        BY <2>2, <4>1, SinksAssumption, HeldIsPending DEF Done
    <3> QED
      BY <2>3, <3>3, <3>4 DEF SomeIn
  <2>7. Waits(l, s) <=> Lost(l, s)
    BY <2>4, <2>5, <2>6 DEF Waits
  <2> QED
    BY <2>1, <2>7 DEF SteadyAgrees, Served
<1> QED
  BY <1>1, SinksInvariant, PTL
=============================================================================
