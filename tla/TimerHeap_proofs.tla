-------------------------- MODULE TimerHeap_proofs --------------------------
(***************************************************************************)
(* Proofs about the timer heap, under its lock, for any number of threads  *)
(* and of entries.                                                         *)
(*                                                                         *)
(* While a call works on the heap one slot is open and one entry is on its *)
(* way to it.  The invariant says what the arrays are with this hole: the  *)
(* ids fit the slots, the entries are in order but for the one on its way, *)
(* and the free ids lead through all ids that nobody has.                  *)
(***************************************************************************)
EXTENDS TimerHeap, WellFoundedInduction, TLAPS

\* The entry in slot s, where m is on its way to the slot h that is open.
\* Slot -1 is open when none is.
Fits(hp, ids, id, mx, h, m, n) ==
    /\ n \in Nat /\ h \in Int /\ n <= mx /\ mx \in Nat
    /\ \A s \in 0..n-1 : s # h =>
          /\ hp[s] \in Entries /\ hp[s] # m /\ id[hp[s]] >= 1
          /\ ids[id[hp[s]]] = s
    /\ \A e \in Entries : id[e] >= 1 =>
          /\ id[e] < mx
          /\ e # m => /\ ids[id[e]] \in 0..n-1 /\ ids[id[e]] # h
                      /\ hp[ids[id[e]]] = e
    /\ \A e, f \in Entries : id[e] >= 1 /\ id[e] = id[f] => e = f
    /\ h = -1 => m = NoEntry
    /\ h # -1 => h \in 0..n-1 /\ m \in Entries /\ id[m] >= 1

InOrder(hp, val, n) ==
    \A s \in 1..n-1 : val[hp[HEAP_PARENT(s)]] <= val[hp[s]]

AroundHole(hp, val, h, m, n, up) ==
    /\ \A s \in 1..n-1 : s # h /\ HEAP_PARENT(s) # h
                            => val[hp[HEAP_PARENT(s)]] <= val[hp[s]]
    /\ \A s \in 1..n-1 : HEAP_PARENT(s) = h /\ h > 0
                            => val[hp[HEAP_PARENT(h)]] <= val[hp[s]]
    /\ up => \A s \in 1..n-1 : HEAP_PARENT(s) = h => val[m] <= val[hp[s]]
    /\ ~up /\ h > 0 => val[hp[HEAP_PARENT(h)]] <= val[m]

\* The free ids, in the order in which they are given out, up to the first
\* number that is not in the array.
Chain(fl, k, ids, id, free, mx) ==
    /\ fl \in [1..k -> 1..mx] /\ k \in Nat \ {0}
    /\ fl[1] = free /\ fl[k] = mx
    /\ \A i \in 1..k-1 : ids[fl[i]] = -fl[i+1]
    /\ \A i, j \in 1..k : fl[i] = fl[j] => i = j
    /\ \A i \in 1..k, e \in Entries : id[e] # fl[i]
Leads(ids, id, free, mx, n) == \E fl \in [1..(mx - n) -> 1..mx] : Chain(fl, mx - n, ids, id, free, mx)

Places == {"idle", "lock", "schedule", "cancel", "poll", "insert", "up", "down"}
Works(t) == at[t] \in {"insert", "up", "down"}
Inside(t) == at[t] \in {"schedule", "cancel", "poll", "insert", "up", "down"}
Extent(t) == IF op[t] = "schedule" THEN cur_size + 1 ELSE cur_size
Hole(t) == IF at[t] = "insert" THEN cur_size ELSE slot[t]

Mutex == /\ \A t \in Threads : Inside(t) <=> t \in lock
         /\ \A t, u \in lock : t = u
Caller(t) ==
    /\ at[t] = "idle" => op[t] = "none"
    /\ at[t] \in {"idle", "poll"} \/ op[t] = "poll" => arg[t] = NoEntry
    /\ at[t] = "lock" => op[t] \in {"schedule", "cancel", "poll"}
    /\ op[t] \in {"schedule", "cancel"} => arg[t] \in Entries
    /\ at[t] \in {"schedule", "insert"} => op[t] = "schedule"
    /\ at[t] = "cancel" => op[t] = "cancel"
    /\ at[t] = "poll" => op[t] = "poll"
    /\ at[t] = "down" => op[t] # "schedule"
    /\ at[t] \in {"lock", "poll"} /\ op[t] = "poll" => node[t] = NoEntry
    /\ at[t] \in {"lock", "schedule"} /\ op[t] = "schedule" => timer_id[arg[t]] < 1
    /\ seen[t] <= now
Callers == /\ \A t \in Threads : Caller(t)
           /\ \A t, u \in Threads : arg[t] # NoEntry /\ arg[t] = arg[u] => t = u
Room ==
    /\ cur_size + 2 <= max_size
    /\ \A t \in Threads : at[t] = "up" /\ op[t] = "schedule" => cur_size + 3 <= max_size
AtRest ==
    (\A t \in Threads : ~Works(t)) =>
        /\ Fits(heap, timer_ids, timer_id, max_size, -1, NoEntry, cur_size)
        /\ InOrder(heap, timer_value, cur_size)
        /\ Leads(timer_ids, timer_id, timer_ids_freelist, max_size, cur_size)
AtWork ==
    \A t \in Threads : Works(t) =>
        /\ Fits(heap, timer_ids, timer_id, max_size, Hole(t), moved[t], Extent(t))
        /\ AroundHole(heap, timer_value, Hole(t), moved[t], Extent(t), at[t] # "down")
        /\ Leads(timer_ids, timer_id, timer_ids_freelist, max_size, Extent(t))
\* No entry has the id of the list that ends.
NoZero == \A e \in Entries : timer_id[e] # 0
IInv == TypeOK /\ Mutex /\ Callers /\ Room /\ AtRest /\ AtWork

-----------------------------------------------------------------------------
(* The binary heap                                                         *)

\* A parent is before its children, of which there are two.
LEMMA ParentFacts ==
    ASSUME NEW s \in Nat
    PROVE  /\ HEAP_PARENT(s) \in Nat
           /\ s > 0 => /\ HEAP_PARENT(s) < s
                       /\ s = 2 * HEAP_PARENT(s) + 1 \/ s = 2 * HEAP_PARENT(s) + 2
           /\ HEAP_PARENT(0) = 0
           /\ HEAP_LEFT(s) = 2 * s + 1 /\ HEAP_LEFT(s) \in Nat
  BY DEF HEAP_PARENT, HEAP_LEFT

LEMMA ParentIn ==
    ASSUME NEW n \in Int, NEW s \in Int, 1 <= s, s <= n
    PROVE  HEAP_PARENT(s) \in 0..n-1 /\ HEAP_PARENT(s) < s
  <1>1. s \in Nat
    OBVIOUS
  <1>2. HEAP_PARENT(s) \in Nat /\ HEAP_PARENT(s) < s
    BY <1>1, ParentFacts
  <1> QED BY <1>2

LEMMA ChildFacts ==
    ASSUME NEW s \in Nat
    PROVE  /\ HEAP_PARENT(2 * s + 1) = s /\ HEAP_PARENT(2 * s + 2) = s
  BY DEF HEAP_PARENT

\* An entry that moves to the open slot of its child leaves order around
\* the slot it opens.
LEMMA UpOrder ==
    ASSUME NEW mx \in Nat, NEW hp \in [0..mx-1 -> MaybeEntry], NEW val \in [Entries -> Nat],
           NEW n \in Nat, n <= mx, NEW h \in 1..n-1, NEW m \in Entries,
           \A s \in 0..n-1 : s # h => hp[s] \in Entries,
           AroundHole(hp, val, h, m, n, TRUE),
           val[m] < val[hp[HEAP_PARENT(h)]]
    PROVE  AroundHole([hp EXCEPT ![h] = hp[HEAP_PARENT(h)]], val, HEAP_PARENT(h), m, n, TRUE)
  <1> DEFINE p == HEAP_PARENT(h)
             q == [hp EXCEPT ![h] = hp[p]]
  <1>1. p \in 0..n-1 /\ p < h /\ h \in 0..mx-1 /\ p \in 0..mx-1
    <2>1. h \in Int /\ 1 <= h /\ h <= n-1 /\ n-1 \in Int
      OBVIOUS
    <2>2. HEAP_PARENT(h) \in 0..n-1-1 /\ HEAP_PARENT(h) < h
      BY <2>1, ParentIn
    <2> QED BY <2>2
  <1>2. \A s \in 1..n-1 : HEAP_PARENT(s) \in 0..n-1 /\ HEAP_PARENT(s) < s
    BY ParentIn
  <1>3. \A s \in 0..n-1 : /\ s # h => q[s] = hp[s] /\ hp[s] \in Entries
                          /\ s = h => q[s] = hp[p]
    BY <1>1
  <1>4. \A e \in Entries : val[e] \in Nat
    OBVIOUS
  <1> HIDE DEF p, q
  <1>5. \A s \in 1..n-1 : s # p /\ HEAP_PARENT(s) # p
                            => val[q[HEAP_PARENT(s)]] <= val[q[s]]
    <2> SUFFICES ASSUME NEW s \in 1..n-1, s # p, HEAP_PARENT(s) # p
                 PROVE  val[q[HEAP_PARENT(s)]] <= val[q[s]]
      OBVIOUS
    <2>1. s # h
      BY DEF p
    <2>2. CASE HEAP_PARENT(s) = h
      BY <1>1, <1>2, <1>3, <2>1, <2>2 DEF AroundHole, p
    <2>3. CASE HEAP_PARENT(s) # h
      <3>1. val[hp[HEAP_PARENT(s)]] <= val[hp[s]]
        BY <2>1, <2>3 DEF AroundHole
      <3>2. q[s] = hp[s] /\ q[HEAP_PARENT(s)] = hp[HEAP_PARENT(s)]
        BY <1>2, <1>3, <2>1, <2>3, SMTT(30)
      <3> QED BY <3>1, <3>2
    <2> QED BY <2>2, <2>3
  <1>6. \A s \in 1..n-1 : HEAP_PARENT(s) = p /\ p > 0
                            => val[q[HEAP_PARENT(p)]] <= val[q[s]]
    <2> SUFFICES ASSUME NEW s \in 1..n-1, HEAP_PARENT(s) = p, p > 0
                 PROVE  val[q[HEAP_PARENT(p)]] <= val[q[s]]
      OBVIOUS
    <2>1. /\ p \in 1..n-1 /\ HEAP_PARENT(p) \in 0..n-1 /\ HEAP_PARENT(p) # h
          /\ HEAP_PARENT(p) # p /\ p # h
      BY <1>1, <1>2
    <2>2. val[hp[HEAP_PARENT(p)]] <= val[hp[p]]
      BY <2>1 DEF AroundHole
    <2>3. q[HEAP_PARENT(p)] = hp[HEAP_PARENT(p)] /\ hp[HEAP_PARENT(p)] \in Entries
      BY <2>1, <1>3
    <2>4. CASE s = h
      BY <1>3, <2>2, <2>3, <2>4, <1>1
    <2>5. CASE s # h
      <3>1. val[hp[p]] <= val[hp[s]]
        BY <2>5, <2>1 DEF AroundHole
      <3>2. q[s] = hp[s] /\ hp[s] \in Entries /\ hp[p] \in Entries
        BY <1>3, <2>5, <1>1
      <3> QED BY <3>1, <3>2, <2>2, <2>3, <1>4
    <2> QED BY <2>4, <2>5
  <1>7. \A s \in 1..n-1 : HEAP_PARENT(s) = p => val[m] <= val[q[s]]
    <2> SUFFICES ASSUME NEW s \in 1..n-1, HEAP_PARENT(s) = p
                 PROVE  val[m] <= val[q[s]]
      OBVIOUS
    <2>1. val[m] < val[hp[p]] /\ hp[p] \in Entries
      BY <1>1, <1>3 DEF p
    <2>2. CASE s = h
      BY <2>1, <2>2, <1>3, <1>4
    <2>3. CASE s # h
      <3>1. val[hp[p]] <= val[hp[s]]
        BY <2>3, <1>1 DEF AroundHole
      <3>2. q[s] = hp[s] /\ hp[s] \in Entries
        BY <1>3, <2>3
      <3> QED BY <3>1, <3>2, <2>1, <1>4
    <2> QED BY <2>2, <2>3
  <1> QED BY <1>5, <1>6, <1>7 DEF AroundHole, p, q

\* The earlier child of the open slot moves up into it.
LEMMA DownOrder ==
    ASSUME NEW mx \in Nat, NEW hp \in [0..mx-1 -> MaybeEntry], NEW val \in [Entries -> Nat],
           NEW n \in Nat, n <= mx, NEW h \in 0..n-1, NEW m \in Entries,
           \A s \in 0..n-1 : s # h => hp[s] \in Entries,
           AroundHole(hp, val, h, m, n, FALSE),
           NEW c \in 1..n-1, HEAP_PARENT(c) = h,
           \A s \in 1..n-1 : HEAP_PARENT(s) = h => val[hp[c]] <= val[hp[s]],
           val[hp[c]] < val[m]
    PROVE  AroundHole([hp EXCEPT ![h] = hp[c]], val, c, m, n, FALSE)
  <1> DEFINE q == [hp EXCEPT ![h] = hp[c]]
  <1>1. h < c /\ h \in 0..mx-1 /\ c \in 0..n-1
    BY ParentIn
  <1>2. \A s \in 1..n-1 : HEAP_PARENT(s) \in 0..n-1 /\ HEAP_PARENT(s) < s
    BY ParentIn
  <1>3. \A s \in 0..n-1 : /\ s # h => q[s] = hp[s] /\ hp[s] \in Entries
                          /\ s = h => q[s] = hp[c]
    BY <1>1
  <1>4. \A e \in Entries : val[e] \in Nat
    OBVIOUS
  <1> HIDE DEF q
  <1>5. \A s \in 1..n-1 : s # c /\ HEAP_PARENT(s) # c
                            => val[q[HEAP_PARENT(s)]] <= val[q[s]]
    <2> SUFFICES ASSUME NEW s \in 1..n-1, s # c, HEAP_PARENT(s) # c
                 PROVE  val[q[HEAP_PARENT(s)]] <= val[q[s]]
      OBVIOUS
    <2>1. CASE s = h
      <3>1. val[hp[HEAP_PARENT(h)]] <= val[hp[c]]
        BY <2>1, <1>1 DEF AroundHole
      <3> QED BY <3>1, <2>1, <1>2, <1>3
    <2>2. CASE s # h /\ HEAP_PARENT(s) = h
      BY <1>1, <1>3, <2>2
    <2>3. CASE s # h /\ HEAP_PARENT(s) # h
      <3>1. val[hp[HEAP_PARENT(s)]] <= val[hp[s]]
        BY <2>3 DEF AroundHole
      <3>2. q[s] = hp[s] /\ q[HEAP_PARENT(s)] = hp[HEAP_PARENT(s)]
        BY <1>2, <1>3, <2>3, SMTT(30)
      <3> QED BY <3>1, <3>2
    <2> QED BY <2>1, <2>2, <2>3
  <1>6. \A s \in 1..n-1 : HEAP_PARENT(s) = c
                            => val[q[HEAP_PARENT(c)]] <= val[q[s]]
    <2> SUFFICES ASSUME NEW s \in 1..n-1, HEAP_PARENT(s) = c
                 PROVE  val[q[HEAP_PARENT(c)]] <= val[q[s]]
      OBVIOUS
    <2>1. s # h /\ c # h
      BY <1>1, <1>2
    <2>2. val[hp[c]] <= val[hp[s]]
      BY <2>1 DEF AroundHole
    <2> QED BY <2>1, <2>2, <1>1, <1>3
  <1>7. val[q[HEAP_PARENT(c)]] <= val[m]
    BY <1>1, <1>3, <1>4
  <1> QED BY <1>5, <1>6, <1>7 DEF AroundHole, q

\* The entry on its way is put into the open slot.
LEMMA PlacedOrder ==
    ASSUME NEW mx \in Nat, NEW hp \in [0..mx-1 -> MaybeEntry], NEW val \in [Entries -> Nat],
           NEW n \in Nat, n <= mx, NEW h \in 0..n-1, NEW m \in Entries, NEW up \in BOOLEAN,
           \A s \in 0..n-1 : s # h => hp[s] \in Entries,
           AroundHole(hp, val, h, m, n, up),
           up /\ h > 0 => val[hp[HEAP_PARENT(h)]] <= val[m],
           ~up => \A s \in 1..n-1 : HEAP_PARENT(s) = h => val[m] <= val[hp[s]]
    PROVE  InOrder([hp EXCEPT ![h] = m], val, n)
  <1> DEFINE q == [hp EXCEPT ![h] = m]
  <1>2. \A s \in 1..n-1 : HEAP_PARENT(s) \in 0..n-1 /\ HEAP_PARENT(s) < s
    BY ParentIn
  <1>3. \A s \in 0..n-1 : /\ s # h => q[s] = hp[s] /\ hp[s] \in Entries
                          /\ s = h => q[s] = m
    OBVIOUS
  <1> HIDE DEF q
  <1> SUFFICES ASSUME NEW s \in 1..n-1
               PROVE  val[q[HEAP_PARENT(s)]] <= val[q[s]]
    BY DEF InOrder, q
  <1>4. CASE s = h
    BY <1>2, <1>3, <1>4 DEF AroundHole
  <1>5. CASE HEAP_PARENT(s) = h
    BY <1>2, <1>3, <1>5 DEF AroundHole
  <1>6. CASE s # h /\ HEAP_PARENT(s) # h
    <2>1. val[hp[HEAP_PARENT(s)]] <= val[hp[s]]
      BY <1>6 DEF AroundHole
    <2>2. q[s] = hp[s] /\ q[HEAP_PARENT(s)] = hp[HEAP_PARENT(s)]
      BY <1>2, <1>3, <1>6
    <2> QED BY <2>1, <2>2
  <1> QED BY <1>4, <1>5, <1>6

\* The last entry is on its way to the slot of one that is removed.
LEMMA RemoveOrder ==
    ASSUME NEW mx \in Nat, NEW hp \in [0..mx-1 -> MaybeEntry], NEW val \in [Entries -> Nat],
           NEW n \in Nat, n <= mx, NEW h \in 0..n-2,
           NEW hq, NEW vq \in [Entries -> Nat], NEW up \in BOOLEAN,
           \A s \in 0..n-1 : hp[s] \in Entries,
           \A s \in 0..n-2 : s # h => hq[s] = hp[s],
           \A s \in 0..n-1 : s # h => vq[hp[s]] = val[hp[s]],
           up => h > 0 /\ val[hp[n-1]] < val[hp[HEAP_PARENT(h)]],
           ~up => h = 0 \/ val[hp[HEAP_PARENT(h)]] <= val[hp[n-1]],
           InOrder(hp, val, n)
    PROVE  AroundHole(hq, vq, h, hp[n-1], n-1, up)
  <1>1. n-1 \in 0..n-1 /\ n-1 # h /\ vq[hp[n-1]] = val[hp[n-1]]
    OBVIOUS
  <1>2. \A s \in 1..n-1 : HEAP_PARENT(s) \in 0..n-2 /\ HEAP_PARENT(s) < s
    BY ParentIn
  <1>3. \A e \in Entries : val[e] \in Nat
    OBVIOUS
  <1>4. \A s \in 1..n-2 : s # h /\ HEAP_PARENT(s) # h
                            => vq[hq[HEAP_PARENT(s)]] <= vq[hq[s]]
    <2> SUFFICES ASSUME NEW s \in 1..n-2, s # h, HEAP_PARENT(s) # h
                 PROVE  vq[hq[HEAP_PARENT(s)]] <= vq[hq[s]]
      OBVIOUS
    <2>1. val[hp[HEAP_PARENT(s)]] <= val[hp[s]]
      BY DEF InOrder
    <2>2. HEAP_PARENT(s) \in 0..n-2 /\ s \in 0..n-2
      BY <1>2
    <2>3. hq[s] = hp[s] /\ hq[HEAP_PARENT(s)] = hp[HEAP_PARENT(s)]
      BY <2>2
    <2>4. vq[hp[s]] = val[hp[s]] /\ vq[hp[HEAP_PARENT(s)]] = val[hp[HEAP_PARENT(s)]]
      BY <2>2, SMTT(30)
    <2> QED BY <2>1, <2>3, <2>4
  <1>5. \A s \in 1..n-2 : HEAP_PARENT(s) = h /\ h > 0
                            => val[hp[HEAP_PARENT(h)]] <= val[hp[s]]
    <2> SUFFICES ASSUME NEW s \in 1..n-2, HEAP_PARENT(s) = h, h > 0
                 PROVE  val[hp[HEAP_PARENT(h)]] <= val[hp[s]]
      OBVIOUS
    <2>1. val[hp[HEAP_PARENT(h)]] <= val[hp[h]] /\ val[hp[h]] <= val[hp[s]]
      BY SMTT(30) DEF InOrder
    <2>2. HEAP_PARENT(h) \in 0..n-1
      BY <1>2
    <2> QED BY <2>1, <2>2, <1>3
  <1>6. \A s \in 1..n-2 : HEAP_PARENT(s) = h => s # h /\ hq[s] = hp[s]
    BY <1>2
  <1>7. h > 0 => /\ HEAP_PARENT(h) # h /\ hq[HEAP_PARENT(h)] = hp[HEAP_PARENT(h)]
                 /\ vq[hp[HEAP_PARENT(h)]] = val[hp[HEAP_PARENT(h)]]
                 /\ hp[HEAP_PARENT(h)] \in Entries
    BY <1>2
  <1>8. \A s \in 1..n-2 : HEAP_PARENT(s) = h =>
            vq[hq[s]] = val[hp[s]] /\ hp[s] \in Entries
    BY <1>6
  <1>9. up => \A s \in 1..n-2 : HEAP_PARENT(s) = h => vq[hp[n-1]] <= vq[hq[s]]
    BY <1>1, <1>3, <1>5, <1>7, <1>8, SMTT(30)
  <1>10. ~up /\ h > 0 => vq[hq[HEAP_PARENT(h)]] <= vq[hp[n-1]]
    BY <1>1, <1>7
  <1>11. \A s \in 1..n-2 : HEAP_PARENT(s) = h /\ h > 0
                            => vq[hq[HEAP_PARENT(h)]] <= vq[hq[s]]
    BY <1>5, <1>7, <1>8
  <1>12. (n-1)-1 = n-2
    OBVIOUS
  <1> QED BY <1>4, <1>9, <1>10, <1>11, <1>12 DEF AroundHole

\* A slot is opened behind the last entry.
LEMMA InsertOrder ==
    ASSUME NEW mx \in Nat, NEW hp \in [0..mx-1 -> MaybeEntry], NEW val, NEW vq,
           NEW n \in Nat, n < mx, NEW hq, NEW m,
           \A s \in 0..n-1 : hq[s] = hp[s],
           \A s \in 0..n-1 : vq[hp[s]] = val[hp[s]],
           InOrder(hp, val, n)
    PROVE  AroundHole(hq, vq, n, m, n + 1, TRUE)
  <1>1. \A s \in 1..n : HEAP_PARENT(s) \in 0..n-1 /\ HEAP_PARENT(s) # n
    BY ParentIn
  <1>2. (n+1)-1 = n
    OBVIOUS
  <1>3. \A s \in 1..n : s # n => s \in 1..n-1
    OBVIOUS
  <1> QED BY <1>1, <1>2, <1>3 DEF AroundHole, InOrder

-----------------------------------------------------------------------------
(* The ids                                                                 *)

\* An entry moves from slot s to the open slot: s is open now.
LEMMA OpensFits ==
    ASSUME NEW mx \in Nat, NEW hp \in [0..mx-1 -> MaybeEntry], NEW ids \in [0..mx-1 -> Int],
           NEW id \in [Entries -> Int], NEW n, NEW h \in Nat, NEW m,
           Fits(hp, ids, id, mx, h, m, n), NEW s \in 0..n-1, s # h
    PROVE  Fits([hp EXCEPT ![h] = hp[s]], [ids EXCEPT ![id[hp[s]]] = h], id, mx, s, m, n)
  <1> DEFINE e == hp[s]
             q == [hp EXCEPT ![h] = e]
             x == [ids EXCEPT ![id[e]] = h]
  <1>1. /\ n \in Nat /\ n <= mx /\ h \in 0..n-1 /\ m \in Entries /\ id[m] >= 1
        /\ e \in Entries /\ e # m /\ id[e] >= 1 /\ id[e] < mx /\ ids[id[e]] = s
    BY DEF Fits
  <1>2. /\ \A r \in 0..n-1 : q[r] = IF r = h THEN e ELSE hp[r]
        /\ \A i \in 1..mx-1 : x[i] = IF i = id[e] THEN h ELSE ids[i]
    BY <1>1, SMTT(30)
  <1> HIDE DEF q, x
  <1>3. \A r \in 0..n-1 : r # s => /\ q[r] \in Entries /\ q[r] # m /\ id[q[r]] >= 1
                                   /\ x[id[q[r]]] = r
    <2> SUFFICES ASSUME NEW r \in 0..n-1, r # s
                 PROVE  /\ q[r] \in Entries /\ q[r] # m /\ id[q[r]] >= 1
                        /\ x[id[q[r]]] = r
      OBVIOUS
    <2>1. CASE r = h
      BY <1>1, <1>2, <2>1
    <2>2. CASE r # h
      <3>1. /\ hp[r] \in Entries /\ hp[r] # m /\ id[hp[r]] >= 1 /\ ids[id[hp[r]]] = r
            /\ id[hp[r]] < mx
        BY <2>2 DEF Fits
      <3>2. id[hp[r]] # id[e]
        BY <3>1, <1>1
      <3> QED BY <3>1, <3>2, <1>2, <2>2, SMTT(30)
    <2> QED BY <2>1, <2>2
  <1>4. \A f \in Entries : id[f] >= 1 =>
            /\ id[f] < mx
            /\ f # m => /\ x[id[f]] \in 0..n-1 /\ x[id[f]] # s
                        /\ q[x[id[f]]] = f
    <2> SUFFICES ASSUME NEW f \in Entries, id[f] >= 1
                 PROVE  /\ id[f] < mx
                        /\ f # m => /\ x[id[f]] \in 0..n-1 /\ x[id[f]] # s
                                    /\ q[x[id[f]]] = f
      OBVIOUS
    <2>1. id[f] < mx
      BY DEF Fits
    <2>2. CASE f = e
      BY <1>1, <1>2, <2>1, <2>2
    <2>3. CASE f # e /\ f # m
      <3>1. ids[id[f]] \in 0..n-1 /\ ids[id[f]] # h /\ hp[ids[id[f]]] = f
        BY <2>3 DEF Fits
      <3>2. id[f] # id[e]
        BY <2>3, <1>1 DEF Fits
      <3>3. x[id[f]] = ids[id[f]]
        BY <3>2, <2>1, <1>2
      <3> QED BY <3>1, <3>3, <2>1, <2>3, <1>2
    <2> QED BY <2>1, <2>2, <2>3
  <1> QED BY <1>1, <1>3, <1>4, SMTT(30) DEF Fits, q, x

\* The entry on its way is put into the open slot.
LEMMA PlacedFits ==
    ASSUME NEW mx \in Nat, NEW hp \in [0..mx-1 -> MaybeEntry], NEW ids \in [0..mx-1 -> Int],
           NEW id \in [Entries -> Int], NEW n, NEW h \in Nat, NEW m,
           Fits(hp, ids, id, mx, h, m, n)
    PROVE  Fits([hp EXCEPT ![h] = m], [ids EXCEPT ![id[m]] = h], id, mx, -1, NoEntry, n)
  <1> DEFINE q == [hp EXCEPT ![h] = m]
             x == [ids EXCEPT ![id[m]] = h]
  <1>1. /\ n \in Nat /\ n <= mx /\ h \in 0..n-1 /\ m \in Entries /\ id[m] >= 1 /\ id[m] < mx
    BY DEF Fits
  <1>2. /\ \A r \in 0..n-1 : q[r] = IF r = h THEN m ELSE hp[r]
        /\ \A i \in 1..mx-1 : x[i] = IF i = id[m] THEN h ELSE ids[i]
    BY <1>1
  <1> HIDE DEF q, x
  <1>3. \A r \in 0..n-1 : /\ q[r] \in Entries /\ q[r] # NoEntry /\ id[q[r]] >= 1
                          /\ x[id[q[r]]] = r
    <2> SUFFICES ASSUME NEW r \in 0..n-1
                 PROVE  /\ q[r] \in Entries /\ id[q[r]] >= 1 /\ x[id[q[r]]] = r
      BY NoEntryAssumption
    <2>1. CASE r = h
      BY <1>1, <1>2, <2>1
    <2>2. CASE r # h
      <3>1. /\ hp[r] \in Entries /\ hp[r] # m /\ id[hp[r]] >= 1 /\ ids[id[hp[r]]] = r
            /\ id[hp[r]] < mx
        BY <2>2 DEF Fits
      <3>2. id[hp[r]] # id[m]
        BY <3>1, <1>1 DEF Fits
      <3> QED BY <3>1, <3>2, <1>2, <2>2
    <2> QED BY <2>1, <2>2
  <1>4. \A f \in Entries : id[f] >= 1 =>
            id[f] < mx /\ x[id[f]] \in 0..n-1 /\ x[id[f]] # -1 /\ q[x[id[f]]] = f
    <2> SUFFICES ASSUME NEW f \in Entries, id[f] >= 1
                 PROVE  id[f] < mx /\ x[id[f]] \in 0..n-1 /\ q[x[id[f]]] = f
      OBVIOUS
    <2>1. id[f] < mx
      BY DEF Fits
    <2>2. CASE f = m
      BY <1>1, <1>2, <2>1, <2>2
    <2>3. CASE f # m
      <3>1. ids[id[f]] \in 0..n-1 /\ ids[id[f]] # h /\ hp[ids[id[f]]] = f
        BY <2>3 DEF Fits
      <3>2. id[f] # id[m]
        BY <2>3, <1>1 DEF Fits
      <3>3. x[id[f]] = ids[id[f]]
        BY <3>2, <2>1, <1>2
      <3> QED BY <3>1, <3>3, <2>1, <2>3, <1>2
    <2> QED BY <2>1, <2>2, <2>3
  <1> QED BY <1>1, <1>3, <1>4 DEF Fits, q, x

\* An entry gets an id that nobody has: it is on its way to a new slot.
LEMMA PopFits ==
    ASSUME NEW mx \in Nat, NEW hp, NEW ids,
           NEW id \in [Entries -> Int], NEW n, n < mx,
           Fits(hp, ids, id, mx, -1, NoEntry, n),
           NEW e \in Entries, id[e] < 1, NEW i \in 1..mx-1, \A f \in Entries : id[f] # i
    PROVE  Fits(hp, ids, [id EXCEPT ![e] = i], mx, n, e, n + 1)
  <1> DEFINE x == [id EXCEPT ![e] = i]
  <1>1. \A f \in Entries : x[f] = IF f = e THEN i ELSE id[f]
    OBVIOUS
  <1> HIDE DEF x
  <1>2. n \in Nat /\ n + 1 \in Nat /\ n \in 0..(n+1)-1 /\ n # -1 /\ n + 1 <= mx
    BY DEF Fits
  <1>3. \A s \in 0..(n+1)-1 : s # n => /\ hp[s] \in Entries /\ hp[s] # e /\ x[hp[s]] >= 1
                                       /\ ids[x[hp[s]]] = s
    <2> SUFFICES ASSUME NEW s \in 0..(n+1)-1, s # n
                 PROVE  /\ hp[s] \in Entries /\ hp[s] # e /\ x[hp[s]] >= 1 /\ ids[x[hp[s]]] = s
      OBVIOUS
    <2>1. hp[s] \in Entries /\ id[hp[s]] >= 1 /\ ids[id[hp[s]]] = s
      BY <1>2 DEF Fits
    <2>2. hp[s] # e
      BY <2>1
    <2> QED BY <2>1, <2>2, <1>1
  <1>4. \A f \in Entries : x[f] >= 1 =>
            /\ x[f] < mx
            /\ f # e => ids[x[f]] \in 0..(n+1)-1 /\ ids[x[f]] # n /\ hp[ids[x[f]]] = f
    <2> SUFFICES ASSUME NEW f \in Entries, x[f] >= 1
                 PROVE  /\ x[f] < mx
                        /\ f # e => ids[x[f]] \in 0..(n+1)-1 /\ ids[x[f]] # n /\ hp[ids[x[f]]] = f
      OBVIOUS
    <2>1. CASE f = e
      BY <1>1, <2>1
    <2>2. CASE f # e
      <3>1. id[f] >= 1 /\ f # NoEntry /\ x[f] = id[f]
        BY <1>1, <2>2, NoEntryAssumption
      <3>2. id[f] < mx /\ ids[id[f]] \in 0..n-1 /\ hp[ids[id[f]]] = f
        BY <3>1 DEF Fits
      <3> QED BY <3>1, <3>2, <1>2
    <2> QED BY <2>1, <2>2
  <1>5. \A f, g \in Entries : x[f] >= 1 /\ x[f] = x[g] => f = g
    BY <1>1 DEF Fits
  <1>6. e \in Entries /\ x[e] >= 1
    BY <1>1
  <1> QED BY <1>2, <1>3, <1>4, <1>5, <1>6 DEF Fits, x

\* Growing changes nothing of what is there.
LEMMA GrowFits ==
    ASSUME NEW mx \in Nat, NEW hp, NEW ids, NEW id \in [Entries -> Int], NEW h, NEW m, NEW n,
           NEW hq, NEW x, NEW my \in Nat, mx <= my,
           \A s \in 0..mx-1 : hq[s] = hp[s] /\ x[s] = ids[s],
           Fits(hp, ids, id, mx, h, m, n)
    PROVE  Fits(hq, x, id, my, h, m, n)
  <1>1. n \in Nat /\ h \in Int /\ n <= mx /\ n <= my
    BY DEF Fits
  <1>2. \A s \in 0..n-1 : s # h => /\ hq[s] \in Entries /\ hq[s] # m /\ id[hq[s]] >= 1
                                   /\ x[id[hq[s]]] = s
    <2> SUFFICES ASSUME NEW s \in 0..n-1, s # h
                 PROVE  /\ hq[s] \in Entries /\ hq[s] # m /\ id[hq[s]] >= 1
                        /\ x[id[hq[s]]] = s
      OBVIOUS
    <2>1. /\ hp[s] \in Entries /\ hp[s] # m /\ id[hp[s]] >= 1 /\ ids[id[hp[s]]] = s
          /\ hq[s] = hp[s]
      BY <1>1 DEF Fits
    <2>2. id[hp[s]] < mx
      BY <2>1 DEF Fits
    <2> QED BY <2>1, <2>2
  <1>3. \A f \in Entries : id[f] >= 1 =>
            /\ id[f] < my
            /\ f # m => /\ x[id[f]] \in 0..n-1 /\ x[id[f]] # h
                        /\ hq[x[id[f]]] = f
    <2> SUFFICES ASSUME NEW f \in Entries, id[f] >= 1
                 PROVE  /\ id[f] < my
                        /\ f # m => /\ x[id[f]] \in 0..n-1 /\ x[id[f]] # h
                                    /\ hq[x[id[f]]] = f
      OBVIOUS
    <2>1. id[f] < mx /\ id[f] \in 0..mx-1
      BY DEF Fits
    <2>2. f # m => ids[id[f]] \in 0..n-1 /\ ids[id[f]] # h /\ hp[ids[id[f]]] = f
      BY DEF Fits
    <2> QED BY <1>1, <2>1, <2>2
  <1> QED BY <1>1, <1>2, <1>3 DEF Fits

\* An entry is removed, and the last one is on its way to its slot.
LEMMA RemoveFits ==
    ASSUME NEW mx \in Nat, NEW hp \in [0..mx-1 -> MaybeEntry], NEW ids \in [0..mx-1 -> Int],
           NEW id \in [Entries -> Int], NEW n, NEW s \in 0..n-1,
           Fits(hp, ids, id, mx, -1, NoEntry, n),
           NEW hq, NEW x, \A r \in 0..n-2 : r # s => hq[r] = hp[r],
           \A i \in 1..mx-1 : i # id[hp[s]] /\ i # id[hp[n-1]] => x[i] = ids[i],
           NEW h, NEW m, IF s < n-1 THEN h = s /\ m = hp[n-1] ELSE h = -1 /\ m = NoEntry
    PROVE  Fits(hq, x, [id EXCEPT ![hp[s]] = -1], mx, h, m, n-1)
  <1> DEFINE e == hp[s]
             y == [id EXCEPT ![e] = -1]
             l == hp[n-1]
  <1>1. n \in Nat /\ n-1 \in Nat /\ n <= mx /\ n-1 <= mx /\ n-1 \in 0..n-1 /\ h \in Int
    BY DEF Fits
  <1>2. /\ e \in Entries /\ id[e] >= 1 /\ ids[id[e]] = s
        /\ l \in Entries /\ id[l] >= 1 /\ ids[id[l]] = n-1
        /\ id[e] < mx /\ id[l] < mx
    <2>1. s # -1 /\ n-1 # -1
      BY <1>1
    <2>2. /\ e \in Entries /\ id[e] >= 1 /\ ids[id[e]] = s
          /\ l \in Entries /\ id[l] >= 1 /\ ids[id[l]] = n-1
      BY <1>1, <2>1 DEF Fits
    <2> QED BY <2>2 DEF Fits
  <1>3. \A f \in Entries : y[f] = IF f = e THEN -1 ELSE id[f]
    BY <1>2
  <1> HIDE DEF e, y, l
  <1>4. \A r \in 0..(n-1)-1 : r # h => /\ hq[r] \in Entries /\ hq[r] # m /\ y[hq[r]] >= 1
                                       /\ x[y[hq[r]]] = r
    <2> SUFFICES ASSUME NEW r \in 0..(n-1)-1, r # h
                 PROVE  /\ hq[r] \in Entries /\ hq[r] # m /\ y[hq[r]] >= 1
                        /\ x[y[hq[r]]] = r
      OBVIOUS
    <2>1. r \in 0..n-2 /\ r \in 0..n-1 /\ r # s /\ r # n-1
      BY <1>1
    <2>2. hp[r] \in Entries /\ id[hp[r]] >= 1 /\ ids[id[hp[r]]] = r /\ hq[r] = hp[r]
      BY <2>1, SMTT(30) DEF Fits
    <2>3. id[hp[r]] < mx
      BY <2>2 DEF Fits
    <2>4. hp[r] # e /\ hp[r] # l /\ id[hp[r]] # id[e] /\ id[hp[r]] # id[l]
      BY <2>1, <2>2, <1>2
    <2>5. x[id[hp[r]]] = ids[id[hp[r]]]
      BY <2>2, <2>3, <2>4, SMTT(30) DEF e, l
    <2>6. hp[r] # m
      BY <2>2, <2>4, NoEntryAssumption DEF l
    <2> QED BY <2>2, <2>4, <2>5, <2>6, <1>3
  <1>5. \A f \in Entries : y[f] >= 1 =>
            /\ y[f] < mx
            /\ f # m => /\ x[y[f]] \in 0..(n-1)-1 /\ x[y[f]] # h
                        /\ hq[x[y[f]]] = f
    <2> SUFFICES ASSUME NEW f \in Entries, y[f] >= 1
                 PROVE  /\ y[f] < mx
                        /\ f # m => /\ x[y[f]] \in 0..(n-1)-1 /\ x[y[f]] # h
                                    /\ hq[x[y[f]]] = f
      OBVIOUS
    <2>1. f # e /\ y[f] = id[f]
      BY <1>3
    <2>2. f # NoEntry /\ id[f] < mx /\ ids[id[f]] \in 0..n-1 /\ hp[ids[id[f]]] = f
      BY <2>1, NoEntryAssumption DEF Fits
    <2>3. ids[id[f]] # s
      BY <2>1, <2>2 DEF e
    <2>4. CASE f = l
      <3>1. n-1 # s
        BY <2>1, <2>4 DEF e, l
      <3>2. f = m
        BY <3>1, <2>4, <1>1 DEF l
      <3> QED BY <3>2, <2>1, <2>2
    <2>5. CASE f # l
      <3>1. ids[id[f]] # n-1
        BY <2>2, <2>5 DEF l
      <3>2. id[f] # id[e] /\ id[f] # id[l]
        BY <2>1, <2>5, <1>2 DEF Fits
      <3>3. x[id[f]] = ids[id[f]]
        BY <3>2, <2>1, <2>2 DEF e, l
      <3>4. ids[id[f]] \in 0..n-2 /\ hq[ids[id[f]]] = f
        <4>1. ids[id[f]] \in 0..n-2
          BY <3>1, <2>2, <1>1, SMTT(30)
        <4> QED BY <4>1, <2>2, <2>3
      <3>5. ids[id[f]] # h
        BY <2>3, <3>4, <1>1
      <3> QED BY <2>1, <2>2, <3>3, <3>4, <3>5, <1>1
    <2> QED BY <2>4, <2>5
  <1>6. \A f, g \in Entries : y[f] >= 1 /\ y[f] = y[g] => f = g
    <2> SUFFICES ASSUME NEW f \in Entries, NEW g \in Entries, y[f] >= 1, y[f] = y[g]
                 PROVE  f = g
      OBVIOUS
    <2>1. f # e /\ g # e
      BY <1>3
    <2>2. id[f] >= 1 /\ id[f] = id[g]
      BY <2>1, <1>3
    <2> QED BY <2>2 DEF Fits
  <1>7. h # -1 => h \in 0..(n-1)-1 /\ m \in Entries /\ y[m] >= 1
    <2> SUFFICES ASSUME s < n-1
                 PROVE  h \in 0..(n-1)-1 /\ m \in Entries /\ y[m] >= 1
      BY <1>1
    <2>1. h = s /\ m = l /\ l # e
      BY <1>1, <1>2 DEF l
    <2> QED BY <2>1, <1>1, <1>2, <1>3, SMTT(30)
  <1>8. h = -1 => m = NoEntry
    BY <1>1
  <1> QED BY <1>1, <1>4, <1>5, <1>6, <1>7, <1>8 DEF Fits, y, e

-----------------------------------------------------------------------------
(* The free ids                                                            *)

\* What is written for ids that are in use does not disturb the chain.
LEMMA ChainKept ==
    ASSUME NEW mx \in Nat, NEW n \in Nat, n < mx, NEW ids, NEW x, NEW id, NEW free,
           Leads(ids, id, free, mx, n),
           \A i \in 1..mx-1 : (\A e \in Entries : id[e] # i) => x[i] = ids[i]
    PROVE  Leads(x, id, free, mx, n)
  <1>1. PICK fl \in [1..(mx - n) -> 1..mx] : Chain(fl, mx - n, ids, id, free, mx)
    BY DEF Leads
  <1>2. \A i \in 1..(mx-n)-1 : i \in 1..(mx - n) /\ fl[i] \in 1..mx-1
    <2> SUFFICES ASSUME NEW i \in 1..(mx-n)-1
                 PROVE  i \in 1..(mx - n) /\ fl[i] \in 1..mx-1
      OBVIOUS
    <2>1. i \in 1..(mx-n) /\ (mx-n) \in 1..(mx-n) /\ i # mx-n
      OBVIOUS
    <2>2. fl[mx-n] = mx /\ \A j, k \in 1..(mx-n) : fl[j] = fl[k] => j = k
      BY <1>1 DEF Chain
    <2>3. fl[i] \in 1..mx /\ fl[i] # mx
      BY <2>1, <2>2
    <2> QED BY <2>1, <2>3
  <1>3. \A i \in 1..(mx-n)-1 : x[fl[i]] = -fl[i+1]
    BY <1>1, <1>2 DEF Chain
  <1>4. Chain(fl, mx - n, x, id, free, mx)
    BY <1>1, <1>3 DEF Chain
  <1> QED BY <1>4 DEF Leads

\* With two slots to spare there is an id to give out.
LEMMA ChainGives ==
    ASSUME NEW mx \in Nat, NEW n \in Nat, n + 2 <= mx, NEW ids, NEW id, NEW free,
           Leads(ids, id, free, mx, n)
    PROVE  /\ free \in 1..mx-1 /\ ids[free] \in Int /\ ids[free] < 0
           /\ \A e \in Entries : id[e] # free
           /\ -ids[free] \in 1..mx
  <1>1. PICK fl \in [1..(mx - n) -> 1..mx] : Chain(fl, mx - n, ids, id, free, mx)
    BY DEF Leads
  <1>2. 1 \in 1..(mx-n)-1 /\ 1 \in 1..(mx-n) /\ mx-n \in 1..(mx-n) /\ 1 # mx-n /\ 2 \in 1..(mx-n)
    OBVIOUS
  <1>3. fl[1] = free /\ fl[mx-n] = mx /\ fl[1] # fl[mx-n] /\ ids[fl[1]] = -fl[1+1]
    BY <1>1, <1>2 DEF Chain
  <1>4. fl[1] \in 1..mx /\ fl[2] \in 1..mx
    BY <1>2
  <1>5. \A e \in Entries : id[e] # fl[1]
    BY <1>1, <1>2 DEF Chain
  <1> QED BY <1>3, <1>4, <1>5

LEMMA PopChain ==
    ASSUME NEW mx \in Nat, NEW n \in Nat, n + 2 <= mx, NEW ids, NEW id \in [Entries -> Int],
           NEW free, Leads(ids, id, free, mx, n), NEW e \in Entries
    PROVE  Leads(ids, [id EXCEPT ![e] = free], -ids[free], mx, n + 1)
  <1>1. PICK fl \in [1..(mx - n) -> 1..mx] : Chain(fl, mx - n, ids, id, free, mx)
    BY DEF Leads
  <1> DEFINE k == mx - n
             l == mx - (n + 1)
             f == [i \in 1..l |-> fl[i+1]]
             y == [id EXCEPT ![e] = free]
  <1>2. k \in Nat /\ k >= 2 /\ l = k - 1 /\ l \in Nat \ {0}
    OBVIOUS
  <1>3. /\ fl \in [1..k -> 1..mx] /\ fl[1] = free /\ fl[k] = mx
        /\ \A i \in 1..k-1 : ids[fl[i]] = -fl[i+1]
        /\ \A i, j \in 1..k : fl[i] = fl[j] => i = j
        /\ \A i \in 1..k, g \in Entries : id[g] # fl[i]
    BY <1>1 DEF Chain
  <1>4. \A g \in Entries : y[g] = IF g = e THEN free ELSE id[g]
    OBVIOUS
  <1> HIDE DEF k, l, y
  <1>5. \A i \in 1..l : i + 1 \in 1..k /\ f[i] = fl[i+1] /\ f[i] \in 1..mx
    BY <1>2, <1>3
  <1>6. f \in [1..l -> 1..mx]
    BY <1>5
  <1> HIDE DEF f
  <1>7. f[1] = -ids[free]
    <2>1. 1 \in 1..k-1 /\ 1 \in 1..l /\ 1 + 1 \in 1..k
      BY <1>2
    <2>2. f[1] = fl[1+1] /\ ids[free] = -fl[1+1] /\ fl[1+1] \in 1..mx
      BY <1>3, <1>5, <2>1
    <2> QED BY <2>2
  <1>8. f[l] = mx
    <2>1. l \in 1..l /\ l + 1 = k
      BY <1>2
    <2> QED BY <2>1, <1>3, <1>5
  <1>9. \A i \in 1..l-1 : ids[f[i]] = -f[i+1]
    <2> SUFFICES ASSUME NEW i \in 1..l-1
                 PROVE  ids[f[i]] = -f[i+1]
      OBVIOUS
    <2>1. i \in 1..l /\ i + 1 \in 1..l /\ i + 1 \in 1..k-1
      BY <1>2
    <2> QED BY <2>1, <1>3, <1>5
  <1>10. \A i, j \in 1..l : f[i] = f[j] => i = j
    <2> SUFFICES ASSUME NEW i \in 1..l, NEW j \in 1..l, f[i] = f[j]
                 PROVE  i = j
      OBVIOUS
    <2>1. i + 1 = j + 1
      BY <1>3, <1>5
    <2> QED BY <2>1
  <1>11. \A i \in 1..l, g \in Entries : y[g] # f[i]
    <2> SUFFICES ASSUME NEW i \in 1..l, NEW g \in Entries
                 PROVE  y[g] # f[i]
      OBVIOUS
    <2>1. i + 1 \in 1..k /\ 1 \in 1..k /\ i + 1 # 1 /\ f[i] = fl[i+1]
      BY <1>2, <1>5
    <2>2. fl[i+1] # fl[1]
      BY <2>1, <1>3
    <2>3. id[g] # fl[i+1]
      BY <2>1, <1>3
    <2> QED BY <2>1, <2>2, <2>3, <1>3, <1>4
  <1>12. Chain(f, l, ids, y, -ids[free], mx)
    BY <1>2, <1>6, <1>7, <1>8, <1>9, <1>10, <1>11 DEF Chain
  <1> QED BY <1>6, <1>12 DEF Leads, l, y

LEMMA PushChain ==
    ASSUME NEW mx \in Nat, NEW n \in Nat \ {0}, n < mx, NEW ids \in [0..mx-1 -> Int],
           NEW id \in [Entries -> Int],
           NEW free, Leads(ids, id, free, mx, n), NEW e \in Entries, id[e] \in 1..mx-1,
           \A g \in Entries : id[g] = id[e] => g = e
    PROVE  Leads([ids EXCEPT ![id[e]] = -free], [id EXCEPT ![e] = -1], id[e], mx, n - 1)
  <1>1. PICK fl \in [1..(mx - n) -> 1..mx] : Chain(fl, mx - n, ids, id, free, mx)
    BY DEF Leads
  <1> DEFINE k == mx - n
             l == mx - (n - 1)
             o == id[e]
             f == [i \in 1..l |-> IF i = 1 THEN o ELSE fl[i-1]]
             y == [id EXCEPT ![e] = -1]
             x == [ids EXCEPT ![o] = -free]
  <1>2. k \in Nat /\ k >= 1 /\ l = k + 1 /\ l \in Nat \ {0}
    OBVIOUS
  <1>3. /\ fl \in [1..k -> 1..mx] /\ fl[1] = free /\ fl[k] = mx
        /\ \A i \in 1..k-1 : ids[fl[i]] = -fl[i+1]
        /\ \A i, j \in 1..k : fl[i] = fl[j] => i = j
        /\ \A i \in 1..k, g \in Entries : id[g] # fl[i]
    BY <1>1 DEF Chain
  <1>4. /\ \A g \in Entries : y[g] = IF g = e THEN -1 ELSE id[g]
        /\ x[o] = -free /\ \A i \in 1..mx : i # o => x[i] = ids[i]
        /\ o \in 1..mx-1
    OBVIOUS
  <1>14. \A i \in 1..k : fl[i] # o /\ fl[i] \in 1..mx
    BY <1>3
  <1> HIDE DEF k, l, y, x
  <1>5. \A i \in 1..l : /\ f[i] = IF i = 1 THEN o ELSE fl[i-1]
                        /\ i # 1 => i - 1 \in 1..k
    BY <1>2
  <1>6. f \in [1..l -> 1..mx]
    BY <1>4, <1>5, <1>14, SMTT(30)
  <1> HIDE DEF f
  <1>7. f[1] = o
    BY <1>2, <1>5
  <1>8. f[l] = mx
    <2>1. l \in 1..l /\ l - 1 = k /\ l # 1
      BY <1>2
    <2> QED BY <2>1, <1>3, <1>5
  <1>9. \A i \in 1..l-1 : x[f[i]] = -f[i+1]
    <2> SUFFICES ASSUME NEW i \in 1..l-1
                 PROVE  x[f[i]] = -f[i+1]
      OBVIOUS
    <2>1. i \in 1..l /\ i + 1 \in 1..l /\ i + 1 # 1 /\ (i + 1) - 1 = i
      BY <1>2
    <2>2. f[i+1] = fl[i]
      BY <2>1, <1>5
    <2>3. CASE i = 1
      BY <2>1, <2>2, <2>3, <1>3, <1>4, <1>5
    <2>4. CASE i # 1
      <3>1. i - 1 \in 1..k-1 /\ i - 1 \in 1..k /\ (i - 1) + 1 = i
        BY <2>4, <1>2
      <3>2. f[i] = fl[i-1] /\ fl[i-1] # o /\ fl[i-1] \in 1..mx /\ ids[fl[i-1]] = -fl[i]
        BY <2>1, <2>4, <3>1, <1>3, <1>5, <1>14
      <3> QED BY <3>2, <2>2, <1>4
    <2> QED BY <2>3, <2>4
  <1>10. \A i, j \in 1..l : f[i] = f[j] => i = j
    <2> SUFFICES ASSUME NEW i \in 1..l, NEW j \in 1..l, f[i] = f[j]
                 PROVE  i = j
      OBVIOUS
    <2>1. CASE i = 1 \/ j = 1
      BY <2>1, <1>5, <1>14, SMTT(30)
    <2>2. CASE i # 1 /\ j # 1
      <3>1. i - 1 = j - 1
        BY <2>2, <1>3, <1>5, SMTT(30)
      <3> QED BY <3>1
    <2> QED BY <2>1, <2>2
  <1>11. \A i \in 1..l, g \in Entries : y[g] # f[i]
    <2> SUFFICES ASSUME NEW i \in 1..l, NEW g \in Entries
                 PROVE  y[g] # f[i]
      OBVIOUS
    <2>1. CASE g = e
      <3>1. f[i] \in 1..mx
        BY <1>6
      <3> QED BY <3>1, <2>1, <1>4, SMTT(30)
    <2>2. CASE g # e
      <3>1. id[g] # o
        BY <2>2
      <3>2. i # 1 => id[g] # fl[i-1]
        BY <1>3, <1>5
      <3> QED BY <3>1, <3>2, <2>2, <1>4, <1>5
    <2> QED BY <2>1, <2>2
  <1>12. Chain(f, l, x, y, o, mx)
    BY <1>2, <1>6, <1>7, <1>8, <1>9, <1>10, <1>11 DEF Chain
  <1> QED BY <1>6, <1>12 DEF Leads, l, y, x

LEMMA GrowChain ==
    ASSUME NEW mx \in Nat, NEW n \in Nat, n < mx, NEW ids,
           NEW id \in [Entries -> Int], \A e \in Entries : id[e] < mx,
           NEW free, Leads(ids, id, free, mx, n)
    PROVE  Leads([i \in 0..2*mx-1 |-> IF i < mx THEN ids[i] ELSE -(i+1)], id, free, 2*mx, n)
  <1>1. PICK fl \in [1..(mx - n) -> 1..mx] : Chain(fl, mx - n, ids, id, free, mx)
    BY DEF Leads
  <1> DEFINE k == mx - n
             l == 2 * mx - n
             my == 2 * mx
             f == [i \in 1..l |-> IF i <= k THEN fl[i] ELSE n + i]
             x == [i \in 0..my-1 |-> IF i < mx THEN ids[i] ELSE -(i+1)]
  <1>2. /\ k \in Nat /\ k >= 1 /\ l = k + mx /\ l \in Nat \ {0} /\ l > k
        /\ my \in Nat /\ k + n = mx /\ l + n = my /\ my = mx + mx /\ mx >= 1
    OBVIOUS
  <1>3. /\ fl \in [1..k -> 1..mx] /\ fl[1] = free /\ fl[k] = mx
        /\ \A i \in 1..k-1 : ids[fl[i]] = -fl[i+1]
        /\ \A i, j \in 1..k : fl[i] = fl[j] => i = j
        /\ \A i \in 1..k, g \in Entries : id[g] # fl[i]
    BY <1>1 DEF Chain
  <1> HIDE DEF k, l, my
  <1>4. \A i \in 0..my-1 : x[i] = IF i < mx THEN ids[i] ELSE -(i+1)
    OBVIOUS
  <1>5. \A i \in 1..l : f[i] = IF i <= k THEN fl[i] ELSE n + i
    OBVIOUS
  <1>6. f \in [1..l -> 1..my]
    <2>1. \A i \in 1..l : f[i] \in 1..my
      <3> SUFFICES ASSUME NEW i \in 1..l PROVE f[i] \in 1..my
        OBVIOUS
      <3>1. CASE i <= k
        <4>1. i \in 1..k /\ fl[i] \in 1..mx
          BY <3>1, <1>2, <1>3
        <4> QED BY <4>1, <3>1, <1>2, <1>5
      <3>2. CASE i > k
        BY <3>2, <1>2, <1>5
      <3> QED BY <3>1, <3>2, <1>2
    <2> QED BY <2>1
  <1> HIDE DEF f, x
  <1>7. f[1] = free /\ f[l] = my
    <2>1. 1 \in 1..l /\ 1 <= k /\ l \in 1..l /\ ~(l <= k)
      BY <1>2
    <2>2. f[1] = fl[1] /\ f[l] = n + l
      BY <2>1, <1>5
    <2> QED BY <2>2, <1>2, <1>3
  <1>8. \A i \in 1..k : fl[i] \in 1..mx
    BY <1>3
  <1>9. \A i \in 1..l-1 : x[f[i]] = -f[i+1]
    <2> SUFFICES ASSUME NEW i \in 1..l-1
                 PROVE  x[f[i]] = -f[i+1]
      OBVIOUS
    <2>0. i \in 1..l /\ i + 1 \in 1..l
      BY <1>2
    <2>1. CASE i < k
      <3>1. i \in 1..k-1 /\ i \in 1..k /\ k \in 1..k /\ i # k /\ i + 1 <= k
        BY <2>1, <1>2
      <3>2. f[i] = fl[i] /\ f[i+1] = fl[i+1]
        BY <3>1, <2>0, <1>2, <1>5
      <3>3. fl[i] # mx
        BY <3>1, <1>3
      <3>4. fl[i] \in 1..mx /\ fl[i] < mx /\ fl[i] \in 0..my-1
        BY <3>1, <3>3, <1>2, <1>8
      <3> QED BY <3>1, <3>2, <3>4, <1>3, <1>4, SMTT(30)
    <2>2. CASE i = k
      <3>1. f[i] = mx /\ f[i+1] = n + (i + 1)
        BY <2>0, <2>2, <1>2, <1>3, <1>5
      <3>2. n + (i + 1) = mx + 1 /\ mx \in 0..my-1
        BY <2>2, <1>2
      <3>3. x[mx] = -(mx + 1)
        BY <3>2, <1>4
      <3> QED BY <3>1, <3>2, <3>3
    <2>3. CASE i > k
      <3>1. f[i] = n + i /\ f[i+1] = n + (i + 1)
        BY <2>0, <2>3, <1>2, <1>5
      <3>2. n + i \in 0..my-1 /\ n + i >= mx
        BY <2>3, <1>2
      <3>3. x[n+i] = -((n + i) + 1)
        BY <3>2, <1>4
      <3> QED BY <3>1, <3>3
    <2> QED BY <2>1, <2>2, <2>3, <1>2
  <1>10. \A i, j \in 1..l : f[i] = f[j] => i = j
    <2> SUFFICES ASSUME NEW i \in 1..l, NEW j \in 1..l, f[i] = f[j]
                 PROVE  i = j
      OBVIOUS
    <2>1. \A u \in 1..l : \/ (u \in 1..k /\ f[u] = fl[u] /\ fl[u] <= mx /\ fl[u] \in Int)
                         \/ (u > k /\ f[u] = n + u /\ n + u > mx)
      <3> SUFFICES ASSUME NEW u \in 1..l
                   PROVE  \/ (u \in 1..k /\ f[u] = fl[u] /\ fl[u] <= mx /\ fl[u] \in Int)
                          \/ (u > k /\ f[u] = n + u /\ n + u > mx)
        OBVIOUS
      <3>1. CASE u <= k
        BY <3>1, <1>2, <1>5, <1>8
      <3>2. CASE u > k
        BY <3>2, <1>2, <1>5
      <3> QED BY <3>1, <3>2, <1>2
    <2>2. CASE i \in 1..k /\ j \in 1..k
      BY <2>2, <1>2, <1>3, <1>5
    <2>3. CASE i > k /\ j > k
      BY <2>3, <1>2, <1>5
    <2> QED BY <2>1, <2>2, <2>3, <1>2
  <1>11. \A i \in 1..l, g \in Entries : id[g] # f[i]
    <2> SUFFICES ASSUME NEW i \in 1..l, NEW g \in Entries
                 PROVE  id[g] # f[i]
      OBVIOUS
    <2>1. CASE i <= k
      BY <2>1, <1>2, <1>3, <1>5
    <2>2. CASE i > k
      BY <2>2, <1>2, <1>5
    <2> QED BY <2>1, <2>2, <1>2
  <1>12. Chain(f, l, x, id, free, my)
    BY <1>2, <1>6, <1>7, <1>9, <1>10, <1>11 DEF Chain
  <1> QED BY <1>6, <1>12 DEF Leads, l, my, x

-----------------------------------------------------------------------------
(* The invariant                                                           *)

LEMMA Starts == Init => IInv
  <1> SUFFICES ASSUME Init PROVE IInv
    OBVIOUS
  <1> USE DEF Init
  <1>1. TypeOK
    BY SizeAssumption DEF TypeOK, MaybeEntry
  <1>2. Mutex
    BY DEF Mutex, Inside
  <1>3. Callers
    BY DEF Callers, Caller
  <1>4. Room
    BY SizeAssumption DEF Room
  <1>5. AtWork
    BY DEF AtWork, Works
  <1>6. Fits(heap, timer_ids, timer_id, max_size, -1, NoEntry, cur_size)
    BY SizeAssumption DEF Fits
  <1>7. InOrder(heap, timer_value, cur_size)
    BY DEF InOrder
  <1>8. Leads(timer_ids, timer_id, timer_ids_freelist, max_size, cur_size)
    <2> DEFINE k == Size + 2
               fl == [i \in 1..k |-> i]
    <2>1. k \in Nat \ {0} /\ max_size - cur_size = k /\ max_size = k
      BY SizeAssumption
    <2>2. fl \in [1..k -> 1..k] /\ fl[1] = 1 /\ fl[k] = k /\ \A i \in 1..k : fl[i] = i
      BY <2>1
    <2>5. \A i \in 0..Size+1 : timer_ids[i] = -(i + 1)
      OBVIOUS
    <2>6. \A e \in Entries : timer_id[e] = -1
      OBVIOUS
    <2> HIDE DEF fl, Init
    <2>3. \A i \in 1..k-1 : timer_ids[fl[i]] = -fl[i+1]
      <3> SUFFICES ASSUME NEW i \in 1..k-1 PROVE timer_ids[fl[i]] = -fl[i+1]
        OBVIOUS
      <3>1. fl[i] = i /\ fl[i+1] = i + 1 /\ i \in 0..Size+1
        <4>1. i \in 1..k /\ i + 1 \in 1..k /\ i \in 0..Size+1
          BY <2>1, SizeAssumption
        <4> QED BY <4>1, <2>2
      <3> QED BY <3>1, <2>5
    <2>7. \A i \in 1..k, e \in Entries : timer_id[e] # fl[i]
      BY <2>2, <2>6
    <2>8. \A i, j \in 1..k : fl[i] = fl[j] => i = j
      BY <2>2
    <2>4. Chain(fl, k, timer_ids, timer_id, 1, k)
      BY <2>1, <2>2, <2>3, <2>7, <2>8 DEF Chain
    <2>9. timer_ids_freelist = 1
      BY DEF Init
    <2> QED BY <2>1, <2>2, <2>4, <2>9 DEF Leads
  <1> QED BY <1>1, <1>2, <1>3, <1>4, <1>5, <1>6, <1>7, <1>8 DEF IInv, AtRest

\* A step that leaves the heap alone, of a thread that does not work on it.
LEMMA Elsewhere ==
    ASSUME IInv, NEW t \in Threads, UNCHANGED <<table, entries, moved, slot>>,
           ~Works(t), ~Works(t)',
           \A u \in Threads : u # t => at'[u] = at[u] /\ op'[u] = op[u]
    PROVE  Room' /\ AtRest' /\ AtWork'
  <1>1. \A u \in Threads : Works(u)' <=> Works(u)
    BY DEF Works
  <1>2. \A u \in Threads : Works(u) => Hole(u)' = Hole(u) /\ Extent(u)' = Extent(u) /\ u # t
    BY DEF table, Hole, Extent
  <1>3. Room'
    BY DEF IInv, Room, Works, table
  <1>4. AtRest'
    BY <1>1 DEF IInv, AtRest, table, entries
  <1>5. AtWork'
    <2> SUFFICES ASSUME NEW u \in Threads, Works(u)'
                 PROVE  /\ Fits(heap, timer_ids, timer_id, max_size, Hole(u), moved[u], Extent(u))'
                        /\ AroundHole(heap, timer_value, Hole(u), moved[u], Extent(u), at[u] # "down")'
                        /\ Leads(timer_ids, timer_id, timer_ids_freelist, max_size, Extent(u))'
      BY DEF AtWork
    <2>1. Works(u) /\ u # t /\ at'[u] = at[u]
      BY <1>1
    <2> QED BY <1>2, <2>1 DEF IInv, AtWork, table, entries
  <1> QED BY <1>3, <1>4, <1>5

LEMMA CallKeeps ==
    ASSUME IInv, NEW t \in Threads, NEW what \in {"schedule", "cancel"}, NEW e \in Entries,
           Calls(t, what, e), what = "schedule" => timer_id[e] < 1,
           expires' \in [Threads -> Nat],
           UNCHANGED <<table, entries, lock, moved, slot, pollVars, now>>
    PROVE  IInv'
  <1> USE DEF Calls, Goes, pollVars
  <1>1. TypeOK'
    BY DEF IInv, TypeOK, table, entries, MaybeEntry
  <1>2. Mutex'
    BY DEF IInv, Mutex, Inside, TypeOK
  <1>3. Callers'
    <2>1. \A u \in Threads : u # t => Caller(u)'
      BY DEF IInv, Callers, Caller, TypeOK, entries
    <2>2. Caller(t)'
      BY NoEntryAssumption DEF IInv, Callers, Caller, TypeOK, entries
    <2>3. \A u, v \in Threads : arg'[u] # NoEntry /\ arg'[u] = arg'[v] => u = v
      BY DEF IInv, Callers, Caller, TypeOK
    <2> QED BY <2>1, <2>2, <2>3 DEF Callers
  <1>4. Room' /\ AtRest' /\ AtWork'
    BY Elsewhere DEF Works, IInv, TypeOK
  <1> QED BY <1>1, <1>2, <1>3, <1>4 DEF IInv

LEMMA PollKeeps ==
    ASSUME IInv, NEW t \in Threads, Poll(t) \/ Return(t)
    PROVE  IInv'
  <1> USE DEF Poll, Return, Goes, pollVars
  <1>1. TypeOK'
    BY DEF IInv, TypeOK, table, entries, MaybeEntry
  <1>2. Mutex'
    BY DEF IInv, Mutex, Inside, TypeOK
  <1>3. Callers'
    BY SMTT(30) DEF IInv, Callers, Caller, TypeOK, entries
  <1>4. Room' /\ AtRest' /\ AtWork'
    BY Elsewhere DEF Works, IInv, TypeOK
  <1> QED BY <1>1, <1>2, <1>3, <1>4 DEF IInv

LEMMA AcquireKeeps ==
    ASSUME IInv, Locked, NEW t \in Threads, Acquire(t)
    PROVE  IInv'
  <1> USE DEF Acquire, Goes, callVars
  <1>0. op[t] \in {"schedule", "cancel", "poll"}
    BY DEF IInv, Callers, Caller
  <1>1. TypeOK'
    BY <1>0 DEF IInv, TypeOK, table, entries, MaybeEntry
  <1>2. Mutex'
    BY <1>0 DEF IInv, Mutex, Inside, TypeOK, Free
  <1>3. Callers'
    BY <1>0 DEF IInv, Callers, Caller, TypeOK, entries
  <1>4. Room' /\ AtRest' /\ AtWork'
    BY <1>0, Elsewhere DEF Works, IInv, TypeOK
  <1> QED BY <1>1, <1>2, <1>3, <1>4 DEF IInv

LEMMA PollEndsKeeps ==
    ASSUME IInv, Locked, NEW t \in Threads, PollEnds(t)
    PROVE  IInv'
  <1> USE DEF PollEnds, Release, Goes
  <1>1. TypeOK'
    BY DEF IInv, TypeOK, table, entries, MaybeEntry
  <1>2. Mutex'
    BY DEF IInv, Mutex, Inside, TypeOK
  <1>3. Callers'
    BY DEF IInv, Callers, Caller, TypeOK, entries
  <1>4. Room' /\ AtRest' /\ AtWork'
    BY Elsewhere DEF Works, IInv, TypeOK
  <1> QED BY <1>1, <1>2, <1>3, <1>4 DEF IInv

LEMMA TickKeeps ==
    ASSUME IInv, Tick
    PROVE  IInv'
  <1> USE DEF Tick, callVars, pollVars, table, entries
  <1>1. TypeOK'
    BY DEF IInv, TypeOK
  <1>2. Mutex' /\ Room' /\ AtRest' /\ AtWork'
    BY DEF IInv, Mutex, Inside, Room, AtRest, AtWork, Works, Hole, Extent
  <1>3. Callers'
    BY DEF IInv, Callers, Caller, TypeOK
  <1> QED BY <1>1, <1>2, <1>3 DEF IInv

\* Who is inside has the lock, and nobody else is.
LEMMA Alone ==
    ASSUME IInv, NEW t \in Threads, Inside(t)
    PROVE  \A u \in Threads : u # t => ~Inside(u) /\ ~Works(u)
  BY DEF IInv, Mutex, Inside, Works

\* The step of a thread that goes on working or starts to.
LEMMA Working ==
    ASSUME IInv, NEW t \in Threads, Inside(t), Works(t)',
           \A u \in Threads : u # t => at'[u] = at[u],
           Fits(heap', timer_ids', timer_id', max_size', Hole(t)', moved'[t], Extent(t)'),
           AroundHole(heap', timer_value', Hole(t)', moved'[t], Extent(t)', at'[t] # "down"),
           Leads(timer_ids', timer_id', timer_ids_freelist', max_size', Extent(t)')
    PROVE  AtRest' /\ AtWork'
  <1>1. \A u \in Threads : u # t => ~Works(u)'
    BY Alone DEF Works
  <1>2. AtRest'
    BY DEF AtRest
  <1>3. AtWork'
    <2> SUFFICES ASSUME NEW u \in Threads, Works(u)'
                 PROVE  /\ Fits(heap, timer_ids, timer_id, max_size, Hole(u), moved[u], Extent(u))'
                        /\ AroundHole(heap, timer_value, Hole(u), moved[u], Extent(u), at[u] # "down")'
                        /\ Leads(timer_ids, timer_id, timer_ids_freelist, max_size, Extent(u))'
      BY DEF AtWork
    <2>1. u = t
      BY <1>1
    <2> QED BY <2>1
  <1> QED BY <1>2, <1>3

\* The last step of a call.
LEMMA Rests ==
    ASSUME IInv, NEW t \in Threads, Inside(t), ~Works(t)',
           \A u \in Threads : u # t => at'[u] = at[u],
           Fits(heap', timer_ids', timer_id', max_size', -1, NoEntry, cur_size'),
           InOrder(heap', timer_value', cur_size'),
           Leads(timer_ids', timer_id', timer_ids_freelist', max_size', cur_size')
    PROVE  AtRest' /\ AtWork'
  <1>1. \A u \in Threads : ~Works(u)'
    BY Alone DEF Works
  <1>2. AtRest'
    BY DEF AtRest
  <1>3. AtWork'
    BY <1>1 DEF AtWork
  <1> QED BY <1>2, <1>3

LEMMA PopKeeps ==
    ASSUME IInv, NEW t \in Threads, pop_freelist(t)
    PROVE  IInv'
  <1> DEFINE e == arg[t]
             i == timer_ids_freelist
  <1>1. /\ at[t] = "schedule" /\ op[t] = "schedule" /\ Inside(t) /\ e \in Entries
        /\ timer_id[e] < 1 /\ expires[t] \in Nat
    BY DEF IInv, pop_freelist, Callers, Caller, Inside, TypeOK
  <1>2. /\ max_size \in Nat /\ cur_size \in Nat /\ cur_size + 2 <= max_size
        /\ timer_id \in [Entries -> Int] /\ timer_value \in [Entries -> Nat]
        /\ heap \in [0..max_size-1 -> MaybeEntry]
    BY DEF IInv, TypeOK, Room
  <1>3. /\ Fits(heap, timer_ids, timer_id, max_size, -1, NoEntry, cur_size)
        /\ InOrder(heap, timer_value, cur_size)
        /\ Leads(timer_ids, timer_id, i, max_size, cur_size)
    <2>1. \A u \in Threads : ~Works(u)
      BY <1>1, Alone DEF Works
    <2> QED BY <2>1 DEF IInv, AtRest
  <1>4. /\ i \in 1..max_size-1 /\ -timer_ids[i] \in 1..max_size
        /\ \A f \in Entries : timer_id[f] # i
    BY <1>2, <1>3, ChainGives
  <1>5. /\ timer_id' = [timer_id EXCEPT ![e] = i] /\ timer_value' = [timer_value EXCEPT ![e] = expires[t]]
        /\ timer_ids_freelist' = -timer_ids[i] /\ UNCHANGED <<heap, timer_ids, cur_size, max_size>>
        /\ moved' = [moved EXCEPT ![t] = e] /\ at' = [at EXCEPT ![t] = "insert"]
        /\ UNCHANGED <<lock, op, arg, expires, slot, node, count, seen, now>>
    BY DEF pop_freelist, NextFree, Goes, callVars, pollVars
  <1>6. TypeOK'
    BY <1>1, <1>2, <1>4, <1>5, SMTT(30) DEF IInv, TypeOK, MaybeEntry
  <1>7. /\ at'[t] = "insert" /\ moved'[t] = e /\ Works(t)' /\ Hole(t)' = cur_size
        /\ Extent(t)' = cur_size + 1 /\ \A u \in Threads : u # t => at'[u] = at[u]
    BY <1>1, <1>5 DEF IInv, TypeOK, Works, Hole, Extent
  <1>8. Fits(heap', timer_ids', timer_id', max_size', cur_size, e, cur_size + 1)
    <2> HIDE DEF e, i
    <2>1. cur_size < max_size
      BY <1>2
    <2>2. Fits(heap, timer_ids, [timer_id EXCEPT ![e] = i], max_size, cur_size, e, cur_size + 1)
      BY <2>1, <1>1, <1>2, <1>3, <1>4, PopFits
    <2> QED BY <2>2, <1>5
  <1>9. AroundHole(heap', timer_value', cur_size, e, cur_size + 1, TRUE)
    <2>1. \A s \in 0..cur_size-1 : timer_value'[heap[s]] = timer_value[heap[s]]
      <3> SUFFICES ASSUME NEW s \in 0..cur_size-1
                   PROVE  timer_value'[heap[s]] = timer_value[heap[s]]
        OBVIOUS
      <3>1. s # -1 /\ heap[s] \in Entries /\ timer_id[heap[s]] >= 1
        BY <1>2, <1>3 DEF Fits
      <3>2. heap[s] # e
        BY <3>1, <1>1, <1>2
      <3> QED BY <3>1, <3>2, <1>2, <1>5
    <2>2. heap' = heap /\ cur_size < max_size
      BY <1>2, <1>5
    <2> HIDE DEF e
    <2>3. AroundHole(heap, timer_value', cur_size, e, cur_size + 1, TRUE)
      BY <2>1, <2>2, <1>2, <1>3, InsertOrder
    <2> QED BY <2>2, <2>3
  <1>10. Leads(timer_ids', timer_id', timer_ids_freelist', max_size', cur_size + 1)
    BY <1>1, <1>2, <1>3, <1>5, PopChain
  <1>11. AtRest' /\ AtWork'
    <2> HIDE DEF e
    <2>1. at'[t] # "down"
      BY <1>7
    <2> QED BY <1>1, <1>7, <1>8, <1>9, <1>10, <2>1, Working
  <1>12. Room'
    <2>1. \A u \in Threads : at'[u] = "up" => at[u] = "up" /\ op'[u] = op[u]
      BY <1>5 DEF IInv, TypeOK
    <2> QED BY <2>1, <1>5 DEF IInv, Room
  <1>13. Mutex'
    BY <1>1, <1>5 DEF IInv, Mutex, Inside, TypeOK
  <1>14. Callers'
    <2>1. \A u \in Threads : u # t => arg[u] # e
      BY <1>1, NoEntryAssumption DEF IInv, Callers
    <2>2. \A u \in Threads : u # t => Caller(u)'
      <3> SUFFICES ASSUME NEW u \in Threads, u # t
                   PROVE  Caller(u)'
        OBVIOUS
      <3>1. Caller(u) /\ at'[u] = at[u] /\ op[u] \in {"none", "schedule", "cancel", "poll"}
        BY <1>5 DEF IInv, Callers, TypeOK
      <3>2. arg[u] \in Entries => timer_id'[arg[u]] = timer_id[arg[u]]
        BY <1>2, <1>5, <2>1
      <3> QED BY <3>1, <3>2, <1>5 DEF Caller
    <2>3. Caller(t)'
      BY <1>1, <1>5, <1>7 DEF Caller, IInv, Callers
    <2> QED BY <2>2, <2>3, <1>5 DEF IInv, Callers
  <1> QED BY <1>6, <1>11, <1>12, <1>13, <1>14 DEF IInv

LEMMA InsertKeeps ==
    ASSUME IInv, NEW t \in Threads, insert_node(t)
    PROVE  IInv'
  <1>1. /\ at[t] = "insert" /\ op[t] = "schedule" /\ Inside(t) /\ Works(t)
        /\ Hole(t) = cur_size /\ Extent(t) = cur_size + 1
    BY DEF IInv, insert_node, Callers, Caller, Inside, Works, Hole, Extent
  <1>2. /\ max_size \in Nat /\ cur_size \in Nat /\ cur_size + 2 <= max_size
        /\ timer_id \in [Entries -> Int] /\ timer_value \in [Entries -> Nat]
        /\ heap \in [0..max_size-1 -> MaybeEntry] /\ timer_ids \in [0..max_size-1 -> Int]
    BY DEF IInv, TypeOK, Room
  <1>3. /\ Fits(heap, timer_ids, timer_id, max_size, cur_size, moved[t], cur_size + 1)
        /\ AroundHole(heap, timer_value, cur_size, moved[t], cur_size + 1, TRUE)
        /\ Leads(timer_ids, timer_id, timer_ids_freelist, max_size, cur_size + 1)
    <2>1. at[t] # "down"
      BY <1>1
    <2>2. /\ Fits(heap, timer_ids, timer_id, max_size, Hole(t), moved[t], Extent(t))
          /\ AroundHole(heap, timer_value, Hole(t), moved[t], Extent(t), at[t] # "down")
          /\ Leads(timer_ids, timer_id, timer_ids_freelist, max_size, Extent(t))
      BY <1>1 DEF IInv, AtWork
    <2> QED BY <2>1, <2>2, <1>1
  <1>4. /\ slot' = [slot EXCEPT ![t] = cur_size] /\ at' = [at EXCEPT ![t] = "up"]
        /\ UNCHANGED <<timer_ids_freelist, cur_size, timer_id, timer_value, lock, op, arg, expires,
                       moved, node, count, seen, now>>
    BY DEF insert_node, Goes, entries, callVars, pollVars
  <1>5. /\ max_size' \in Nat /\ max_size <= max_size' /\ cur_size + 3 <= max_size'
        /\ heap' \in [0..max_size'-1 -> MaybeEntry] /\ timer_ids' \in [0..max_size'-1 -> Int]
        /\ \A s \in 0..max_size-1 : heap'[s] = heap[s] /\ timer_ids'[s] = timer_ids[s]
        /\ Leads(timer_ids', timer_id, timer_ids_freelist, max_size', cur_size + 1)
    <2>1. CASE Full
      <3>1. /\ max_size' = 2 * max_size
            /\ heap' = [s \in 0..2 * max_size - 1 |-> IF s < max_size THEN heap[s] ELSE NoEntry]
            /\ timer_ids' = [i \in 0..2 * max_size - 1 |->
                               IF i < max_size THEN timer_ids[i] ELSE -(i + 1)]
        BY <2>1 DEF insert_node, grow_heap
      <3>2. max_size' \in Nat /\ max_size <= max_size' /\ cur_size + 3 <= max_size'
        BY <3>1, <1>2, <2>1 DEF Full
      <3>3. heap' \in [0..max_size'-1 -> MaybeEntry] /\ timer_ids' \in [0..max_size'-1 -> Int]
        BY <3>1, <1>2 DEF MaybeEntry
      <3>4. \A s \in 0..max_size-1 : heap'[s] = heap[s] /\ timer_ids'[s] = timer_ids[s]
        BY <3>1, <1>2
      <3>5. \A e \in Entries : timer_id[e] < max_size
        BY <1>2, <1>3 DEF Fits
      <3>6. Leads([i \in 0..2 * max_size - 1 |-> IF i < max_size THEN timer_ids[i] ELSE -(i + 1)],
                  timer_id, timer_ids_freelist, 2 * max_size, cur_size + 1)
        <4>1. cur_size + 1 \in Nat /\ cur_size + 1 < max_size
          BY <1>2
        <4> QED BY <4>1, <3>5, <1>2, <1>3, GrowChain
      <3> QED BY <3>1, <3>2, <3>3, <3>4, <3>6
    <2>2. CASE ~Full
      <3>1. UNCHANGED <<heap, timer_ids, max_size>>
        BY <2>2 DEF insert_node
      <3> QED BY <3>1, <1>2, <1>3, <2>2 DEF Full
    <2> QED BY <2>1, <2>2
  <1>6. TypeOK'
    BY <1>2, <1>4, <1>5 DEF IInv, TypeOK, MaybeEntry
  <1>7. /\ at'[t] = "up" /\ moved'[t] = moved[t] /\ Works(t)' /\ Hole(t)' = cur_size
        /\ Extent(t)' = cur_size + 1 /\ \A u \in Threads : u # t => at'[u] = at[u]
    BY <1>1, <1>4 DEF IInv, TypeOK, Works, Hole, Extent
  <1>8. Fits(heap', timer_ids', timer_id', max_size', cur_size, moved[t], cur_size + 1)
    <2>1. Fits(heap', timer_ids', timer_id, max_size', cur_size, moved[t], cur_size + 1)
      <3>1. /\ \A s \in 0..max_size-1 : heap'[s] = heap[s] /\ timer_ids'[s] = timer_ids[s]
            /\ max_size' \in Nat /\ max_size <= max_size' /\ max_size \in Nat
            /\ timer_id \in [Entries -> Int]
        BY <1>2, <1>5
      <3> DEFINE n == cur_size + 1
      <3>2. Fits(heap, timer_ids, timer_id, max_size, cur_size, moved[t], n)
        BY <1>3
      <3> HIDE DEF n
      <3>3. Fits(heap', timer_ids', timer_id, max_size', cur_size, moved[t], n)
        BY <3>1, <3>2, GrowFits
      <3> QED BY <3>3 DEF n
    <2> QED BY <2>1, <1>4
  <1>9. AroundHole(heap', timer_value', cur_size, moved[t], cur_size + 1, TRUE)
    <2>0. \A s \in 0..(cur_size+1)-1 : s \in 0..max_size-1
      BY <1>2
    <2>1. \A s \in 0..(cur_size+1)-1 : s \in 0..max_size-1 /\ heap'[s] = heap[s]
      BY <2>0, <1>5
    <2>2. \A s \in 1..(cur_size+1)-1 : HEAP_PARENT(s) \in 0..(cur_size+1)-1
      BY <1>2, ParentIn
    <2>3. \A s \in 1..(cur_size+1)-1 : /\ heap'[s] = heap[s]
                                       /\ heap'[HEAP_PARENT(s)] = heap[HEAP_PARENT(s)]
      BY <2>1, <2>2, <1>2
    <2>4. cur_size > 0 => cur_size \in 1..(cur_size+1)-1
      BY <1>2
    <2> QED BY <2>3, <2>4, <1>3, <1>4 DEF AroundHole
  <1>11. AtRest' /\ AtWork'
    <2>1. at'[t] # "down" /\ timer_id' = timer_id /\ timer_ids_freelist' = timer_ids_freelist
      BY <1>4, <1>7
    <2> QED BY <1>1, <1>5, <1>7, <1>8, <1>9, <2>1, Working
  <1>12. Room'
    BY <1>2, <1>4, <1>5 DEF Room
  <1>13. Mutex'
    BY <1>1, <1>4 DEF IInv, Mutex, Inside, TypeOK
  <1>14. Callers'
    BY <1>1, <1>4 DEF IInv, Callers, Caller, TypeOK
  <1> QED BY <1>6, <1>11, <1>12, <1>13, <1>14 DEF IInv

\* What is known of a thread that has a slot open.
LEMMA AtTheHole ==
    ASSUME IInv, NEW t \in Threads, at[t] \in {"up", "down"}
    PROVE  /\ Inside(t) /\ Works(t) /\ Hole(t) = slot[t]
           /\ max_size \in Nat /\ cur_size \in Nat /\ Extent(t) \in Nat /\ Extent(t) < max_size
           /\ timer_id \in [Entries -> Int] /\ timer_value \in [Entries -> Nat]
           /\ heap \in [0..max_size-1 -> MaybeEntry] /\ timer_ids \in [0..max_size-1 -> Int]
           /\ Fits(heap, timer_ids, timer_id, max_size, slot[t], moved[t], Extent(t))
           /\ AroundHole(heap, timer_value, slot[t], moved[t], Extent(t), at[t] # "down")
           /\ Leads(timer_ids, timer_id, timer_ids_freelist, max_size, Extent(t))
           /\ slot[t] \in 0..Extent(t)-1 /\ moved[t] \in Entries
           /\ \A s \in 0..Extent(t)-1 : s # slot[t] => heap[s] \in Entries
           /\ \A e \in Entries : timer_id[e] >= 1 => timer_id[e] \in 1..max_size-1
  <1>1. Inside(t) /\ Works(t) /\ Hole(t) = slot[t]
    BY DEF Inside, Works, Hole
  <1>2. /\ max_size \in Nat /\ cur_size \in Nat
        /\ timer_id \in [Entries -> Int] /\ timer_value \in [Entries -> Nat]
        /\ heap \in [0..max_size-1 -> MaybeEntry] /\ timer_ids \in [0..max_size-1 -> Int]
        /\ slot[t] \in Nat
    BY DEF IInv, TypeOK
  <1>3. Extent(t) \in Nat /\ Extent(t) < max_size
    BY <1>2 DEF Extent, IInv, Room
  <1>4. /\ Fits(heap, timer_ids, timer_id, max_size, Hole(t), moved[t], Extent(t))
        /\ AroundHole(heap, timer_value, Hole(t), moved[t], Extent(t), at[t] # "down")
        /\ Leads(timer_ids, timer_id, timer_ids_freelist, max_size, Extent(t))
    BY <1>1 DEF IInv, AtWork
  <1>5. /\ slot[t] \in 0..Extent(t)-1 /\ moved[t] \in Entries
        /\ \A s \in 0..Extent(t)-1 : s # slot[t] => heap[s] \in Entries
        /\ \A e \in Entries : timer_id[e] >= 1 => timer_id[e] \in 1..max_size-1
    <2>1. slot[t] # -1 /\ Fits(heap, timer_ids, timer_id, max_size, slot[t], moved[t], Extent(t))
      BY <1>1, <1>2, <1>4
    <2>2. slot[t] \in 0..Extent(t)-1 /\ moved[t] \in Entries
      BY <2>1 DEF Fits
    <2>3. \A s \in 0..Extent(t)-1 : s # slot[t] => heap[s] \in Entries
      BY <2>1 DEF Fits
    <2>4. \A e \in Entries : timer_id[e] >= 1 => timer_id[e] < max_size
      BY <2>1 DEF Fits
    <2> QED BY <1>2, <2>2, <2>3, <2>4, SMTT(60)
  <1> QED BY <1>1, <1>2, <1>3, <1>4, <1>5

LEMMA OpensKeeps ==
    ASSUME IInv, NEW t \in Threads, at[t] \in {"up", "down"}, NEW s \in 0..Extent(t)-1, s # slot[t],
           Opens(t, s), UNCHANGED <<timer_ids_freelist, max_size, entries, pollVars, now>>,
           AroundHole([heap EXCEPT ![slot[t]] = heap[s]], timer_value, s, moved[t], Extent(t),
                      at[t] # "down")
    PROVE  IInv'
  <1> DEFINE h == slot[t]
             e == heap[s]
             n == Extent(t)
  <1>1. /\ heap' = [heap EXCEPT ![h] = e] /\ timer_ids' = [timer_ids EXCEPT ![timer_id[e]] = h]
        /\ slot' = [slot EXCEPT ![t] = s]
        /\ UNCHANGED <<cur_size, moved, lock, at, op, arg, expires, timer_ids_freelist, max_size,
                       timer_id, timer_value, node, count, seen, now>>
    BY DEF Opens, copy_node, callVars, entries, pollVars
  <1>2. /\ max_size \in Nat /\ n \in Nat /\ n < max_size /\ h \in 0..n-1 /\ h \in Nat /\ s \in Nat
        /\ timer_id \in [Entries -> Int] /\ timer_value \in [Entries -> Nat]
        /\ heap \in [0..max_size-1 -> MaybeEntry] /\ timer_ids \in [0..max_size-1 -> Int]
        /\ Fits(heap, timer_ids, timer_id, max_size, h, moved[t], n)
        /\ Leads(timer_ids, timer_id, timer_ids_freelist, max_size, n)
        /\ e \in Entries
    BY AtTheHole
  <1>3. timer_id[e] \in 1..max_size-1
    BY <1>2 DEF Fits
  <1>4. TypeOK'
    <2>1. h \in 0..max_size-1
      BY <1>2
    <2>3. e \in MaybeEntry /\ h \in Int
      BY <1>2 DEF MaybeEntry
    <2>2. heap' \in [0..max_size-1 -> MaybeEntry] /\ timer_ids' \in [0..max_size-1 -> Int]
      <3> HIDE DEF h, e
      <3>1. heap' \in [0..max_size-1 -> MaybeEntry]
        BY <2>1, <2>3, <1>1, <1>2
      <3>2. timer_ids' \in [0..max_size-1 -> Int]
        BY <2>3, <1>1, <1>2
      <3> QED BY <3>1, <3>2
    <2> QED BY <2>2, <1>1, <1>2 DEF IInv, TypeOK, MaybeEntry
  <1>5. Mutex' /\ Callers' /\ Room'
    BY <1>1 DEF IInv, Mutex, Inside, Callers, Caller, Room
  <1>6. /\ Works(t)' /\ Hole(t)' = s /\ Extent(t)' = n /\ moved'[t] = moved[t] /\ at' = at
    BY <1>1 DEF Works, Hole, Extent, IInv, TypeOK
  <1> HIDE DEF h, e, n
  <1>7. Fits(heap', timer_ids', timer_id', max_size', s, moved[t], n)
    <2>1. s # h
      BY DEF h
    <2>2. s \in 0..n-1
      BY DEF n
    <2>3. Fits([heap EXCEPT ![h] = heap[s]], [timer_ids EXCEPT ![timer_id[heap[s]]] = h],
               timer_id, max_size, s, moved[t], n)
      BY <1>2, <2>1, <2>2, OpensFits
    <2> QED BY <1>1, <2>3 DEF e
  <1>8. Leads(timer_ids', timer_id', timer_ids_freelist', max_size', n)
    <2>1. \A i \in 1..max_size-1 : (\A f \in Entries : timer_id[f] # i) => timer_ids'[i] = timer_ids[i]
      BY <1>1, <1>2
    <2>2. Leads(timer_ids', timer_id, timer_ids_freelist, max_size, n)
      BY <1>2, <2>1, ChainKept
    <2> QED BY <1>1, <2>2
  <1>9. AroundHole(heap', timer_value', s, moved[t], n, at'[t] # "down")
    BY <1>1 DEF h, e, n
  <1>10. AtRest' /\ AtWork'
    <2>1. Inside(t)
      BY DEF Inside
    <2> QED BY <2>1, <1>6, <1>7, <1>8, <1>9, Working
  <1> QED BY <1>4, <1>5, <1>10 DEF IInv

LEMMA PlacedKeeps ==
    ASSUME IInv, NEW t \in Threads, at[t] \in {"up", "down"},
           Placed(t), UNCHANGED <<timer_ids_freelist, max_size, entries, pollVars, now>>,
           InOrder([heap EXCEPT ![slot[t]] = moved[t]], timer_value, Extent(t))
    PROVE  IInv'
  <1> DEFINE h == slot[t]
             e == moved[t]
             n == Extent(t)
  <1>1. /\ heap' = [heap EXCEPT ![h] = e] /\ timer_ids' = [timer_ids EXCEPT ![timer_id[e]] = h]
        /\ cur_size' = n /\ moved' = [moved EXCEPT ![t] = NoEntry] /\ slot' = [slot EXCEPT ![t] = 0]
        /\ lock' = {} /\ at' = [at EXCEPT ![t] = "idle"] /\ op' = [op EXCEPT ![t] = "none"]
        /\ arg' = [arg EXCEPT ![t] = NoEntry] /\ expires' = [expires EXCEPT ![t] = 0]
        /\ UNCHANGED <<timer_ids_freelist, max_size, timer_id, timer_value, node, count, seen, now>>
    BY DEF Placed, copy_node, Release, Goes, Extent, entries, pollVars
  <1>2. /\ max_size \in Nat /\ n \in Nat /\ n < max_size /\ h \in 0..n-1 /\ h \in Nat
        /\ timer_id \in [Entries -> Int] /\ timer_value \in [Entries -> Nat]
        /\ heap \in [0..max_size-1 -> MaybeEntry] /\ timer_ids \in [0..max_size-1 -> Int]
        /\ Fits(heap, timer_ids, timer_id, max_size, h, e, n)
        /\ Leads(timer_ids, timer_id, timer_ids_freelist, max_size, n)
        /\ e \in Entries /\ Inside(t)
    BY AtTheHole
  <1>4. TypeOK'
    <2>1. h \in 0..max_size-1
      BY <1>2
    <2>3. e \in MaybeEntry /\ h \in Int
      BY <1>2 DEF MaybeEntry
    <2>2. heap' \in [0..max_size-1 -> MaybeEntry] /\ timer_ids' \in [0..max_size-1 -> Int]
      <3> HIDE DEF h, e
      <3>1. heap' \in [0..max_size-1 -> MaybeEntry]
        BY <2>1, <2>3, <1>1, <1>2
      <3>2. timer_ids' \in [0..max_size-1 -> Int]
        BY <2>3, <1>1, <1>2
      <3> QED BY <3>1, <3>2
    <2> QED BY <2>2, <1>1, <1>2 DEF IInv, TypeOK, MaybeEntry
  <1>5. Mutex'
    BY <1>1, <1>2 DEF IInv, Mutex, Inside, TypeOK
  <1>6. Callers'
    BY <1>1 DEF IInv, Callers, Caller, TypeOK
  <1>7. ~Works(t)' /\ \A u \in Threads : u # t => at'[u] = at[u]
    BY <1>1 DEF Works, IInv, TypeOK
  <1>8. Room'
    <2>1. \A u \in Threads : at'[u] # "up"
      BY <1>2, <1>7, Alone DEF Works
    <2>2. n + 2 <= max_size
      <3>1. op[t] = "schedule" => at[t] = "up"
        BY DEF IInv, Callers, Caller
      <3>2. cur_size \in Nat /\ max_size \in Nat
        BY DEF IInv, TypeOK
      <3> QED BY <3>1, <3>2 DEF IInv, Room, Extent
    <2> QED BY <2>1, <2>2, <1>1 DEF Room
  <1> HIDE DEF h, e, n
  <1>9. Fits(heap', timer_ids', timer_id', max_size', -1, NoEntry, cur_size')
    BY <1>1, <1>2, PlacedFits
  <1>10. Leads(timer_ids', timer_id', timer_ids_freelist', max_size', cur_size')
    <2>1. \A i \in 1..max_size-1 : (\A f \in Entries : timer_id[f] # i) => timer_ids'[i] = timer_ids[i]
      BY <1>1, <1>2
    <2>2. Leads(timer_ids', timer_id, timer_ids_freelist, max_size, n)
      BY <1>2, <2>1, ChainKept
    <2> QED BY <1>1, <2>2
  <1>11. InOrder(heap', timer_value', cur_size')
    BY <1>1 DEF h, e, n
  <1>12. AtRest' /\ AtWork'
    BY <1>2, <1>7, <1>9, <1>10, <1>11, Rests
  <1> QED BY <1>4, <1>5, <1>6, <1>8, <1>12 DEF IInv

LEMMA UpKeeps ==
    ASSUME IInv, NEW t \in Threads, reheap_up(t)
    PROVE  IInv'
  <1> DEFINE h == slot[t]
             m == moved[t]
             n == Extent(t)
             p == HEAP_PARENT(h)
  <1>0. at[t] = "up" /\ UNCHANGED <<timer_ids_freelist, max_size, entries, pollVars, now>>
    BY DEF reheap_up
  <1>1. /\ max_size \in Nat /\ n \in Nat /\ n <= max_size /\ h \in 0..n-1
        /\ timer_value \in [Entries -> Nat] /\ heap \in [0..max_size-1 -> MaybeEntry]
        /\ m \in Entries /\ \A s \in 0..n-1 : s # h => heap[s] \in Entries
        /\ AroundHole(heap, timer_value, h, m, n, at[t] # "down")
    BY <1>0, AtTheHole
  <1>2. (at[t] # "down") = TRUE
    BY <1>0
  <1>3. AroundHole(heap, timer_value, h, m, n, TRUE)
    BY <1>1, <1>2
  <1>4. h > 0 => p \in 0..n-1 /\ p # h /\ heap[p] \in Entries
    <2> SUFFICES ASSUME h > 0 PROVE p \in 0..n-1 /\ p # h
      BY <1>1
    <2>1. h \in Int /\ 1 <= h /\ h <= n /\ n \in Int
      BY <1>1
    <2> HIDE DEF h, n
    <2> QED BY <2>1, ParentIn
  <1>5. CASE Rises(t)
    <2>1. h > 0 /\ timer_value[m] < timer_value[heap[p]] /\ Opens(t, p)
      BY <1>5 DEF reheap_up, Rises, Earlier
    <2>2. AroundHole([heap EXCEPT ![h] = heap[p]], timer_value, p, m, n, TRUE)
      <3>1. h \in 1..n-1
        BY <1>1, <2>1
      <3> HIDE DEF h, m, n
      <3> QED BY <1>1, <1>3, <2>1, <3>1, UpOrder
    <2> QED BY <1>0, <1>2, <1>4, <2>1, <2>2, OpensKeeps
  <1>6. CASE ~Rises(t)
    <2>1. Placed(t)
      BY <1>6 DEF reheap_up
    <2>2. h > 0 => timer_value[heap[p]] <= timer_value[m]
      BY <1>1, <1>4, <1>6 DEF Rises, Earlier
    <2>3. InOrder([heap EXCEPT ![h] = m], timer_value, n)
      <3> HIDE DEF h, m, n, p
      <3> QED BY <1>1, <1>3, <2>2, PlacedOrder DEF p
    <2> QED BY <1>0, <2>1, <2>3, PlacedKeeps
  <1> QED BY <1>5, <1>6

LEMMA DownKeeps ==
    ASSUME IInv, NEW t \in Threads, reheap_down(t)
    PROVE  IInv'
  <1> DEFINE h == slot[t]
             m == moved[t]
             n == Extent(t)
             l == HEAP_LEFT(h)
             c == Child(h)
  <1>0. at[t] = "down" /\ UNCHANGED <<timer_ids_freelist, max_size, entries, pollVars, now>>
    BY DEF reheap_down
  <1>1. /\ max_size \in Nat /\ n \in Nat /\ n <= max_size /\ h \in 0..n-1 /\ h \in Nat
        /\ timer_value \in [Entries -> Nat] /\ heap \in [0..max_size-1 -> MaybeEntry]
        /\ m \in Entries /\ \A s \in 0..n-1 : s # h => heap[s] \in Entries
        /\ AroundHole(heap, timer_value, h, m, n, at[t] # "down")
    BY <1>0, AtTheHole
  <1>2. (at[t] # "down") = FALSE
    BY <1>0
  <1>3. AroundHole(heap, timer_value, h, m, n, FALSE)
    BY <1>1, <1>2
  <1>4. n = cur_size
    BY <1>0 DEF IInv, Callers, Caller, Extent
  <1>5. l = 2 * h + 1 /\ HEAP_PARENT(l) = h /\ HEAP_PARENT(l + 1) = h
    <2>1. (2 * h + 1) + 1 = 2 * h + 2 /\ h + h + 1 = 2 * h + 1
      BY <1>1
    <2>2. l = 2 * h + 1
      BY <2>1 DEF HEAP_LEFT
    <2>3. HEAP_PARENT(2 * h + 1) = h /\ HEAP_PARENT(2 * h + 2) = h
      BY <1>1, ChildFacts
    <2> QED BY <2>1, <2>2, <2>3
  <1>6. \A s \in 1..n-1 : HEAP_PARENT(s) = h => s = l \/ s = l + 1
    <2> SUFFICES ASSUME NEW s \in 1..n-1, HEAP_PARENT(s) = h
                 PROVE  s = l \/ s = l + 1
      OBVIOUS
    <2>1. s = 2 * h + 1 \/ s = 2 * h + 2
      BY ParentFacts
    <2> QED BY <2>1, <1>1, <1>5
  <1>7. l < n => /\ c \in 1..n-1 /\ HEAP_PARENT(c) = h /\ c # h
                 /\ \A s \in 1..n-1 : HEAP_PARENT(s) = h
                                     => timer_value[heap[c]] <= timer_value[heap[s]]
    <2> SUFFICES ASSUME l < n
                 PROVE  /\ c \in 1..n-1 /\ HEAP_PARENT(c) = h /\ c # h
                        /\ \A s \in 1..n-1 : HEAP_PARENT(s) = h
                                            => timer_value[heap[c]] <= timer_value[heap[s]]
      OBVIOUS
    <2>1. c = IF l + 1 < n /\ timer_value[heap[l + 1]] < timer_value[heap[l]] THEN l + 1 ELSE l
      BY <1>4 DEF Child, Earlier
    <2> HIDE DEF c, l, h, n
    <2>2. l \in 1..n-1 /\ l # h /\ l + 1 # h /\ (l + 1 < n => l + 1 \in 1..n-1)
      BY <1>1, <1>5
    <2>3. heap[l] \in Entries /\ (l + 1 < n => heap[l + 1] \in Entries)
      BY <1>1, <2>2
    <2>4. timer_value[heap[l]] \in Nat /\ (l + 1 < n => timer_value[heap[l + 1]] \in Nat)
      BY <1>1, <2>3
    <2>5. CASE l + 1 < n /\ timer_value[heap[l + 1]] < timer_value[heap[l]]
      BY <1>5, <1>6, <2>1, <2>2, <2>4, <2>5
    <2>6. CASE ~(l + 1 < n /\ timer_value[heap[l + 1]] < timer_value[heap[l]])
      <3>1. c = l
        BY <2>1, <2>6
      <3>2. \A s \in 1..n-1 : HEAP_PARENT(s) = h
                                            => timer_value[heap[l]] <= timer_value[heap[s]]
        <4> SUFFICES ASSUME NEW s \in 1..n-1, HEAP_PARENT(s) = h
                     PROVE  timer_value[heap[l]] <= timer_value[heap[s]]
          OBVIOUS
        <4>1. s = l \/ (s = l + 1 /\ l + 1 < n)
          BY <1>1, <1>6
        <4> QED BY <4>1, <2>4, <2>6
      <3> QED BY <3>1, <3>2, <1>5, <2>2
    <2> QED BY <2>5, <2>6
  <1>8. CASE l < n /\ Earlier(heap[c], m)
    <2>1. Opens(t, c) /\ timer_value[heap[c]] < timer_value[m]
      BY <1>4, <1>8 DEF reheap_down, Earlier
    <2>2. AroundHole([heap EXCEPT ![h] = heap[c]], timer_value, c, m, n, FALSE)
      <3> HIDE DEF h, m, n, c, l
      <3> QED BY <1>1, <1>3, <1>7, <1>8, <2>1, DownOrder
    <2>3. c \in 0..n-1 /\ c # h
      BY <1>7, <1>8
    <2> QED BY <1>0, <1>2, <2>1, <2>2, <2>3, OpensKeeps
  <1>9. CASE ~(l < n /\ Earlier(heap[c], m))
    <2>1. Placed(t)
      BY <1>4, <1>9 DEF reheap_down
    <2>2. \A s \in 1..n-1 : HEAP_PARENT(s) = h => timer_value[m] <= timer_value[heap[s]]
      <3> SUFFICES ASSUME NEW s \in 1..n-1, HEAP_PARENT(s) = h
                   PROVE  timer_value[m] <= timer_value[heap[s]]
        OBVIOUS
      <3>1. l < n
        BY <1>1, <1>5, <1>6, SMTT(30)
      <3>2. ~(timer_value[heap[c]] < timer_value[m]) /\ timer_value[heap[c]] <= timer_value[heap[s]]
        BY <3>1, <1>7, <1>9 DEF Earlier
      <3>3. s # h /\ c # h /\ c \in 0..n-1 /\ s \in 0..n-1
        <4>1. s = l \/ s = l + 1
          BY <1>6
        <4>2. h \in Nat /\ n \in Nat /\ l = 2 * h + 1 /\ c \in 1..n-1 /\ c # h
          BY <3>1, <1>1, <1>5, <1>7
        <4> HIDE DEF h, l, c, n
        <4> QED BY <4>1, <4>2
      <3>4. heap[c] \in Entries /\ heap[s] \in Entries
        BY <3>3, <1>1
      <3>5. timer_value[heap[c]] \in Nat /\ timer_value[heap[s]] \in Nat /\ timer_value[m] \in Nat
        BY <3>4, <1>1
      <3> QED BY <3>2, <3>5
    <2>3. InOrder([heap EXCEPT ![h] = m], timer_value, n)
      <3> HIDE DEF h, m, n, c, l
      <3> QED BY <1>1, <1>3, <2>2, PlacedOrder
    <2> QED BY <1>0, <2>1, <2>3, PlacedKeeps
  <1> QED BY <1>8, <1>9

\* What is known of the heap when a thread with the lock has no slot open.
LEMMA AtTheStart ==
    ASSUME IInv, NEW t \in Threads, at[t] \in {"cancel", "poll"}
    PROVE  /\ Inside(t)
           /\ max_size \in Nat /\ cur_size \in Nat /\ cur_size < max_size
           /\ timer_id \in [Entries -> Int] /\ timer_value \in [Entries -> Nat]
           /\ heap \in [0..max_size-1 -> MaybeEntry] /\ timer_ids \in [0..max_size-1 -> Int]
           /\ Fits(heap, timer_ids, timer_id, max_size, -1, NoEntry, cur_size)
           /\ InOrder(heap, timer_value, cur_size)
           /\ Leads(timer_ids, timer_id, timer_ids_freelist, max_size, cur_size)
           /\ \A s \in 0..cur_size-1 : heap[s] \in Entries /\ timer_id[heap[s]] \in 1..max_size-1
                                      /\ timer_ids[timer_id[heap[s]]] = s
  <1>1. Inside(t) /\ \A u \in Threads : ~Works(u)
    BY Alone DEF Inside, Works
  <1>2. /\ max_size \in Nat /\ cur_size \in Nat /\ cur_size < max_size
        /\ timer_id \in [Entries -> Int] /\ timer_value \in [Entries -> Nat]
        /\ heap \in [0..max_size-1 -> MaybeEntry] /\ timer_ids \in [0..max_size-1 -> Int]
    BY DEF IInv, TypeOK, Room
  <1>3. /\ Fits(heap, timer_ids, timer_id, max_size, -1, NoEntry, cur_size)
        /\ InOrder(heap, timer_value, cur_size)
        /\ Leads(timer_ids, timer_id, timer_ids_freelist, max_size, cur_size)
    BY <1>1 DEF IInv, AtRest
  <1>4. \A s \in 0..cur_size-1 : heap[s] \in Entries /\ timer_id[heap[s]] \in 1..max_size-1
                                /\ timer_ids[timer_id[heap[s]]] = s
    <2> SUFFICES ASSUME NEW s \in 0..cur_size-1
                 PROVE  /\ heap[s] \in Entries /\ timer_id[heap[s]] \in 1..max_size-1
                        /\ timer_ids[timer_id[heap[s]]] = s
      OBVIOUS
    <2>1. s # -1
      BY <1>2
    <2>2. heap[s] \in Entries /\ timer_id[heap[s]] >= 1 /\ timer_ids[timer_id[heap[s]]] = s
      BY <2>1, <1>3 DEF Fits
    <2>3. timer_id[heap[s]] < max_size /\ timer_id[heap[s]] \in Int
      BY <2>2, <1>2, <1>3 DEF Fits
    <2> QED BY <2>2, <2>3, <1>2
  <1> QED BY <1>1, <1>2, <1>3, <1>4

LEMMA RemoveKeeps ==
    ASSUME IInv, NEW t \in Threads, at[t] \in {"cancel", "poll"}, NEW s \in 0..cur_size-1,
           remove_node(t, s), seen' = seen, count' \in [Threads -> Nat],
           node' \in [Threads -> MaybeEntry],
           \A u \in Threads : u # t => node'[u] = node[u]
    PROVE  IInv'
  <1> DEFINE e == heap[s]
             n == cur_size
             l == heap[n-1]
             i == timer_id[e]
             freed == [timer_ids EXCEPT ![i] = -timer_ids_freelist]
  <1>1. /\ Inside(t) /\ max_size \in Nat /\ n \in Nat \ {0} /\ n < max_size /\ n + 2 <= max_size
        /\ timer_id \in [Entries -> Int] /\ timer_value \in [Entries -> Nat]
        /\ heap \in [0..max_size-1 -> MaybeEntry] /\ timer_ids \in [0..max_size-1 -> Int]
        /\ Fits(heap, timer_ids, timer_id, max_size, -1, NoEntry, n)
        /\ InOrder(heap, timer_value, n)
        /\ Leads(timer_ids, timer_id, timer_ids_freelist, max_size, n)
        /\ timer_ids_freelist \in Nat
    <2>1. n \in Nat /\ s \in 0..n-1 /\ n + 2 <= max_size /\ timer_ids_freelist \in Nat
      BY DEF IInv, Room, TypeOK
    <2>2. n \in Nat \ {0}
      <3> HIDE DEF n
      <3> QED BY <2>1
    <2>3. /\ Inside(t) /\ max_size \in Nat /\ n < max_size
          /\ timer_id \in [Entries -> Int] /\ timer_value \in [Entries -> Nat]
          /\ heap \in [0..max_size-1 -> MaybeEntry] /\ timer_ids \in [0..max_size-1 -> Int]
      BY AtTheStart
    <2>4. /\ Fits(heap, timer_ids, timer_id, max_size, -1, NoEntry, n)
          /\ InOrder(heap, timer_value, n)
          /\ Leads(timer_ids, timer_id, timer_ids_freelist, max_size, n)
      BY AtTheStart
    <2> QED BY <2>1, <2>2, <2>3, <2>4
  <1>2. /\ e \in Entries /\ i \in 1..max_size-1 /\ timer_ids[i] = s
        /\ l \in Entries /\ timer_id[l] \in 1..max_size-1 /\ timer_ids[timer_id[l]] = n-1
    <2>1. n-1 \in 0..cur_size-1
      BY <1>1
    <2>2. \A r \in 0..cur_size-1 : heap[r] \in Entries /\ timer_id[heap[r]] \in 1..max_size-1
                                  /\ timer_ids[timer_id[heap[r]]] = r
      BY AtTheStart
    <2> QED BY <2>1, <2>2
  <1>3. /\ timer_ids_freelist' = i /\ cur_size' = n-1
        /\ timer_id' = [timer_id EXCEPT ![e] = -1] /\ timer_value' = [timer_value EXCEPT ![e] = 0]
        /\ UNCHANGED <<max_size, now>>
        /\ IF s < n-1
           THEN /\ heap' = [heap EXCEPT ![n-1] = NoEntry, ![s] = l]
                /\ timer_ids' = [freed EXCEPT ![timer_id[l]] = s]
                /\ moved' = [moved EXCEPT ![t] = l] /\ slot' = [slot EXCEPT ![t] = s]
                /\ at' = [at EXCEPT ![t] = Direction(s, l)]
                /\ UNCHANGED <<lock, op, arg, expires>>
           ELSE /\ heap' = [heap EXCEPT ![s] = NoEntry]
                /\ timer_ids' = freed
                /\ UNCHANGED <<moved, slot>>
                /\ lock' = {} /\ at' = [at EXCEPT ![t] = "idle"] /\ op' = [op EXCEPT ![t] = "none"]
                /\ arg' = [arg EXCEPT ![t] = NoEntry] /\ expires' = [expires EXCEPT ![t] = 0]
    BY DEF remove_node, GivesUp, Goes, Release, callVars
  <1>4. op[t] \in {"cancel", "poll"} /\ at[t] \in Places /\ at \in [Threads -> Places]
    <2>1. at \in [Threads -> Places] /\ op[t] \in {"none", "schedule", "cancel", "poll"}
      BY DEF IInv, TypeOK, Places
    <2>2. Caller(t)
      BY DEF IInv, Callers
    <2>3. op[t] \in {"cancel", "poll"}
      BY <2>2 DEF Caller
    <2> QED BY <2>1, <2>3 DEF Places
  <1>5. Direction(s, l) \in {"up", "down"}
    BY DEF Direction
  <1> HIDE DEF e, n, l, i
  <1>6. /\ s \in 0..n-1 /\ n-1 \in Nat /\ s \in Nat
        /\ \A r \in 0..n-2 : r # s => heap'[r] = heap[r]
        /\ \A j \in 1..max_size-1 : j # i /\ j # timer_id[l] => timer_ids'[j] = timer_ids[j]
        /\ \A f \in Entries : f # e => timer_value'[f] = timer_value[f]
    <2>1. s \in 0..n-1 /\ n-1 \in Nat /\ s \in Nat
      BY <1>1, SMTT(30) DEF n
    <2>2. \A r \in 0..n-2 : r # s => heap'[r] = heap[r]
      <3>1. CASE s < n-1
        <4>1. heap' = [heap EXCEPT ![n-1] = NoEntry, ![s] = l]
          BY <3>1, <1>3
        <4>2. \A r \in 0..n-2 : r # n-1 /\ r \in 0..max_size-1
          BY <1>1
        <4> QED BY <4>1, <4>2, <1>1
      <3>2. CASE ~(s < n-1)
        <4>1. heap' = [heap EXCEPT ![s] = NoEntry]
          BY <3>2, <1>3
        <4>2. \A r \in 0..n-2 : r \in 0..max_size-1
          BY <1>1
        <4> QED BY <4>1, <4>2, <1>1
      <3> QED BY <3>1, <3>2
    <2>3. \A j \in 1..max_size-1 : j # i /\ j # timer_id[l] => timer_ids'[j] = timer_ids[j]
      BY <1>1, <1>3, SMTT(30)
    <2>4. \A f \in Entries : f # e => timer_value'[f] = timer_value[f]
      BY <1>1, <1>3
    <2> QED BY <2>1, <2>2, <2>3, <2>4
  <1>7. /\ heap' \in [0..max_size-1 -> MaybeEntry] /\ timer_ids' \in [0..max_size-1 -> Int]
        /\ timer_id' \in [Entries -> Int] /\ timer_value' \in [Entries -> Nat]
    <2>1. l \in MaybeEntry /\ NoEntry \in MaybeEntry
      BY <1>2 DEF MaybeEntry
    <2>2. heap' \in [0..max_size-1 -> MaybeEntry]
      BY <2>1, <1>1, <1>3
    <2>3. -timer_ids_freelist \in Int
      BY <1>1
    <2>4. freed \in [0..max_size-1 -> Int]
      BY <2>3, <1>1
    <2> HIDE DEF freed
    <2>5. timer_ids' \in [0..max_size-1 -> Int]
      BY <2>4, <1>3, <1>6
    <2>6. timer_id' \in [Entries -> Int] /\ timer_value' \in [Entries -> Nat]
      <3>1. -1 \in Int /\ 0 \in Nat
        OBVIOUS
      <3>2. timer_id' \in [Entries -> Int]
        BY <3>1, <1>1, <1>3
      <3>3. timer_value' \in [Entries -> Nat]
        BY <3>1, <1>1, <1>3
      <3> QED BY <3>2, <3>3
    <2> QED BY <2>2, <2>5, <2>6
  <1>8. Leads(timer_ids', timer_id', timer_ids_freelist', max_size', n-1)
    <2>1. \A g \in Entries : timer_id[g] = timer_id[e] => g = e
      BY <1>1, <1>2 DEF Fits, i
    <2>2. Leads(freed, timer_id', i, max_size, n-1)
      BY <1>1, <1>2, <1>3, <2>1, PushChain DEF i
    <2>3. \A j \in 1..max_size-1 : (\A f \in Entries : timer_id'[f] # j) => timer_ids'[j] = freed[j]
      <3> SUFFICES ASSUME s < n-1, NEW j \in 1..max_size-1, \A f \in Entries : timer_id'[f] # j
                   PROVE  timer_ids'[j] = freed[j]
        BY <1>3
      <3>1. l # e
        BY <1>2, <1>6 DEF i
      <3>2. timer_id'[l] = timer_id[l]
        BY <3>1, <1>1, <1>2, <1>3
      <3>3. j # timer_id[l] /\ timer_ids' = [freed EXCEPT ![timer_id[l]] = s]
        BY <3>2, <1>2, <1>3
      <3> DEFINE g == freed
                 d == timer_id[l]
      <3>4. g \in [0..max_size-1 -> Int] /\ d # j /\ timer_ids' = [g EXCEPT ![d] = s]
        <4>1. -timer_ids_freelist \in Int
          BY <1>1
        <4> QED BY <4>1, <3>3, <1>1
      <3>5. j \in 0..max_size-1
        OBVIOUS
      <3> HIDE DEF g, d
      <3>6. timer_ids'[j] = g[j]
        BY <3>4, <3>5
      <3> QED BY <3>6 DEF g
    <2>4. n-1 \in Nat /\ n-1 < max_size
      BY <1>1
    <2> HIDE DEF freed
    <2> DEFINE k == n-1
    <2>5. k \in Nat /\ k < max_size /\ Leads(freed, timer_id', i, max_size, k)
      BY <2>2, <2>4
    <2> HIDE DEF k
    <2>6. Leads(timer_ids', timer_id', i, max_size, k)
      BY <1>1, <2>3, <2>5, ChainKept
    <2> QED BY <2>6, <1>3 DEF k
  <1>9. Room'
    <2>1. \A u \in Threads : op'[u] = "schedule" => u # t /\ op[u] = "schedule" /\ at'[u] = at[u]
      BY <1>3, <1>4, SMTT(30) DEF IInv, TypeOK
    <2>2. \A u \in Threads : u # t => at[u] # "up"
      BY <1>1, Alone DEF Inside
    <2> QED BY <2>1, <2>2, <1>1, <1>3 DEF Room
  <1>10. CASE s < n-1
    <2>1. /\ at'[t] = Direction(s, l) /\ Works(t)' /\ Hole(t)' = s /\ Extent(t)' = n-1
          /\ moved'[t] = l /\ \A u \in Threads : u # t => at'[u] = at[u]
      BY <1>3, <1>4, <1>5, <1>10 DEF Works, Hole, Extent, IInv, TypeOK
    <2>2. Fits(heap', timer_ids', timer_id', max_size', s, l, n-1)
      BY <1>1, <1>3, <1>6, <1>10, RemoveFits, ZenonT(30) DEF e, l, i
    <2>3. AroundHole(heap', timer_value', s, l, n-1, at'[t] # "down")
      <3> DEFINE up == Direction(s, l) # "down"
      <3>1. /\ up => s > 0 /\ timer_value[l] < timer_value[heap[HEAP_PARENT(s)]]
            /\ ~up => s = 0 \/ ~(timer_value[l] < timer_value[heap[HEAP_PARENT(s)]])
        BY <1>6 DEF Direction, Earlier
      <3>2. s > 0 => timer_value[heap[HEAP_PARENT(s)]] \in Nat
        <4> SUFFICES ASSUME s > 0 PROVE timer_value[heap[HEAP_PARENT(s)]] \in Nat
          OBVIOUS
        <4>1. HEAP_PARENT(s) \in 0..cur_size-1
          BY <1>1, <1>6, ParentIn DEF n
        <4> QED BY <4>1, <1>1, AtTheStart
      <3>3. timer_value[l] \in Nat
        BY <1>1, <1>2
      <3>4. ~up => s = 0 \/ timer_value[heap[HEAP_PARENT(s)]] <= timer_value[l]
        BY <3>1, <3>2, <3>3, <1>6
      <3>5. \A r \in 0..n-1 : heap[r] \in Entries
        BY AtTheStart DEF n
      <3>6. \A r \in 0..n-1 : r # s => timer_value'[heap[r]] = timer_value[heap[r]]
        <4> SUFFICES ASSUME NEW r \in 0..n-1, r # s
                     PROVE  timer_value'[heap[r]] = timer_value[heap[r]]
          OBVIOUS
        <4>1. heap[r] \in Entries /\ timer_ids[timer_id[heap[r]]] = r
          BY AtTheStart DEF n
        <4>2. heap[r] # e
          BY <4>1, <1>2 DEF i
        <4> QED BY <4>1, <4>2, <1>6
      <3>7. s \in 0..n-2 /\ up \in BOOLEAN
        BY <1>1, <1>6, <1>10
      <3> HIDE DEF up
      <3>8. AroundHole(heap', timer_value', s, heap[n-1], n-1, up)
        <4>1. /\ up => s > 0 /\ timer_value[heap[n-1]] < timer_value[heap[HEAP_PARENT(s)]]
              /\ ~up => s = 0 \/ timer_value[heap[HEAP_PARENT(s)]] <= timer_value[heap[n-1]]
          BY <3>1, <3>4 DEF l
        <4>2. n \in Nat /\ n <= max_size /\ max_size \in Nat
          BY <1>1
        <4>3. \A r \in 0..n-2 : r # s => heap'[r] = heap[r]
          BY <1>6
        <4> DEFINE mx == max_size  hp == heap  hq == heap'  vq == timer_value'  val == timer_value
        <4>4. /\ hp \in [0..mx-1 -> MaybeEntry] /\ val \in [Entries -> Nat] /\ vq \in [Entries -> Nat]
              /\ mx \in Nat /\ n <= mx /\ InOrder(hp, val, n)
              /\ \A r \in 0..n-1 : hp[r] \in Entries
              /\ \A r \in 0..n-2 : r # s => hq[r] = hp[r]
              /\ \A r \in 0..n-1 : r # s => vq[hp[r]] = val[hp[r]]
              /\ up => s > 0 /\ val[hp[n-1]] < val[hp[HEAP_PARENT(s)]]
              /\ ~up => s = 0 \/ val[hp[HEAP_PARENT(s)]] <= val[hp[n-1]]
          BY <1>1, <1>7, <3>5, <3>6, <4>1, <4>2, <4>3
        <4> HIDE DEF mx, hp, hq, vq, val
        <4>5. AroundHole(hq, vq, s, hp[n-1], n-1, up)
          <5>1. n \in Nat /\ n <= mx /\ s \in 0..n-2 /\ up \in BOOLEAN
            BY <3>7, <4>2, <4>4
          <5> QED BY ONLY <5>1, <4>4, RemoveOrder, ZenonT(30)
        <4> QED BY <4>5 DEF mx, hp, hq, vq, val
      <3> QED BY <2>1, <3>8 DEF l, up
    <2>4. TypeOK'
      <3>1. /\ cur_size' \in Nat /\ max_size' \in Nat /\ max_size' = max_size
            /\ timer_ids_freelist' \in Nat /\ now' \in Nat
        BY <1>1, <1>2, <1>3, <1>6 DEF IInv, TypeOK
      <3>2. /\ at' \in [Threads -> Places] /\ lock' \subseteq Threads
            /\ op' \in [Threads -> {"none", "schedule", "cancel", "poll"}]
        BY <1>3, <1>4, <1>5, <1>10 DEF IInv, TypeOK, Places
      <3>3. /\ arg' \in [Threads -> MaybeEntry] /\ moved' \in [Threads -> MaybeEntry]
            /\ expires' \in [Threads -> Nat] /\ slot' \in [Threads -> Nat]
        <4>1. /\ arg \in [Threads -> MaybeEntry] /\ moved \in [Threads -> MaybeEntry]
              /\ expires \in [Threads -> Nat] /\ slot \in [Threads -> Nat]
              /\ l \in MaybeEntry /\ NoEntry \in MaybeEntry /\ 0 \in Nat
          BY <1>2 DEF IInv, TypeOK, MaybeEntry
        <4> QED BY <4>1, <1>3, <1>6, <1>10
      <3>4. seen' \in [Threads -> Nat]
        BY DEF IInv, TypeOK
      <3> QED BY <1>7, <3>1, <3>2, <3>3, <3>4 DEF TypeOK, Places
    <2>5. Mutex'
      BY <1>1, <1>3, <1>5, <1>10, ZenonT(30) DEF IInv, Mutex, Inside, TypeOK
    <2>6. Callers'
      <3>1. \A u \in Threads : arg[u] \in Entries /\ timer_id[arg[u]] < 1 => timer_id'[arg[u]] < 1
        BY <1>1, <1>3
      <3>2. \A u \in Threads : u # t => Caller(u)'
        BY <3>1, <1>3, <1>10, SMTT(30) DEF IInv, Callers, Caller, TypeOK
      <3>3. Caller(t)'
        BY <3>1, <1>3, <1>4, <1>5, <1>10 DEF IInv, Callers, Caller, TypeOK
      <3> QED BY <3>2, <3>3, <1>3, <1>10 DEF IInv, Callers
    <2>7. AtRest' /\ AtWork'
      BY <1>1, <1>8, <2>1, <2>2, <2>3, Working
    <2> QED BY <1>9, <2>4, <2>5, <2>6, <2>7 DEF IInv
  <1>11. CASE ~(s < n-1)
    <2>1. ~Works(t)' /\ \A u \in Threads : u # t => at'[u] = at[u]
      BY <1>3, <1>11 DEF Works, IInv, TypeOK
    <2>2. Fits(heap', timer_ids', timer_id', max_size', -1, NoEntry, n-1)
      BY <1>1, <1>3, <1>6, <1>11, RemoveFits, ZenonT(30) DEF e, l, i
    <2>3. InOrder(heap', timer_value', n-1)
      <3> SUFFICES ASSUME NEW r \in 1..(n-1)-1
                   PROVE  timer_value'[heap'[HEAP_PARENT(r)]] <= timer_value'[heap'[r]]
        BY DEF InOrder
      <3> DEFINE p == HEAP_PARENT(r)
      <3>1. r \in 0..n-2 /\ r # s /\ r \in 1..n-1 /\ r \in 0..cur_size-1
        BY <1>1, <1>6, <1>11 DEF n
      <3>2. p \in 0..n-2 /\ p # s /\ p \in 0..cur_size-1
        <4>1. r \in Int /\ 1 <= r /\ r <= n-2 /\ n-2 \in Int
          BY <1>1
        <4>2. p \in 0..n-2-1
          BY <4>1, ParentIn
        <4> QED BY <4>2, <1>1, <1>6, <1>11, SMTT(30) DEF n
      <3>3. timer_value[heap[p]] <= timer_value[heap[r]]
        BY <3>1, <1>1 DEF InOrder
      <3>4. heap'[p] = heap[p] /\ heap'[r] = heap[r]
        BY <3>1, <3>2, <1>6
      <3>5. /\ heap[p] \in Entries /\ timer_ids[timer_id[heap[p]]] = p
            /\ heap[r] \in Entries /\ timer_ids[timer_id[heap[r]]] = r
        BY <3>1, <3>2, AtTheStart
      <3>6. heap[p] # e /\ heap[r] # e
        BY <3>1, <3>2, <3>5, <1>2 DEF i
      <3> QED BY <3>3, <3>4, <3>5, <3>6, <1>6
    <2>4. TypeOK'
      <3>1. /\ cur_size' \in Nat /\ max_size' \in Nat /\ max_size' = max_size
            /\ timer_ids_freelist' \in Nat /\ now' \in Nat
        BY <1>1, <1>2, <1>3, <1>6 DEF IInv, TypeOK
      <3>2. /\ at' \in [Threads -> Places] /\ lock' \subseteq Threads
            /\ op' \in [Threads -> {"none", "schedule", "cancel", "poll"}]
        BY <1>3, <1>4, <1>5, <1>11 DEF IInv, TypeOK, Places
      <3>3. /\ arg' \in [Threads -> MaybeEntry] /\ moved' \in [Threads -> MaybeEntry]
            /\ expires' \in [Threads -> Nat] /\ slot' \in [Threads -> Nat]
        <4>1. /\ arg \in [Threads -> MaybeEntry] /\ moved \in [Threads -> MaybeEntry]
              /\ expires \in [Threads -> Nat] /\ slot \in [Threads -> Nat]
              /\ l \in MaybeEntry /\ NoEntry \in MaybeEntry /\ 0 \in Nat
          BY <1>2 DEF IInv, TypeOK, MaybeEntry
        <4> QED BY <4>1, <1>3, <1>6, <1>11
      <3>4. seen' \in [Threads -> Nat]
        BY DEF IInv, TypeOK
      <3> QED BY <1>7, <3>1, <3>2, <3>3, <3>4 DEF TypeOK, Places
    <2>5. Mutex'
      <3>1. lock' = {} /\ at'[t] = "idle" /\ \A u \in Threads : u # t => at'[u] = at[u]
        BY <1>3, <1>4, <1>11
      <3>2. \A u \in Threads : u # t => ~Inside(u)
        BY <1>1, Alone
      <3> QED BY <3>1, <3>2 DEF Mutex, Inside
    <2>6. Callers'
      <3>1. \A u \in Threads : arg[u] \in Entries /\ timer_id[arg[u]] < 1 => timer_id'[arg[u]] < 1
        BY <1>1, <1>3
      <3>2. \A u \in Threads : u # t => Caller(u)'
        BY <3>1, <1>3, <1>11, SMTT(30) DEF IInv, Callers, Caller, TypeOK
      <3>3. Caller(t)'
        BY <3>1, <1>3, <1>4, <1>11 DEF IInv, Callers, Caller, TypeOK
      <3> QED BY <3>2, <3>3, <1>3, <1>11, ZenonT(30) DEF IInv, Callers, TypeOK
    <2>7. AtRest' /\ AtWork'
      BY <1>1, <1>3, <1>8, <2>1, <2>2, <2>3, Rests
    <2> QED BY <1>9, <2>4, <2>5, <2>6, <2>7 DEF IInv
  <1> QED BY <1>10, <1>11

\* An entry whose id leads nowhere has none.
LEMMA CancelKeeps ==
    ASSUME IInv, NoZero, NEW t \in Threads, cancel(t)
    PROVE  IInv'
  <1> DEFINE e == arg[t]
  <1>1. /\ at[t] = "cancel" /\ e \in Entries /\ Caller(t) /\ op[t] = "cancel"
        /\ UNCHANGED <<node, count, seen>>
    BY DEF cancel, IInv, Callers, Caller, pollVars
  <1>2. /\ Inside(t) /\ max_size \in Nat /\ cur_size \in Nat
        /\ timer_id \in [Entries -> Int] /\ timer_ids \in [0..max_size-1 -> Int]
        /\ Fits(heap, timer_ids, timer_id, max_size, -1, NoEntry, cur_size)
        /\ InOrder(heap, timer_value, cur_size)
        /\ Leads(timer_ids, timer_id, timer_ids_freelist, max_size, cur_size)
    BY <1>1, AtTheStart
  <1>3. timer_id[e] >= 1 => IsThere(e) /\ timer_ids[timer_id[e]] \in 0..cur_size-1
    <2> SUFFICES ASSUME timer_id[e] >= 1
                 PROVE  IsThere(e) /\ timer_ids[timer_id[e]] \in 0..cur_size-1
      OBVIOUS
    <2> HIDE DEF e
    <2>1. e # NoEntry
      BY <1>1, NoEntryAssumption
    <2>2. /\ timer_id[e] < max_size /\ timer_ids[timer_id[e]] \in 0..cur_size-1
          /\ heap[timer_ids[timer_id[e]]] = e
      BY <1>1, <1>2, <2>1 DEF Fits
    <2>3. timer_id[e] \in 0..max_size-1
      BY <1>1, <1>2, <2>2
    <2>4. timer_id[e] \in DOMAIN timer_ids
      BY <1>2, <2>3
    <2> QED BY <2>2, <2>3, <2>4 DEF IsThere
  <1>4. CASE IsThere(e) /\ timer_id[e] >= 1
    <2>1. remove_node(t, timer_ids[timer_id[e]])
      BY <1>4 DEF cancel
    <2>2. /\ timer_ids[timer_id[e]] \in 0..cur_size-1
          /\ count' \in [Threads -> Nat] /\ node' \in [Threads -> MaybeEntry]
          /\ \A u \in Threads : u # t => node'[u] = node[u]
      BY <1>1, <1>3, <1>4 DEF IInv, TypeOK
    <2> QED BY <1>1, <2>1, <2>2, RemoveKeeps
  <1>5. CASE ~IsThere(e)
    <2>1. /\ timer_id' = [timer_id EXCEPT ![e] = -1]
          /\ lock' = {} /\ at' = [at EXCEPT ![t] = "idle"] /\ op' = [op EXCEPT ![t] = "none"]
          /\ arg' = [arg EXCEPT ![t] = NoEntry] /\ expires' = [expires EXCEPT ![t] = 0]
          /\ UNCHANGED <<heap, timer_ids, timer_ids_freelist, cur_size, max_size>>
          /\ UNCHANGED <<timer_value, moved, slot, now>>
      BY <1>5 DEF cancel, Release, Goes, table
    <2>2. timer_id[e] < 1
      BY <1>1, <1>2, <1>3, <1>5
    <2>3. timer_id' \in [Entries -> Int]
      <3>1. -1 \in Int
        OBVIOUS
      <3> QED BY <3>1, <1>2, <2>1
    <2>4. \A f \in Entries : timer_id'[f] >= 1 \/ timer_id[f] >= 1 => timer_id'[f] = timer_id[f]
      <3> SUFFICES ASSUME NEW f \in Entries, timer_id'[f] >= 1 \/ timer_id[f] >= 1
                   PROVE  timer_id'[f] = timer_id[f]
        OBVIOUS
      <3>1. f # e
        BY <1>1, <1>2, <2>1, <2>2
      <3> QED BY <3>1, <1>2, <2>1
    <2>5. at \in [Threads -> Places] /\ \A u \in Threads : u # t => at'[u] = at[u]
      BY <2>1 DEF IInv, TypeOK, Places
    <2>6. at'[t] = "idle" /\ ~Works(t)' /\ \A u \in Threads : u # t => ~Inside(u) /\ ~Works(u)
      BY <1>2, <2>1, <2>5, Alone DEF Works
    <2>7. TypeOK'
      <3>1. arg' \in [Threads -> MaybeEntry] /\ expires' \in [Threads -> Nat]
        BY <2>1 DEF IInv, TypeOK, MaybeEntry
      <3> QED BY <1>1, <2>1, <2>3, <3>1 DEF IInv, TypeOK
    <2>8. Mutex'
      BY <2>1, <2>5, <2>6 DEF Mutex, Inside
    <2>9. Callers'
      <3>1. \A f \in Entries : timer_id[f] < 1 => timer_id'[f] < 1
        BY <1>2, <2>1
      <3>2. \A u \in Threads : u # t => Caller(u)'
        BY <1>1, <2>1, <3>1 DEF IInv, Callers, Caller, TypeOK
      <3>3. Caller(t)'
        BY <1>1, <2>1, <2>6 DEF IInv, Callers, Caller, TypeOK
      <3> QED BY <2>1, <3>2, <3>3 DEF IInv, Callers, TypeOK
    <2>10. Room'
      BY <2>1, <2>5, <2>6 DEF IInv, Room, Works
    <2>11. Fits(heap', timer_ids', timer_id', max_size', -1, NoEntry, cur_size')
      <3> HIDE DEF e
      <3>1. \A s \in 0..cur_size-1 : s # -1 =>
               heap[s] \in Entries /\ heap[s] # NoEntry /\ timer_id[heap[s]] >= 1
        BY <1>2 DEF Fits
      <3>2. \A s \in 0..cur_size-1 : s # -1 => timer_id'[heap[s]] = timer_id[heap[s]]
        BY <2>4, <3>1
      <3> QED BY <1>2, <2>1, <2>4, <3>1, <3>2, SMTT(30) DEF Fits
    <2>12. Leads(timer_ids', timer_id', timer_ids_freelist', max_size', cur_size')
      <3>1. PICK fl \in [1..(max_size - cur_size) -> 1..max_size] :
               Chain(fl, max_size - cur_size, timer_ids, timer_id, timer_ids_freelist, max_size)
        BY <1>2 DEF Leads
      <3>2. \A j \in 1..(max_size - cur_size), f \in Entries : timer_id'[f] # fl[j]
        <4> SUFFICES ASSUME NEW j \in 1..(max_size - cur_size), NEW f \in Entries, timer_id'[f] = fl[j]
                     PROVE  FALSE
          OBVIOUS
        <4>1. timer_id'[f] >= 1
          OBVIOUS
        <4> QED BY <2>4, <3>1, <4>1 DEF Chain
      <3>3. Chain(fl, max_size - cur_size, timer_ids, timer_id', timer_ids_freelist, max_size)
        BY <3>1, <3>2 DEF Chain
      <3> QED BY <2>1, <3>3 DEF Leads
    <2>13. AtRest' /\ AtWork'
      BY <1>2, <2>1, <2>5, <2>6, <2>11, <2>12, Rests
    <2> QED BY <2>7, <2>8, <2>9, <2>10, <2>13 DEF IInv
  <1>6. CASE IsThere(e) /\ ~(timer_id[e] >= 1)
    <2>1. timer_id[e] = 0 /\ heap[timer_ids[timer_id[e]]] = e /\ timer_ids[0] >= 0
      BY <1>1, <1>2, <1>6 DEF IsThere
    <2> QED BY <1>1, <2>1 DEF NoZero
  <1> QED BY <1>4, <1>5, <1>6

LEMMA ExpiresKeeps ==
    ASSUME IInv, NEW t \in Threads, Expires(t)
    PROVE  IInv'
  <1>1. at[t] = "poll" /\ 0 \in 0..cur_size-1 /\ remove_node(t, 0) /\ seen' = seen
    BY DEF Expires, IInv, TypeOK
  <1>2. heap[0] \in MaybeEntry
    BY <1>1, AtTheStart DEF MaybeEntry
  <1>3. /\ count' \in [Threads -> Nat] /\ node' \in [Threads -> MaybeEntry]
        /\ \A u \in Threads : u # t => node'[u] = node[u]
    BY <1>2 DEF Expires, IInv, TypeOK
  <1> QED BY <1>1, <1>3, RemoveKeeps

\* Id 0 is not given out.
LEMMA IdsKeep ==
    ASSUME IInv, NoZero, [Next]_vars
    PROVE  NoZero'
  <1> USE DEF NoZero
  <1>1. timer_id \in [Entries -> Int]
    BY DEF IInv, TypeOK
  <1>2. ASSUME NEW t \in Threads, pop_freelist(t) PROVE NoZero'
    <2>1. timer_ids_freelist \in 1..max_size-1
      <3>1. \A u \in Threads : ~Works(u)
        BY <1>2, Alone DEF Works, Inside, pop_freelist
      <3>2. /\ max_size \in Nat /\ cur_size \in Nat /\ cur_size + 2 <= max_size
            /\ Leads(timer_ids, timer_id, timer_ids_freelist, max_size, cur_size)
        BY <3>1 DEF IInv, TypeOK, Room, AtRest
      <3> QED BY <3>2, ChainGives
    <2> QED BY <1>1, <1>2, <2>1 DEF pop_freelist
  <1>3. ASSUME NEW t \in Threads, cancel(t) PROVE NoZero'
    <2>1. PICK e : timer_id' = [timer_id EXCEPT ![e] = -1]
      BY <1>3 DEF cancel, remove_node, GivesUp
    <2> QED BY <1>1, <2>1
  <1>4. ASSUME NEW t \in Threads, Expires(t) PROVE NoZero'
    BY <1>1, <1>4 DEF Expires, remove_node, GivesUp
  <1>5. CASE \E t \in Threads : \/ insert_node(t) \/ reheap_up(t) \/ reheap_down(t) \/ PollEnds(t)
                               \/ Poll(t) \/ Return(t) \/ Acquire(t)
                               \/ \E e \in Entries : Cancel(t, e) \/ \E d \in Delays : Schedule(t, e, d)
    BY <1>5 DEF insert_node, reheap_up, reheap_down, PollEnds, Poll, Return, Acquire, Cancel,
                Schedule, entries
  <1>6. CASE Tick \/ UNCHANGED vars
    BY <1>6 DEF Tick, vars, entries
  <1> QED BY <1>2, <1>3, <1>4, <1>5, <1>6 DEF Next, Step

LEMMA StepKeeps ==
    ASSUME IInv, NoZero, Locked, [Next]_vars
    PROVE  IInv' /\ NoZero'
  <1>1. ASSUME NEW t \in Threads, NEW e \in Entries, Cancel(t, e) PROVE IInv'
    <2>1. Calls(t, "cancel", e) /\ UNCHANGED <<table, entries, lock, moved, slot, pollVars, now>>
      BY <1>1 DEF Cancel
    <2>2. expires' \in [Threads -> Nat]
      BY <1>1 DEF Cancel, IInv, TypeOK
    <2> QED BY <2>1, <2>2, CallKeeps
  <1>2. ASSUME NEW t \in Threads, NEW e \in Entries, NEW d \in Delays, Schedule(t, e, d) PROVE IInv'
    <2>1. Calls(t, "schedule", e) /\ UNCHANGED <<table, entries, lock, moved, slot, pollVars, now>>
      BY <1>2 DEF Schedule
    <2>2. expires' \in [Threads -> Nat]
      BY <1>2, DelaysAssumption DEF Schedule, IInv, TypeOK
    <2>3. timer_id[e] < 1
      BY <1>2 DEF Schedule
    <2> QED BY <2>1, <2>2, <2>3, CallKeeps
  <1>3. ASSUME NEW t \in Threads, Poll(t) \/ Return(t) \/ Acquire(t) PROVE IInv'
    BY <1>3, PollKeeps, AcquireKeeps
  <1>4. ASSUME NEW t \in Threads, Step(t) PROVE IInv'
    <2>1. CASE pop_freelist(t)
      BY <2>1, PopKeeps
    <2>2. CASE insert_node(t)
      BY <2>2, InsertKeeps
    <2>3. CASE reheap_up(t)
      BY <2>3, UpKeeps
    <2>4. CASE reheap_down(t)
      BY <2>4, DownKeeps
    <2>5. CASE cancel(t)
      BY <2>5, CancelKeeps
    <2>6. CASE Expires(t)
      BY <2>6, ExpiresKeeps
    <2>7. CASE PollEnds(t)
      BY <2>7, PollEndsKeeps
    <2> QED BY <1>4, <2>1, <2>2, <2>3, <2>4, <2>5, <2>6, <2>7 DEF Step
  <1>5. ASSUME Tick PROVE IInv'
    BY <1>5, TickKeeps
  <1>6. ASSUME UNCHANGED vars PROVE IInv'
    <2> USE <1>6 DEF IInv, vars, table, entries, callVars, pollVars
    <2>1. TypeOK'
      BY DEF TypeOK
    <2>2. Mutex' /\ Callers' /\ Room'
      BY DEF Mutex, Inside, Callers, Caller, Room
    <2>3. AtRest'
      BY DEF AtRest, Works
    <2>4. AtWork'
      BY DEF AtWork, Works, Hole, Extent
    <2> QED BY <2>1, <2>2, <2>3, <2>4
  <1>7. IInv'
    BY <1>1, <1>2, <1>3, <1>4, <1>5, <1>6 DEF Next
  <1> QED BY <1>7, IdsKeep

LEMMA Invariant ==
    ASSUME Locked
    PROVE  Spec => [](IInv /\ NoZero)
  <1>1. Init => IInv /\ NoZero
    BY Starts DEF Init, NoZero
  <1>2. IInv /\ NoZero /\ [Next]_vars => (IInv /\ NoZero)'
    BY StepKeeps
  <1> QED BY <1>1, <1>2, PTL DEF Spec

-----------------------------------------------------------------------------
(* Theorems                                                                *)

\* The types, among them that the arrays grow together.
THEOREM Types_invariant ==
    ASSUME Locked
    PROVE  Spec => []TypeOK
  <1>1. IInv => TypeOK
    BY DEF IInv
  <1> QED BY <1>1, Invariant, PTL

LEMMA QuietRests ==
    ASSUME IInv, Quiet
    PROVE  /\ Fits(heap, timer_ids, timer_id, max_size, -1, NoEntry, cur_size)
           /\ InOrder(heap, timer_value, cur_size)
  BY DEF IInv, AtRest, Quiet, Works

\* Under the lock the arrays agree between the calls, however these
\* interleave: the id of an entry that is scheduled leads to its slot.
THEOREM Slots_match ==
    ASSUME Locked
    PROVE  Spec => []SlotsMatch
  <1>1. IInv => SlotsMatch
    <2> SUFFICES ASSUME IInv, Quiet
                 PROVE  /\ \A e \in Scheduled : /\ timer_id[e] < max_size
                                                /\ timer_ids[timer_id[e]] \in 0..cur_size - 1
                                                /\ heap[timer_ids[timer_id[e]]] = e
                        /\ \A s \in 0..cur_size - 1 : /\ heap[s] \in Scheduled
                                                      /\ timer_ids[timer_id[heap[s]]] = s
      BY DEF SlotsMatch
    <2>1. Fits(heap, timer_ids, timer_id, max_size, -1, NoEntry, cur_size)
      BY QuietRests
    <2>2. \A e \in Entries : e # NoEntry
      BY NoEntryAssumption
    <2>3. \A s \in 0..cur_size - 1 : s # -1
      BY DEF IInv, TypeOK
    <2> QED BY <2>1, <2>2, <2>3 DEF Fits, Scheduled
  <1> QED BY <1>1, Invariant, PTL

\* Under the lock no entry is due before its parent between the calls.
THEOREM Heap_ordered ==
    ASSUME Locked
    PROVE  Spec => []HeapOrdered
  <1>1. IInv => HeapOrdered
    <2> SUFFICES ASSUME IInv, Quiet, NEW s \in 1..cur_size - 1
                 PROVE  ~(timer_value[heap[s]] < timer_value[heap[HEAP_PARENT(s)]])
      BY DEF HeapOrdered, Earlier
    <2>1. timer_value[heap[HEAP_PARENT(s)]] <= timer_value[heap[s]]
      BY QuietRests DEF InOrder
    <2>2. s \in 0..cur_size-1 /\ HEAP_PARENT(s) \in 0..cur_size-1
      BY ParentIn DEF IInv, TypeOK
    <2>3. \A r \in 0..cur_size-1 : heap[r] \in Entries
      BY QuietRests DEF Fits, IInv, TypeOK
    <2>4. timer_value[heap[s]] \in Nat /\ timer_value[heap[HEAP_PARENT(s)]] \in Nat
      BY <2>2, <2>3 DEF IInv, TypeOK
    <2> QED BY <2>1, <2>4
  <1> QED BY <1>1, Invariant, PTL

\* Under the lock an entry that is being scheduled finds room and an id of
\* its own: the check that refuses a full heap never does.
THEOREM Fresh_id ==
    ASSUME Locked
    PROVE  Spec => []FreshId
  <1>1. IInv => FreshId
    <2> SUFFICES ASSUME IInv, NEW t \in Threads, at[t] = "schedule"
                 PROVE  /\ cur_size < max_size
                        /\ timer_ids_freelist \in 1..max_size - 1
                        /\ timer_ids[timer_ids_freelist] < 0
                        /\ \A e \in Entries : timer_id[e] # timer_ids_freelist
      BY DEF FreshId
    <2>1. \A u \in Threads : ~Works(u)
      BY Alone DEF Works, Inside
    <2>2. /\ max_size \in Nat /\ cur_size \in Nat /\ cur_size + 2 <= max_size
          /\ Leads(timer_ids, timer_id, timer_ids_freelist, max_size, cur_size)
      BY <2>1 DEF IInv, TypeOK, Room, AtRest
    <2> QED BY <2>2, ChainGives
  <1> QED BY <1>1, Invariant, PTL

\* The first entry of the array is the earliest.
LEMMA RootFirst ==
    ASSUME NEW n \in Nat, NEW mx \in Nat, n <= mx, NEW hp \in [0..mx-1 -> MaybeEntry],
           NEW val \in [Entries -> Nat],
           \A s \in 0..n-1 : hp[s] \in Entries, InOrder(hp, val, n)
    PROVE  \A s \in 0..n-1 : val[hp[0]] <= val[hp[s]]
  <1> DEFINE late == {s \in 0..n-1 : val[hp[s]] < val[hp[0]]}
  <1> SUFFICES ASSUME late # {} PROVE FALSE
    <2>1. \A s \in 0..n-1 : 0 \in 0..n-1 /\ val[hp[s]] \in Nat
      OBVIOUS
    <2> QED BY <2>1
  <1> DEFINE R == OpToRel(<, Nat)
  <1>1. late \subseteq Nat
    OBVIOUS
  <1>2. \E x \in late : \A y \in late : ~ (<<y, x>> \in R)
    <2> HIDE DEF late, R
    <2> QED BY <1>1, NatLessThanWellFounded, WFMin DEF R
  <1>3. PICK x \in late : \A y \in late : ~ (<<y, x>> \in R)
    BY <1>2
  <1>4. \A y \in late : ~(y < x)
    BY <1>1, <1>3 DEF OpToRel
  <1> HIDE DEF R
  <1>5. x \in 1..n-1
    <2>1. x \in 0..n-1 /\ val[hp[x]] < val[hp[0]] /\ 0 \in 0..n-1
      OBVIOUS
    <2>2. val[hp[0]] \in Nat
      BY <2>1
    <2>3. x # 0
      BY <2>1, <2>2
    <2> QED BY <2>1, <2>3
  <1>6. HEAP_PARENT(x) \in 0..n-1 /\ HEAP_PARENT(x) < x
    BY <1>5, ParentIn
  <1>7. val[hp[HEAP_PARENT(x)]] <= val[hp[x]]
    BY <1>5 DEF InOrder
  <1>8. val[hp[HEAP_PARENT(x)]] \in Nat /\ val[hp[x]] \in Nat /\ val[hp[0]] \in Nat
    BY <1>5, <1>6
  <1>9. HEAP_PARENT(x) \in late
    BY <1>6, <1>7, <1>8
  <1> QED BY <1>4, <1>6, <1>9

\* When an entry is due, as the promise has it.
Due_of == [e \in Entries |-> IF timer_id[e] >= 1 THEN timer_value[e] ELSE -1]

LEMMA DueFacts ==
    ASSUME NEW e \in Entries
    PROVE  /\ timer_id[e] >= 1 => Due_of[e] = timer_value[e]
           /\ ~(timer_id[e] >= 1) => Due_of[e] = -1
           /\ timer_id'[e] >= 1 => Due_of'[e] = timer_value'[e]
           /\ ~(timer_id'[e] >= 1) => Due_of'[e] = -1
  BY DEF Due_of

\* An entry that is scheduled is due when it was asked for.
LEMMA PopPromise ==
    ASSUME IInv, NEW t \in Threads, pop_freelist(t)
    PROVE  Promise!Schedule(arg[t])
  <1> DEFINE e == arg[t]
             i == timer_ids_freelist
  <1>1. /\ at[t] = "schedule" /\ op[t] = "schedule" /\ Inside(t) /\ e \in Entries
        /\ timer_id[e] < 1 /\ expires[t] \in Nat
    BY DEF IInv, pop_freelist, Callers, Caller, Inside, TypeOK
  <1>2. i \in 1..max_size-1
    <2>1. \A u \in Threads : ~Works(u)
      BY <1>1, Alone DEF Works
    <2>2. /\ max_size \in Nat /\ cur_size \in Nat /\ cur_size + 2 <= max_size
          /\ Leads(timer_ids, timer_id, i, max_size, cur_size)
      BY <2>1 DEF IInv, TypeOK, Room, AtRest
    <2> QED BY <2>2, ChainGives
  <1>3. /\ timer_id' = [timer_id EXCEPT ![e] = i] /\ timer_value' = [timer_value EXCEPT ![e] = expires[t]]
        /\ node' = node /\ now' = now /\ timer_id \in [Entries -> Int] /\ timer_value \in [Entries -> Nat]
    BY DEF pop_freelist, pollVars, IInv, TypeOK
  <1> HIDE DEF e, i
  <1>4. Due_of[e] = -1
    BY <1>1, <1>3, DueFacts
  <1>5. Due_of'[e] = expires[t]
    BY <1>1, <1>2, <1>3, DueFacts
  <1>6. \A f \in Entries : f # e => Due_of'[f] = Due_of[f]
    BY <1>3 DEF Due_of
  <1>7. Due_of' = [Due_of EXCEPT ![e] = Due_of'[e]]
    BY <1>1, <1>6 DEF Due_of
  <1> QED BY <1>1, <1>3, <1>4, <1>5, <1>7 DEF Promise!Schedule, Promise!Never, Due_of, e

\* An entry that leaves the heap is not due any more.
LEMMA RemovePromise ==
    ASSUME IInv, NEW t \in Threads, NEW s, heap[s] \in Entries, remove_node(t, s)
    PROVE  Due_of' = [Due_of EXCEPT ![heap[s]] = -1] /\ now' = now
  <1> DEFINE e == heap[s]
  <1>1. /\ timer_id' = [timer_id EXCEPT ![e] = -1] /\ timer_value' = [timer_value EXCEPT ![e] = 0]
        /\ now' = now /\ timer_id \in [Entries -> Int] /\ timer_value \in [Entries -> Nat]
        /\ e \in Entries
    BY DEF remove_node, GivesUp, IInv, TypeOK
  <1> HIDE DEF e
  <1>2. Due_of'[e] = -1
    BY <1>1, DueFacts
  <1>3. \A f \in Entries : f # e => Due_of'[f] = Due_of[f]
    BY <1>1 DEF Due_of
  <1>4. Due_of' = [Due_of EXCEPT ![e] = -1]
    BY <1>1, <1>2, <1>3 DEF Due_of
  <1> QED BY <1>1, <1>4 DEF e

LEMMA CancelPromise ==
    ASSUME IInv, NoZero, NEW t \in Threads, cancel(t)
    PROVE  (\E e \in Entries : Promise!Cancel(e)) \/ UNCHANGED Promise!vars
  <1> DEFINE e == arg[t]
  <1>1. node' = node /\ e \in Entries /\ timer_id[e] # 0 /\ timer_id \in [Entries -> Int]
    BY DEF cancel, pollVars, IInv, Callers, Caller, TypeOK, NoZero
  <1>2. CASE IsThere(e)
    <2>1. heap[timer_ids[timer_id[e]]] = e /\ remove_node(t, timer_ids[timer_id[e]])
      BY <1>2 DEF IsThere, cancel
    <2>2. Due_of' = [Due_of EXCEPT ![e] = -1] /\ now' = now
      BY <1>1, <2>1, RemovePromise
    <2> QED BY <1>1, <2>2 DEF Promise!Cancel, Promise!Never, Due_of
  <1>3. CASE ~IsThere(e)
    <2>1. timer_id' = [timer_id EXCEPT ![e] = -1] /\ timer_value' = timer_value /\ now' = now
      BY <1>3 DEF cancel
    <2>2. timer_id[e] < 1
      <3> SUFFICES ASSUME timer_id[e] >= 1 PROVE FALSE
        BY <1>1
      <3>1. at[t] = "cancel"
        BY DEF cancel
      <3>2. /\ Fits(heap, timer_ids, timer_id, max_size, -1, NoEntry, cur_size)
            /\ timer_ids \in [0..max_size-1 -> Int] /\ max_size \in Nat /\ cur_size \in Nat
        BY <3>1, AtTheStart
      <3> HIDE DEF e
      <3>3. e # NoEntry
        BY <1>1, NoEntryAssumption
      <3>4. /\ timer_id[e] < max_size /\ timer_ids[timer_id[e]] \in 0..cur_size-1
            /\ heap[timer_ids[timer_id[e]]] = e
        BY <1>1, <3>2, <3>3 DEF Fits
      <3>5. timer_id[e] \in 0..max_size-1 /\ timer_id[e] \in DOMAIN timer_ids
        BY <1>1, <3>2, <3>4
      <3> QED BY <1>3, <3>2, <3>4, <3>5 DEF IsThere
    <2>3. \A f \in Entries : Due_of'[f] = Due_of[f]
      BY <1>1, <2>1, <2>2 DEF Due_of
    <2>4. Due_of' = Due_of
      BY <2>3 DEF Due_of
    <2> QED BY <1>1, <2>1, <2>4 DEF Promise!vars, Due_of
  <1> QED BY <1>2, <1>3

\* A poll takes the earliest of the entries, which is due.
LEMMA ExpirePromise ==
    ASSUME IInv, NEW t \in Threads, Expires(t)
    PROVE  Promise!Expire(t, heap[0])
  <1> DEFINE e == heap[0]
  <1>1. /\ at[t] = "poll" /\ 0 \in 0..cur_size-1 /\ remove_node(t, 0)
        /\ node' = [node EXCEPT ![t] = e] /\ timer_value[e] <= seen[t]
    BY DEF Expires, Due, IInv, TypeOK
  <1>2. /\ max_size \in Nat /\ cur_size \in Nat /\ cur_size < max_size
        /\ timer_id \in [Entries -> Int] /\ timer_value \in [Entries -> Nat]
        /\ heap \in [0..max_size-1 -> MaybeEntry]
        /\ Fits(heap, timer_ids, timer_id, max_size, -1, NoEntry, cur_size)
        /\ InOrder(heap, timer_value, cur_size)
        /\ \A s \in 0..cur_size-1 : heap[s] \in Entries /\ timer_id[heap[s]] \in 1..max_size-1
    BY <1>1, AtTheStart
  <1>3. /\ node[t] = NoEntry /\ seen[t] <= now /\ seen[t] \in Nat /\ now \in Nat
    BY <1>1 DEF IInv, Callers, Caller, TypeOK
  <1>4. e \in Entries /\ timer_id[e] >= 1 /\ timer_value[e] \in 0..now
    <2>1. e \in Entries /\ timer_id[e] \in 1..max_size-1
      BY <1>1, <1>2
    <2> HIDE DEF e
    <2>2. timer_value[e] \in Nat
      BY <2>1, <1>2
    <2> QED BY <1>1, <1>3, <2>1, <2>2
  <1>5. \A s \in 0..cur_size-1 : timer_value[e] <= timer_value[heap[s]]
    <2> DEFINE n == cur_size  mx == max_size  hp == heap  val == timer_value
    <2>1. /\ n \in Nat /\ mx \in Nat /\ n <= mx /\ hp \in [0..mx-1 -> MaybeEntry]
          /\ val \in [Entries -> Nat] /\ \A s \in 0..n-1 : hp[s] \in Entries
          /\ InOrder(hp, val, n)
      BY <1>2
    <2> HIDE DEF n, mx, hp, val
    <2>2. \A s \in 0..n-1 : val[hp[0]] <= val[hp[s]]
      BY ONLY <2>1, RootFirst
    <2> QED BY <2>2 DEF n, mx, hp, val
  <1>6. Due_of[e] \in 0..now /\ Due_of[e] = timer_value[e]
    <2> HIDE DEF e
    <2> QED BY <1>4, DueFacts
  <1>7. ASSUME NEW f \in Entries, Due_of[f] # -1 PROVE Due_of[e] <= Due_of[f]
    <2>1. timer_id[f] >= 1 /\ Due_of[f] = timer_value[f]
      BY <1>2, <1>7, DueFacts
    <2>2. f # NoEntry
      BY NoEntryAssumption
    <2>3. timer_ids[timer_id[f]] \in 0..cur_size-1 /\ heap[timer_ids[timer_id[f]]] = f
      BY <1>2, <2>1, <2>2 DEF Fits
    <2> QED BY <1>5, <1>6, <2>1, <2>3
  <1>8. Due_of' = [Due_of EXCEPT ![e] = -1] /\ now' = now
    BY <1>1, <1>4, RemovePromise
  <1> QED BY <1>1, <1>3, <1>4, <1>6, <1>7, <1>8 DEF Promise!Expire, Promise!Never, Due_of

\* Under the lock the heap is the set of entries that Timers describes,
\* whatever calls are made by how many threads: the callback that runs is
\* the earliest entry's, and runs once for each time it was scheduled.
THEOREM Keeps_time ==
    ASSUME Locked
    PROVE  Spec => KeepsTime
  <1>1. Init => Promise!Init
    BY DEF Init, Promise!Init, Promise!Never
  <1>2. ASSUME IInv, NoZero, [Next]_vars
        PROVE  [Promise!Next]_(Promise!vars)
    <2>1. ASSUME NEW t \in Threads, pop_freelist(t) PROVE Promise!Next
      <3>1. arg[t] \in Entries
        BY <1>2, <2>1 DEF IInv, pop_freelist, Callers, Caller
      <3>2. Promise!Schedule(arg[t])
        BY <1>2, <2>1, PopPromise
      <3>3. \E e \in Entries : Promise!Schedule(e)
        BY <3>1, <3>2 DEF Promise!Schedule
      <3> QED BY <3>3 DEF Promise!Next
    <2>2. ASSUME NEW t \in Threads, cancel(t) PROVE [Promise!Next]_(Promise!vars)
      BY <1>2, <2>2, CancelPromise DEF Promise!Next
    <2>3. ASSUME NEW t \in Threads, Expires(t) PROVE Promise!Next
      <3>1. at[t] = "poll" /\ 0 \in 0..cur_size-1
        BY <1>2, <2>3 DEF Expires, IInv, TypeOK
      <3>2. heap[0] \in Entries
        BY <1>2, <3>1, AtTheStart
      <3>3. Promise!Expire(t, heap[0])
        BY <1>2, <2>3, ExpirePromise
      <3>4. \E e \in Entries : \E u \in Threads : Promise!Expire(u, e)
        BY <3>2, <3>3 DEF Promise!Expire
      <3> QED BY <3>4 DEF Promise!Next
    <2>4. ASSUME NEW t \in Threads, Return(t) PROVE Promise!Next
      BY <2>4 DEF Return, entries, Promise!Next, Promise!Return
    <2>5. CASE Tick
      BY <2>5 DEF Tick, entries, pollVars, Promise!Next, Promise!Tick
    <2>6. CASE \E t \in Threads : \/ insert_node(t) \/ reheap_up(t) \/ reheap_down(t) \/ PollEnds(t)
                                 \/ Poll(t) \/ Acquire(t)
                                 \/ \E e \in Entries : Cancel(t, e) \/ \E d \in Delays : Schedule(t, e, d)
      BY <2>6 DEF insert_node, reheap_up, reheap_down, PollEnds, Poll, Acquire, Cancel, Schedule,
                  entries, pollVars, Promise!vars
    <2>7. CASE UNCHANGED vars
      BY <2>7 DEF vars, entries, pollVars, Promise!vars
    <2> QED BY <1>2, <2>1, <2>2, <2>3, <2>4, <2>5, <2>6, <2>7 DEF Next, Step
  <1> QED BY <1>1, <1>2, Invariant, PTL DEF Spec, KeepsTime, Promise!Spec
=============================================================================
