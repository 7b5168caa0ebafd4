-------------------------- MODULE NativeJournal_proofs --------------------------
(* Proofs about NativeJournal, for any set of recovering processes and any    *)
(* bounds on files and chunks.                                                *)
EXTENDS NativeJournal, FiniteSums

Chunk == {Header, Torn} \cup {Line(n, live) : n \in Nat, live \in BOOLEAN}

\* Where a process has a file open, has it locked, has not read it yet.
Opened == {"lock", "read", "header", "truncate", "ready", "release"}
Locking == Opened \ {"lock"}
Unread == {"start", "peek", "check", "open", "lock", "read", "header"}
AtRest == {"start", "registered", "failed"}

Inode == 0..Len(content)

Labels == Opened \cup AtRest \cup {"peek", "check", "open", "rename", "mark", "dead"}

TypeOK ==
    /\ content \in Seq(Seq(Chunk)) /\ synced \in Seq(Seq(Chunk)) /\ Len(synced) = Len(content)
    /\ path \in Inode /\ home \in Inode /\ archive \subseteq Inode
    /\ pc \in [Procs -> Labels]
    /\ fd \in [Procs -> Inode] /\ locked \in [Procs -> Inode] /\ moved \in [Procs -> Inode]
    /\ records \in [Procs -> Seq(Chunk)] /\ acked \in Seq(Chunk)
    /\ orphan \subseteq Recoverers /\ overlap \in BOOLEAN /\ marker \in BOOLEAN

\* A file is locked by at most one process, and written under the lock only.
LockInv ==
    /\ \A p \in Procs : pc[p] \in Opened => fd[p] # 0
    /\ \A p \in Procs : pc[p] \in Locking => locked[p] = fd[p]
    /\ \A p, q \in Procs : locked[p] = locked[q] /\ locked[p] # 0 => p = q

\* What a process has read of its file is still there.
ReadInv ==
    \A p \in Procs :
        /\ pc[p] \in Unread => records[p] = <<>>
        /\ pc[p] = "header" => content[fd[p]] = <<>>
        /\ pc[p] = "truncate" \/ (pc[p] = "ready" /\ p # Owner) =>
               Recovers(content[fd[p]]) /\ records[p] = Events(content[fd[p]])

NoLine(c) == \A n \in DOMAIN c : c[n][1] # "line"

\* The owner creates the first file, once, and alone writes event lines.
OwnerInv ==
    /\ pc[Owner] \in {"start", "check", "open"} => home = 0
    /\ home = 0 =>
          /\ content = <<>> /\ path = 0 /\ acked = <<>>
          /\ pc[Owner] \in {"start", "check", "open", "failed", "dead"}
          /\ \A p \in Recoverers : pc[p] \in {"start", "registered"}
    /\ pc[Owner] \in Opened => home # 0 /\ fd[Owner] = home
    /\ pc[Owner] \in Unread \cup {"truncate"} =>
          \A f \in DOMAIN content : NoLine(content[f]) /\ NoLine(synced[f])
    /\ pc[Owner] \notin {"ready", "dead"} => acked = <<>>
    /\ pc[Owner] = "ready" => records[Owner] = acked
    /\ pc[Owner] \notin {"peek", "release"}

\* What recovery makes of a file with content c when a has been acknowledged.
Good(a, c) ==
    /\ a # <<>> => c # <<>>
    /\ Recovers(c) => Begins(a, Events(c))

GoodInv == home # 0 => Good(acked, content[home]) /\ Good(acked, synced[home])

\* Unless two recovering processes have been at work at once, one is at most, and the
\* name it moved a file from is still free when it marks it.
KeepInv ==
    ~overlap =>
        /\ \A p, q \in Recoverers : pc[p] \notin AtRest /\ pc[q] \notin AtRest => p = q
        /\ pc[Owner] \in Opened \/ acked # <<>> =>
              /\ home = path \/ home \in archive
              /\ \A p \in Recoverers : pc[p] = "mark" => path = 0

\* The owner's file keeps its name while a process that came after it has it open.
OrphanInv ==
    /\ orphan # {} => pc[Owner] \in {"dead", "failed"}
    /\ ~overlap => \A p \in orphan : pc[p] \in Opened => fd[p] = path

IInv == TypeOK /\ LockInv /\ ReadInv /\ OwnerInv /\ GoodInv /\ KeepInv /\ OrphanInv

--------------------------------------------------------------------------------
(* Reading a file. *)

LEMMA Kinds ==
    /\ Header \in Chunk /\ Torn \in Chunk /\ Header # Torn
    /\ Header[1] # "line" /\ Torn[1] # "line"
    /\ \A n \in Nat, live \in BOOLEAN :
          Line(n, live) \in Chunk /\ Line(n, live)[1] = "line" /\ Line(n, live)[2] = n
BY DEF Header, Torn, Line, Chunk

LEMMA SameSequence ==
    ASSUME NEW S, NEW s \in Seq(S), NEW t \in Seq(S), Len(s) = Len(t),
           \A i \in 1..Len(s) : s[i] = t[i]
    PROVE  s = t
<1>1. s = [i \in 1..Len(s) |-> s[i]] /\ t = [i \in 1..Len(t) |-> t[i]]
  OBVIOUS
<1> QED BY <1>1, Zenon

LEMMA PrefixIs ==
    ASSUME NEW S, NEW s \in Seq(S), NEW t \in Seq(S)
    PROVE  Begins(s, t) <=> Len(s) <= Len(t) /\ \A i \in 1..Len(s) : s[i] = t[i]
<1>1. ASSUME Begins(s, t) PROVE Len(s) <= Len(t) /\ \A i \in 1..Len(s) : s[i] = t[i]
  BY <1>1 DEF Begins
<1>2. ASSUME Len(s) <= Len(t), \A i \in 1..Len(s) : s[i] = t[i] PROVE Begins(s, t)
  <2> DEFINE u == SubSeq(t, 1, Len(s))
  <2>1. u \in Seq(S) /\ Len(u) = Len(s) /\ \A i \in 1..Len(u) : u[i] = s[i]
    BY <1>2
  <2> HIDE DEF u
  <2>2. u = s
    BY <2>1, SameSequence, Zenon
  <2> QED BY <1>2, <2>2, Zenon DEF Begins, u
<1> QED BY <1>1, <1>2, Zenon

\* The end of the last whole line, when there is one.
LEMMA LastLine ==
    ASSUME NEW c \in Seq(Chunk), HeaderOk(c)
    PROVE  \E m \in 1..Len(c) : c[m] # Torn /\ \A k \in 1..Len(c) : k > m => c[k] = Torn
<1> DEFINE T == {n \in Nat : n < Len(c) /\ c[Len(c) - n] # Torn}
<1>1. Len(c) \in Nat \ {0} /\ c[1] = Header
  BY DEF HeaderOk
<1>2. Len(c) - 1 \in T
  BY <1>1, Kinds
<1>3. PICK n \in T : \A m \in T : n =< m
  <2>1. T \in SUBSET Nat /\ T # {}
    BY <1>2, Zenon
  <2> HIDE DEF T
  <2> QED BY <2>1, LeastNatural, Zenon
<1>4. Len(c) - n \in 1..Len(c) /\ c[Len(c) - n] # Torn
  BY <1>1, <1>3
<1>5. ASSUME NEW k \in 1..Len(c), k > Len(c) - n PROVE c[k] = Torn
  <2>1. Len(c) - k \in Nat /\ Len(c) - k < n /\ Len(c) - (Len(c) - k) = k
    BY <1>1, <1>3, <1>5
  <2> QED BY <1>3, <2>1
<1> QED BY <1>4, <1>5, Zenon

LEMMA EventsUpTo ==
    ASSUME NEW c \in Seq(Chunk), NEW m \in 1..Len(c), c[m] # Torn,
           \A k \in 1..Len(c) : k > m => c[k] = Torn
    PROVE  /\ Events(c) = SubSeq(c, 2, m) /\ Events(c) \in Seq(Chunk) /\ Len(Events(c)) = m - 1
           /\ \A i \in 1..(m - 1) : Events(c)[i] = c[i + 1]
<1> DEFINE ends == {n \in DOMAIN c : c[n] # Torn}
<1>1. m \in ends /\ \A k \in ends : k <= m
  OBVIOUS
<1>2. \A n \in ends : (\A k \in ends : k <= n) => n = m
  BY <1>1
<1>3. (CHOOSE n \in ends : \A k \in ends : k <= n) = m
  BY <1>1, <1>2, Zenon
<1>4. Events(c) = SubSeq(c, 2, m)
  BY <1>3, Zenon DEF Events
<1> QED BY <1>4

\* A file of whole lines: the last chunk is one.
LEMMA EventsWhole ==
    ASSUME NEW c \in Seq(Chunk), c # <<>>, c[Len(c)] # Torn
    PROVE  /\ Events(c) \in Seq(Chunk) /\ Len(Events(c)) = Len(c) - 1
           /\ \A i \in 1..(Len(c) - 1) : Events(c)[i] = c[i + 1]
BY EventsUpTo

\* Torn bytes at the end are not read.
LEMMA EventsTorn ==
    ASSUME NEW c \in Seq(Chunk), HeaderOk(c)
    PROVE  Events(Append(c, Torn)) = Events(c) /\ HeaderOk(Append(c, Torn))
<1> DEFINE d == Append(c, Torn)
<1>1. PICK m \in 1..Len(c) : c[m] # Torn /\ \A k \in 1..Len(c) : k > m => c[k] = Torn
  BY LastLine, Zenon
<1>2. d \in Seq(Chunk) /\ Len(d) = Len(c) + 1 /\ (\A k \in 1..Len(c) : d[k] = c[k]) /\ d[Len(d)] = Torn
  BY Kinds
<1>3. HeaderOk(d)
  BY <1>2 DEF HeaderOk
<1> HIDE DEF d
<1>4. m \in 1..Len(d) /\ d[m] # Torn /\ \A k \in 1..Len(d) : k > m => d[k] = Torn
  BY <1>1, <1>2
<1>5. /\ Events(c) \in Seq(Chunk) /\ Len(Events(c)) = m - 1 /\ \A i \in 1..(m - 1) : Events(c)[i] = c[i + 1]
      /\ Events(d) \in Seq(Chunk) /\ Len(Events(d)) = m - 1 /\ \A i \in 1..(m - 1) : Events(d)[i] = d[i + 1]
  BY <1>1, <1>2, <1>4, EventsUpTo, Zenon
<1>6. Events(d) = Events(c)
  <2>1. ASSUME NEW i \in 1..(m - 1) PROVE Events(d)[i] = Events(c)[i]
    <3>1. i + 1 \in 1..Len(c)
      OBVIOUS
    <3> QED BY <1>2, <1>5, <3>1, Zenon
  <2> QED BY <1>5, <2>1, SameSequence, Zenon
<1> QED BY <1>3, <1>6, Zenon DEF d

\* A file that recovers is a header, its lines, and torn bytes if any.
LEMMA RecoversIs ==
    ASSUME NEW c \in Seq(Chunk), Recovers(c), c[Len(c)] # Torn
    PROVE  \A i \in 2..Len(c) : c[i][1] = "line" /\ c[i][2] = i - 1
<1>1. c # <<>> /\ HeaderOk(c)
  BY Zenon DEF Recovers, HeaderOk
<1>2. /\ Events(c) \in Seq(Chunk) /\ Len(Events(c)) = Len(c) - 1
      /\ \A i \in 1..(Len(c) - 1) : Events(c)[i] = c[i + 1]
  BY <1>1, EventsWhole, Zenon
<1>3. \A i \in 1..(Len(c) - 1) : c[i + 1][1] = "line" /\ c[i + 1][2] = i
  BY <1>2 DEF Recovers
<1> SUFFICES ASSUME NEW i \in 2..Len(c) PROVE c[i][1] = "line" /\ c[i][2] = i - 1
  BY Zenon
<1>4. i - 1 \in 1..(Len(c) - 1) /\ (i - 1) + 1 = i
  OBVIOUS
<1> QED BY <1>3, <1>4, Zenon

\* The header alone recovers, and holds nothing.
LEMMA EventsHeader ==
    Events(<<Header>>) = <<>> /\ HeaderOk(<<Header>>) /\ Recovers(<<Header>>)
<1> DEFINE c == <<Header>>
<1>1. c \in Seq(Chunk) /\ Len(c) = 1 /\ c[1] = Header /\ c # <<>> /\ Head(c) = Header
  BY Kinds
<1> HIDE DEF c
<1>2. Events(c) \in Seq(Chunk) /\ Len(Events(c)) = 0
  BY <1>1, Kinds, EventsWhole
<1>3. Events(c) = <<>>
  BY <1>2
<1>4. HeaderOk(c) /\ Recovers(c)
  BY <1>1, <1>3 DEF HeaderOk, Recovers
<1> QED BY <1>3, <1>4, Zenon DEF c

\* A line is added to a file of which every line was whole.
LEMMA RecoversAppend ==
    ASSUME NEW c \in Seq(Chunk), c # <<>>, NEW x \in Chunk, x # Torn, Recovers(Append(c, x))
    PROVE  /\ Recovers(c) /\ Events(c) \in Seq(Chunk)
           /\ Events(Append(c, x)) = Append(Events(c), x) /\ x[2] = Len(Events(c)) + 1
<1> DEFINE d == Append(c, x)
<1>1. d \in Seq(Chunk) /\ Len(d) = Len(c) + 1 /\ (\A k \in 1..Len(c) : d[k] = c[k]) /\ d[Len(d)] = x
  OBVIOUS
<1>2. Recovers(d) /\ HeaderOk(d)
  BY Zenon DEF Recovers
<1> HIDE DEF d
<1>3. Len(c) \in Nat \ {0}
  OBVIOUS
<1>4. HeaderOk(c) /\ c[1] = Header
  BY <1>1, <1>2, <1>3 DEF HeaderOk
<1>5. \A i \in 2..Len(d) : d[i][1] = "line" /\ d[i][2] = i - 1
  BY <1>1, <1>2, RecoversIs, Zenon
<1>6. c[Len(c)] # Torn
  BY <1>1, <1>3, <1>4, <1>5, Kinds
<1>7. /\ Events(c) \in Seq(Chunk) /\ Len(Events(c)) = Len(c) - 1
      /\ \A i \in 1..(Len(c) - 1) : Events(c)[i] = c[i + 1]
  BY <1>6, EventsWhole, Zenon
<1>8. /\ Events(d) \in Seq(Chunk) /\ Len(Events(d)) = Len(c)
      /\ \A i \in 1..Len(c) : Events(d)[i] = d[i + 1]
  <2>1. d # <<>> /\ d[Len(d)] # Torn /\ Len(d) - 1 = Len(c)
    BY <1>1, <1>3
  <2> QED BY <1>1, <2>1, EventsWhole, Zenon
<1>9. Recovers(c)
  <2>1. ASSUME NEW n \in DOMAIN Events(c) PROVE Events(c)[n][1] = "line" /\ Events(c)[n][2] = n
    <3>1. n \in 1..(Len(c) - 1) /\ n + 1 \in 2..Len(d) /\ n + 1 \in 1..Len(c)
      BY <1>1, <1>3, <1>7
    <3>2. Events(c)[n] = d[n + 1]
      BY <1>1, <1>7, <3>1, Zenon
    <3> QED BY <1>5, <3>1, <3>2
  <2> QED BY <1>4, <2>1, Zenon DEF Recovers
<1>10. Events(d) = Append(Events(c), x)
  <2> DEFINE e == Append(Events(c), x)
  <2>1. e \in Seq(Chunk) /\ Len(e) = Len(c) /\ (\A i \in 1..(Len(c) - 1) : e[i] = Events(c)[i]) /\ e[Len(c)] = x
    BY <1>3, <1>7
  <2> HIDE DEF e
  <2>2. ASSUME NEW i \in 1..Len(c) PROVE Events(d)[i] = e[i]
    <3>1. CASE i = Len(c)
      BY <1>1, <1>8, <2>1, <3>1, Zenon
    <3>2. CASE i \in 1..(Len(c) - 1)
      <4>1. i + 1 \in 1..Len(c)
        BY <1>3, <3>2
      <4> QED BY <1>1, <1>7, <1>8, <2>1, <3>2, <4>1, Zenon
    <3> QED BY <3>1, <3>2
  <2>3. Events(d) = e
    BY <1>8, <2>1, <2>2, SameSequence, Zenon
  <2> QED BY <2>3, Zenon DEF e
<1>11. x[2] = Len(Events(c)) + 1
  BY <1>1, <1>3, <1>5, <1>7
<1> QED BY <1>7, <1>9, <1>10, <1>11, Zenon DEF d

LEMMA EventsType ==
    ASSUME NEW c \in Seq(Chunk), HeaderOk(c)
    PROVE  Events(c) \in Seq(Chunk)
BY LastLine, EventsUpTo, Zenon

\* The cut of a torn tail keeps every line.
LEMMA TruncateKeeps ==
    ASSUME NEW c \in Seq(Chunk), Recovers(c)
    PROVE  LET d == <<Header>> \o Events(c) IN
           d \in Seq(Chunk) /\ d # <<>> /\ Recovers(d) /\ Events(d) = Events(c)
<1> DEFINE e == Events(c)
           d == <<Header>> \o e
<1>1. e \in Seq(Chunk) /\ \A n \in 1..Len(e) : e[n][1] = "line" /\ e[n][2] = n
  BY EventsType DEF Recovers
<1> HIDE DEF e
<1>2. /\ d \in Seq(Chunk) /\ Len(d) = Len(e) + 1 /\ d[1] = Header /\ d # <<>> /\ Head(d) = Header
      /\ \A n \in 1..Len(e) : d[n + 1] = e[n]
  BY <1>1, Kinds
<1> HIDE DEF d
<1>3. d[Len(d)] # Torn
  <2>1. CASE Len(e) = 0
    BY <1>2, <2>1, Kinds
  <2>2. CASE Len(e) # 0
    <3>1. Len(e) \in 1..Len(e)
      BY <1>1, <2>2
    <3> QED BY <1>1, <1>2, <3>1, Kinds
  <2> QED BY <2>1, <2>2, Zenon
<1>4. Events(d) \in Seq(Chunk) /\ Len(Events(d)) = Len(e) /\ \A i \in 1..Len(e) : Events(d)[i] = e[i]
  <2>1. Len(d) - 1 = Len(e)
    BY <1>1, <1>2
  <2> QED BY <1>2, <1>3, <2>1, EventsWhole, Zenon
<1>5. Events(d) = e
  BY <1>1, <1>4, SameSequence, Zenon
<1>6. Recovers(d)
  BY <1>1, <1>2, <1>5 DEF Recovers, HeaderOk
<1> QED BY <1>2, <1>5, <1>6, Zenon DEF d, e

LEMMA GoodEmpty ==
    ASSUME NEW c \in Seq(Chunk)
    PROVE  Good(<<>>, c)
<1>1. ASSUME Recovers(c) PROVE Begins(<<>>, Events(c))
  <2>1. Events(c) \in Seq(Chunk)
    BY <1>1, EventsType, Zenon DEF Recovers
  <2>2. <<>> \in Seq(Chunk) /\ Len(<<>>) = 0 /\ Len(Events(c)) \in Nat
    BY <2>1
  <2>3. 0 <= Len(Events(c)) /\ \A i \in 1..0 : <<>>[i] = Events(c)[i]
    BY <2>2
  <2> QED BY <2>1, <2>2, <2>3, PrefixIs, Zenon
<1> QED BY <1>1, Zenon DEF Good

\* Bytes that nothing was acknowledged for do no harm.
LEMMA GoodAppend ==
    ASSUME NEW a \in Seq(Chunk), NEW c \in Seq(Chunk), NEW x \in Chunk, Good(a, c)
    PROVE  Good(a, Append(c, x))
<1> DEFINE d == Append(c, x)
<1>1. d \in Seq(Chunk) /\ d # <<>>
  OBVIOUS
<1> SUFFICES ASSUME Recovers(d) PROVE Begins(a, Events(d))
  BY <1>1, Zenon DEF Good
<1>2. CASE c = <<>>
  <2>1. a = <<>>
    BY <1>2, Zenon DEF Good
  <2> QED BY <1>1, <2>1, GoodEmpty, Zenon DEF Good
<1>3. CASE c # <<>> /\ x = Torn
  <2>1. HeaderOk(c)
    BY <1>3 DEF Recovers, HeaderOk
  <2>2. Events(d) = Events(c)
    BY <1>3, <2>1, EventsTorn, Zenon
  <2>3. Recovers(c)
    BY <2>1, <2>2, Zenon DEF Recovers
  <2> QED BY <2>2, <2>3, Zenon DEF Good
<1>4. CASE c # <<>> /\ x # Torn
  <2>1. Recovers(c) /\ Events(c) \in Seq(Chunk) /\ Events(d) = Append(Events(c), x)
    BY <1>4, RecoversAppend, Zenon
  <2>2. Begins(a, Events(c))
    BY <2>1, Zenon DEF Good
  <2> HIDE DEF d
  <2> DEFINE e == Events(c)
  <2>3. Len(a) <= Len(e) /\ (\A i \in 1..Len(a) : a[i] = e[i]) /\ e \in Seq(Chunk)
    BY <2>1, <2>2, PrefixIs
  <2> HIDE DEF e
  <2>4. Begins(a, Append(e, x))
    <3>1. Append(e, x) \in Seq(Chunk) /\ Len(a) <= Len(Append(e, x)) /\ \A i \in 1..Len(a) : a[i] = Append(e, x)[i]
      BY <2>3
    <3> QED BY <3>1, PrefixIs, Zenon
  <2> QED BY <2>1, <2>4, Zenon DEF e
<1> QED BY <1>2, <1>3, <1>4, Zenon

\* A record is acknowledged with the number after the last acknowledged one.
LEMMA GoodAck ==
    ASSUME NEW a \in Seq(Chunk), NEW c \in Seq(Chunk), NEW live \in BOOLEAN, Good(a, c)
    PROVE  LET x == Line(Len(a) + 1, live) IN Good(Append(a, x), Append(c, x))
<1> DEFINE x == Line(Len(a) + 1, live)
           d == Append(c, x)
<1>1. x \in Chunk /\ x[1] = "line" /\ x[2] = Len(a) + 1 /\ x # Torn /\ x # Header
  <2>1. Len(a) + 1 \in Nat
    OBVIOUS
  <2>2. x \in Chunk /\ x[1] = "line" /\ x[2] = Len(a) + 1
    BY <2>1, Kinds, Zenon
  <2> QED BY <2>2, Kinds, Zenon
<1> HIDE DEF x
<1>2. d \in Seq(Chunk) /\ d # <<>>
  BY <1>1
<1>3. ASSUME Recovers(d) PROVE Begins(Append(a, x), Events(d))
  <2>1. c # <<>>
    BY <1>1, <1>3 DEF Recovers, HeaderOk
  <2>2. Recovers(c) /\ Events(c) \in Seq(Chunk) /\ Events(d) = Append(Events(c), x) /\ x[2] = Len(Events(c)) + 1
    BY <1>1, <1>3, <2>1, RecoversAppend, Zenon
  <2> DEFINE e == Events(c)
  <2>3. Len(a) = Len(e) /\ e \in Seq(Chunk) /\ Events(d) = Append(e, x)
    BY <1>1, <2>2
  <2>4. \A i \in 1..Len(a) : a[i] = e[i]
    BY <2>2, PrefixIs DEF Good
  <2> HIDE DEF d, e
  <2>5. a = e
    BY <2>3, <2>4, SameSequence, Zenon
  <2>6. Append(a, x) \in Seq(Chunk) /\ Append(a, x) = Events(d)
    BY <1>1, <2>3, <2>5
  <2> QED BY <2>6, PrefixIs
<1>4. Good(Append(a, x), d)
  BY <1>2, <1>3, Zenon DEF Good
<1> QED BY <1>4, Zenon DEF x

\* What was synced and a part of what was written after it.
LEMMA GoodCut ==
    ASSUME NEW a \in Seq(Chunk), NEW s \in Seq(Chunk), NEW c \in Seq(Chunk),
           Good(a, s), Begins(s, c), NEW n \in Len(s)..Len(c)
    PROVE  Good(a, SubSeq(c, 1, n))
<1> DEFINE D == {k \in Nat : Len(s) + k <= Len(c) => Good(a, SubSeq(c, 1, Len(s) + k))}
<1>1. Len(s) \in Nat /\ Len(c) \in Nat /\ Len(s) <= Len(c) /\ \A i \in 1..Len(s) : s[i] = c[i]
  BY PrefixIs
<1>2. 0 \in D
  <2>1. SubSeq(c, 1, Len(s)) \in Seq(Chunk) /\ Len(SubSeq(c, 1, Len(s))) = Len(s)
        /\ \A i \in 1..Len(s) : s[i] = SubSeq(c, 1, Len(s))[i]
    BY <1>1
  <2>2. SubSeq(c, 1, Len(s)) = s
    BY <2>1, SameSequence, Zenon
  <2>3. Len(s) + 0 = Len(s)
    BY <1>1
  <2>4. Good(a, SubSeq(c, 1, Len(s) + 0))
    BY <2>2, <2>3, Zenon
  <2> QED BY <2>4, Zenon
<1>3. ASSUME NEW k \in Nat, k \in D PROVE k + 1 \in D
  <2> SUFFICES ASSUME Len(s) + (k + 1) <= Len(c) PROVE Good(a, SubSeq(c, 1, Len(s) + (k + 1)))
    OBVIOUS
  <2> DEFINE m == Len(s) + k
             d == SubSeq(c, 1, m)
             e == SubSeq(c, 1, m + 1)
  <2>1. m \in Nat /\ m + 1 <= Len(c) /\ Len(s) + (k + 1) = m + 1 /\ Good(a, d)
    BY <1>1, <1>3
  <2> HIDE DEF m
  <2>2. /\ d \in Seq(Chunk) /\ Len(d) = m /\ (\A i \in 1..m : d[i] = c[i])
        /\ e \in Seq(Chunk) /\ Len(e) = m + 1 /\ (\A i \in 1..(m + 1) : e[i] = c[i])
        /\ c[m + 1] \in Chunk
    BY <1>1, <2>1
  <2> HIDE DEF d, e
  <2> DEFINE g == Append(d, c[m + 1])
  <2>3. Good(a, g)
    BY <2>1, <2>2, GoodAppend, Zenon
  <2>4. /\ g \in Seq(Chunk) /\ Len(g) = m + 1 /\ \A i \in 1..(m + 1) : g[i] = e[i]
    <3>1. /\ g \in Seq(Chunk) /\ Len(g) = Len(d) + 1 /\ \A i \in 1..Len(d) : g[i] = d[i]
          /\ g[Len(d) + 1] = c[m + 1]
      BY <2>2
    <3> HIDE DEF g
    <3>2. ASSUME NEW i \in 1..(m + 1) PROVE g[i] = e[i]
      <4>1. i \in 1..m \/ i = m + 1
        BY <2>1
      <4> QED BY <2>2, <3>1, <4>1, Zenon
    <3> QED BY <2>2, <3>1, <3>2, Zenon
  <2> HIDE DEF g
  <2>5. g = e
    BY <2>2, <2>4, SameSequence, Zenon
  <2>6. Good(a, e)
    BY <2>3, <2>5, Zenon
  <2> QED BY <2>1, <2>6, Zenon DEF e
<1> HIDE DEF D
<1>4. n - Len(s) \in Nat /\ n - Len(s) \in D
  <2>1. Nat \subseteq D
    BY <1>2, <1>3, NaturalInduction, Zenon
  <2>2. n - Len(s) \in Nat
    BY <1>1
  <2> QED BY <2>1, <2>2, Zenon
<1>5. Len(s) + (n - Len(s)) = n /\ n <= Len(c)
  BY <1>1
<1> QED BY <1>4, <1>5, Zenon DEF D

\* What a power loss may leave of a file.
LEMMA SurvivorsAre ==
    ASSUME NEW f, content[f] \in Seq(Chunk), synced[f] \in Seq(Chunk), NEW d \in Survivors(f)
    PROVE  \/ d = synced[f] \/ d = content[f]
           \/ Begins(synced[f], content[f])
              /\ \E n \in Len(synced[f])..Len(content[f]) :
                    d = SubSeq(content[f], 1, n) \/ d = Append(SubSeq(content[f], 1, n), Torn)
<1> DEFINE s == synced[f]
           c == content[f]
           kept == IF Begins(s, c) THEN Len(s) ELSE Len(c)
           cuts == {SubSeq(c, 1, n) : n \in kept..Len(c)}
<1>1. d = s \/ d \in cuts \/ \E e \in cuts \ {c} : d = Append(e, Torn)
  BY Zenon DEF Survivors
<1> HIDE DEF s, c
<1>2. s \in Seq(Chunk) /\ c \in Seq(Chunk)
  BY Zenon DEF s, c
<1>3. CASE Begins(s, c)
  BY <1>1, <1>3, Zenon DEF s, c
<1>4. CASE ~Begins(s, c)
  <2>1. SubSeq(c, 1, Len(c)) = c
    <3>1. SubSeq(c, 1, Len(c)) \in Seq(Chunk) /\ Len(SubSeq(c, 1, Len(c))) = Len(c)
          /\ \A i \in 1..Len(c) : SubSeq(c, 1, Len(c))[i] = c[i]
      BY <1>2
    <3> QED BY <1>2, <3>1, SameSequence, Zenon
  <2>2. cuts = {c}
    BY <1>2, <1>4, <2>1
  <2> QED BY <1>1, <2>2, Zenon DEF s, c
<1> QED BY <1>3, <1>4, Zenon

LEMMA SurvivorsGood ==
    ASSUME NEW f, content[f] \in Seq(Chunk), synced[f] \in Seq(Chunk), NEW d \in Survivors(f)
    PROVE  /\ d \in Seq(Chunk)
           /\ NoLine(content[f]) /\ NoLine(synced[f]) => NoLine(d)
           /\ \A a \in Seq(Chunk) : Good(a, content[f]) /\ Good(a, synced[f]) => Good(a, d)
<1> DEFINE s == synced[f]
           c == content[f]
<1>1. s \in Seq(Chunk) /\ c \in Seq(Chunk)
  BY Zenon
<1>2. \/ d = s \/ d = c
      \/ Begins(s, c) /\ \E n \in Len(s)..Len(c) : d = SubSeq(c, 1, n) \/ d = Append(SubSeq(c, 1, n), Torn)
  BY SurvivorsAre, Zenon
<1> HIDE DEF s, c
<1>3. CASE d = s \/ d = c
  BY <1>1, <1>3, Zenon DEF s, c
<1>4. ASSUME Begins(s, c), NEW n \in Len(s)..Len(c), NEW e, e = SubSeq(c, 1, n),
             d = e \/ d = Append(e, Torn)
      PROVE  /\ d \in Seq(Chunk)
             /\ NoLine(c) => NoLine(d)
             /\ \A a \in Seq(Chunk) : Good(a, s) => Good(a, d)
  <2>1. e \in Seq(Chunk) /\ Len(e) = n /\ \A i \in 1..n : e[i] = c[i]
    BY <1>1, <1>4
  <2>2. \A a \in Seq(Chunk) : Good(a, s) => Good(a, e)
    BY <1>1, <1>4, GoodCut, Zenon
  <2>3. NoLine(c) => NoLine(e)
    BY <1>1, <1>4, <2>1 DEF NoLine
  <2>4. Append(e, Torn) \in Seq(Chunk) /\ (NoLine(e) => NoLine(Append(e, Torn)))
    BY <2>1, Kinds DEF NoLine
  <2>5. \A a \in Seq(Chunk) : Good(a, e) => Good(a, Append(e, Torn))
    BY <2>1, Kinds, GoodAppend, Zenon
  <2> QED BY <1>4, <2>1, <2>2, <2>3, <2>4, <2>5, Zenon
<1> QED BY <1>2, <1>3, <1>4, Zenon DEF s, c

--------------------------------------------------------------------------------
(* The data, and who writes it. *)

LEMMA ProcsAre ==
    /\ Owner \in Procs /\ Recoverers \subseteq Procs /\ Owner \notin Recoverers
    /\ \A p \in Procs : p # Owner => p \in Recoverers
BY ProcsAssumption, Zenon DEF Procs

\* A file that a process has open exists.
LEMMA OpenExists ==
    ASSUME IInv, NEW p \in Procs, pc[p] \in Opened
    PROVE  /\ fd[p] \in DOMAIN content /\ fd[p] \in DOMAIN synced
           /\ content[fd[p]] \in Seq(Chunk) /\ synced[fd[p]] \in Seq(Chunk)
BY DEF IInv, TypeOK, Inode, LockInv

\* A process writes the file it has open: c, and syncs it or not.
Writes(p, c) ==
    /\ content' = [content EXCEPT ![fd[p]] = c]
    /\ synced' = synced \/ synced' = [synced EXCEPT ![fd[p]] = c]

\* What it writes recovers with all that is acknowledged by then.
WritesWell(p) ==
    /\ pc[p] \in Locking
    /\ \E c \in Seq(Chunk) :
          /\ Writes(p, c)
          /\ fd[p] = home => Good(acked', c)
          /\ pc[Owner] \in Unread \cup {"truncate"} => NoLine(c)
          /\ acked' = acked \/ acked' = <<>> \/ synced' = [synced EXCEPT ![fd[p]] = c]

LEMMA HeaderWell ==
    ASSUME IInv, NEW p \in Procs, header(p)
    PROVE  WritesWell(p) /\ acked' = acked
<1>1. PICK c \in {<<>>, <<Torn>>, <<Header>>} : Writes(p, c)
  BY Zenon DEF header, Sync, Write, Writes
<1>2. acked' = acked /\ pc[p] = "header"
  BY Zenon DEF header, history
<1>3. c \in Seq(Chunk) /\ NoLine(c)
  <2>1. CASE c = <<>>
    BY <2>1 DEF NoLine
  <2>2. ASSUME NEW x \in {Torn, Header}, c = <<x>> PROVE c \in Seq(Chunk) /\ NoLine(c)
    <3>1. x \in Chunk /\ x[1] # "line"
      BY Kinds, Zenon
    <3> QED BY <2>2, <3>1 DEF NoLine
  <2> QED BY <2>1, <2>2, Zenon
<1>4. ASSUME fd[p] = home PROVE Good(acked, c)
  <2>1. home # 0 /\ content[home] = <<>> /\ acked \in Seq(Chunk)
    BY <1>2, <1>4, Zenon DEF IInv, TypeOK, ReadInv, LockInv, Opened
  <2>2. acked = <<>>
    BY <2>1, Zenon DEF IInv, GoodInv, Good
  <2> QED BY <1>3, <2>2, GoodEmpty, Zenon
<1> QED BY <1>1, <1>2, <1>3, <1>4, Zenon DEF WritesWell, Locking, Opened

LEMMA TruncateWell ==
    ASSUME IInv, NEW p \in Procs, truncate(p)
    PROVE  (UNCHANGED data \/ WritesWell(p)) /\ acked' = acked
<1> DEFINE c == content[fd[p]]
           d == <<Header>> \o Events(c)
<1>1. UNCHANGED data \/ Writes(p, d)
  BY Zenon DEF truncate, Sync, Write, Writes
<1>2. acked' = acked /\ pc[p] = "truncate"
  BY Zenon DEF truncate, history
<1>3. c \in Seq(Chunk) /\ Recovers(c) /\ fd[p] \in DOMAIN content /\ fd[p] # 0
  BY <1>2, OpenExists, Zenon DEF IInv, ReadInv, LockInv, Opened
<1>4. d \in Seq(Chunk) /\ d # <<>> /\ Recovers(d) /\ Events(d) = Events(c)
  BY <1>3, TruncateKeeps, Zenon
<1>5. fd[p] = home => Good(acked, d)
  BY <1>3, <1>4, Zenon DEF IInv, GoodInv, Good
<1>6. ASSUME pc[Owner] \in Unread \cup {"truncate"} PROVE NoLine(d)
  <2>1. NoLine(c)
    BY <1>3, <1>6, Zenon DEF IInv, OwnerInv
  <2>2. PICK m \in 1..Len(c) : c[m] # Torn /\ \A k \in 1..Len(c) : k > m => c[k] = Torn
    BY <1>3, LastLine, Zenon DEF Recovers
  <2>3. Events(c) \in Seq(Chunk) /\ Len(Events(c)) = m - 1 /\ \A i \in 1..(m - 1) : Events(c)[i] = c[i + 1]
    BY <1>3, <2>2, EventsUpTo, Zenon
  <2> HIDE DEF c
  <2>4. \A i \in 1..Len(Events(c)) : Events(c)[i][1] # "line"
    <3> SUFFICES ASSUME NEW i \in 1..(m - 1) PROVE Events(c)[i][1] # "line"
      BY <2>3, Zenon
    <3>1. i + 1 \in DOMAIN c
      BY <1>3, <2>2
    <3> QED BY <2>1, <2>3, <3>1, Zenon DEF NoLine
  <2> DEFINE e == Events(c)
  <2> HIDE DEF e
  <2>5. e \in Seq(Chunk) /\ (\A i \in 1..Len(e) : e[i][1] # "line") /\ d = <<Header>> \o e
    BY <2>3, <2>4, Zenon DEF e
  <2>6. NoLine(<<Header>> \o e)
    BY <2>5, Kinds DEF NoLine
  <2> QED BY <2>5, <2>6, Zenon
<1> HIDE DEF d
<1> QED BY <1>1, <1>2, <1>4, <1>5, <1>6, SMTT(20) DEF WritesWell, Locking, Opened

LEMMA AppendWell ==
    ASSUME IInv, NEW p \in Procs, append(p)
    PROVE  /\ WritesWell(p) /\ p = Owner /\ pc[p] = "ready"
           /\ \/ acked' = acked /\ records' = records
              \/ \E x \in Chunk : acked' = Append(acked, x) /\ records' = [records EXCEPT ![p] = Append(@, x)]
<1> DEFINE c == content[fd[p]]
           line(live) == Line(Len(acked) + 1, live)
<1>1. p = Owner /\ pc[p] = "ready" /\ records[p] = acked /\ acked \in Seq(Chunk) /\ fd[p] = home /\ home # 0
  BY Zenon DEF append, IInv, OwnerInv, TypeOK, Opened
<1>2. c \in Seq(Chunk) /\ Good(acked, c)
  BY <1>1, OpenExists, Zenon DEF IInv, GoodInv, Opened
<1>3. PICK live \in {TRUE, ~Unresolved(records[p])} :
        \/ /\ Writes(p, Append(c, line(live))) /\ synced' = [synced EXCEPT ![fd[p]] = Append(c, line(live))]
           /\ records' = [records EXCEPT ![p] = Append(@, line(live))]
           /\ acked' = Append(acked, line(live))
        \/ /\ \E chunk \in {line(live), Torn} : Writes(p, Append(c, chunk))
           /\ UNCHANGED <<records, acked>>
  BY <1>1, Zenon DEF append, Sync, Write, Writes
<1>4. live \in BOOLEAN
  BY Zenon
<1>5. line(live) \in Chunk /\ Torn \in Chunk
  <2>1. Len(acked) + 1 \in Nat
    BY <1>1
  <2> QED BY <1>4, <2>1, Kinds, Zenon
<1>6. ~(pc[Owner] \in Unread \cup {"truncate"}) /\ pc[p] \in Locking
  BY <1>1, Zenon DEF Unread, Locking, Opened
<1>7. Good(Append(acked, line(live)), Append(c, line(live)))
  BY <1>1, <1>2, <1>4, GoodAck, Zenon
<1> DEFINE x == line(live)
<1> HIDE DEF c, line, x
<1>8. CASE /\ Writes(p, Append(c, x)) /\ synced' = [synced EXCEPT ![fd[p]] = Append(c, x)]
           /\ records' = [records EXCEPT ![p] = Append(@, x)] /\ acked' = Append(acked, x)
  <2>1. Good(acked', Append(c, x)) /\ Append(c, x) \in Seq(Chunk) /\ x \in Chunk
    BY <1>2, <1>5, <1>7, <1>8 DEF x, c
  <2>2. WritesWell(p)
    BY <1>6, <1>8, <2>1, Zenon DEF WritesWell
  <2> QED BY <1>1, <1>8, <2>1, <2>2, Zenon
<1>9. ASSUME NEW y \in {x, Torn}, Writes(p, Append(c, y)), UNCHANGED <<records, acked>>
      PROVE  WritesWell(p) /\ acked' = acked /\ records' = records
  <2>1. y \in Chunk /\ c \in Seq(Chunk) /\ Good(acked, c)
    BY <1>2, <1>5, Zenon DEF x, c
  <2>2. Append(c, y) \in Seq(Chunk) /\ Good(acked, Append(c, y))
    BY <1>1, <2>1, GoodAppend
  <2> QED BY <1>6, <1>9, <2>2, Zenon DEF WritesWell
<1> QED BY <1>1, <1>3, <1>8, <1>9, Zenon DEF x

LEMMA RecoverWell ==
    ASSUME IInv, NEW p \in Procs, recover(p)
    PROVE  /\ UNCHANGED data \/ WritesWell(p)
           /\ acked' = acked \/ acked' = <<>>
           /\ p # Owner /\ pc[p] = "ready" /\ records' = records
<1>1. p # Owner /\ pc[p] = "ready" /\ pc[p] \in Locking
  BY Zenon DEF recover, Locking, Opened
<1>2. records' = records
  BY Zenon DEF recover, reset, Fail
<1>3. CASE UNCHANGED data
  BY <1>1, <1>2, <1>3, Zenon DEF recover, reset
<1>4. CASE ~UNCHANGED data
  <2>1. reset(p) /\ Writes(p, <<Header>>) /\ ~Unresolved(records[p])
    BY <1>4, Zenon DEF recover, reset, Sync, Write, Writes
  <2>2. <<Header>> \in Seq(Chunk) /\ NoLine(<<Header>>)
    BY Kinds, SMTT(20) DEF NoLine
  <2>3. fd[p] = home => acked' = <<>>
    BY <2>1, Zenon DEF reset
  <2>4. acked' = acked \/ acked' = <<>>
    BY <2>1, Zenon DEF reset
  <2>5. fd[p] = home => Good(acked', <<Header>>)
    BY <2>2, <2>3, GoodEmpty, Zenon
  <2> QED BY <1>1, <1>2, <2>1, <2>2, <2>4, <2>5, Zenon DEF WritesWell
<1> QED BY <1>3, <1>4, Zenon

LEMMA ReleaseWell ==
    ASSUME IInv, NEW p \in Procs, release(p)
    PROVE  (UNCHANGED data \/ WritesWell(p)) /\ acked' = acked
<1> DEFINE c == content[fd[p]]
<1>1. acked' = acked /\ pc[p] = "release" /\ pc[p] \in Locking /\ pc[p] \in Opened
  BY Zenon DEF release, history, Locking, Opened
<1>2. UNCHANGED data \/ Writes(p, c)
  BY Zenon DEF release, Sync, Write, Writes
<1>3. c \in Seq(Chunk) /\ fd[p] \in DOMAIN content /\ fd[p] # 0
  BY <1>1, OpenExists, Zenon DEF IInv, LockInv
<1>4. fd[p] = home => Good(acked, c)
  BY <1>3, Zenon DEF IInv, GoodInv
<1>5. pc[Owner] \in Unread \cup {"truncate"} => NoLine(c)
  BY <1>3, Zenon DEF IInv, OwnerInv
<1> HIDE DEF c
<1> QED BY <1>1, <1>2, <1>3, <1>4, <1>5, Zenon DEF WritesWell

\* Only open creates a file, and every other step leaves the data alone or writes a
\* file under its lock.
LEMMA DataSteps ==
    ASSUME IInv, NEW p \in Procs, Step(p)
    PROVE  open(p) \/ UNCHANGED data \/ WritesWell(p)
<1>1. CASE start(p) \/ peek(p) \/ check(p) \/ lock(p) \/ read(p) \/ finish(p) \/ rename(p) \/ mark(p) \/ crash(p)
  BY <1>1, Zenon DEF start, peek, check, lock, read, finish, rename, mark, crash
<1>2. CASE header(p)
  BY <1>2, HeaderWell, Zenon
<1>3. CASE truncate(p)
  BY <1>3, TruncateWell, Zenon
<1>4. CASE append(p)
  BY <1>4, AppendWell, Zenon
<1>5. CASE recover(p)
  BY <1>5, RecoverWell, Zenon
<1>6. CASE release(p)
  BY <1>6, ReleaseWell, Zenon
<1> QED BY <1>1, <1>2, <1>3, <1>4, <1>5, <1>6, Zenon DEF Step

\* What is acknowledged grows by a record of the owner or is given up.
LEMMA AckedSteps ==
    ASSUME IInv, NEW p \in Procs, Step(p), acked' # acked
    PROVE  /\ acked' = <<>> \/ append(p)
           /\ acked' \in Seq(Chunk)
<1>1. append(p) \/ recover(p)
  <2>1. ~(start(p) \/ peek(p) \/ check(p) \/ open(p) \/ lock(p) \/ read(p) \/ header(p) \/ truncate(p))
    BY Zenon DEF start, peek, check, open, lock, read, header, truncate, history
  <2>2. ~(finish(p) \/ release(p) \/ rename(p) \/ mark(p) \/ crash(p))
    BY Zenon DEF finish, release, rename, mark, crash, history
  <2> QED BY <2>1, <2>2, Zenon DEF Step
<1>2. CASE append(p)
  <2>1. acked \in Seq(Chunk)
    BY Zenon DEF IInv, TypeOK
  <2> QED BY <1>2, <2>1, AppendWell
<1>3. CASE recover(p)
  <2>1. acked' = <<>>
    BY <1>3, RecoverWell, Zenon
  <2> QED BY <2>1
<1> QED BY <1>1, <1>2, <1>3, Zenon

--------------------------------------------------------------------------------
(* The invariant, part by part, in a step of a process. *)

LEMMA SequenceUpdate ==
    ASSUME NEW S, NEW s \in Seq(S), NEW i \in DOMAIN s, NEW x \in S
    PROVE  [s EXCEPT ![i] = x] \in Seq(S) /\ Len([s EXCEPT ![i] = x]) = Len(s)
OBVIOUS

LEMMA DataType ==
    ASSUME IInv, NEW p \in Procs, Step(p)
    PROVE  /\ content' \in Seq(Seq(Chunk)) /\ synced' \in Seq(Seq(Chunk)) /\ Len(synced') = Len(content')
           /\ Inode \subseteq Inode'
<1>1. content \in Seq(Seq(Chunk)) /\ synced \in Seq(Seq(Chunk)) /\ Len(synced) = Len(content)
  BY Zenon DEF IInv, TypeOK
<1>2. CASE UNCHANGED data
  BY <1>1, <1>2, Zenon DEF data, Inode
<1>3. CASE WritesWell(p)
  <2>1. PICK c \in Seq(Chunk) : Writes(p, c)
    BY <1>3, Zenon DEF WritesWell
  <2>2. fd[p] \in DOMAIN content /\ fd[p] \in DOMAIN synced
    BY <1>3, OpenExists, Zenon DEF WritesWell, Locking
  <2>3. content' \in Seq(Seq(Chunk)) /\ Len(content') = Len(content)
    <3>1. [content EXCEPT ![fd[p]] = c] \in Seq(Seq(Chunk)) /\ Len([content EXCEPT ![fd[p]] = c]) = Len(content)
      BY <1>1, <2>2, SequenceUpdate
    <3> QED BY <2>1, <3>1, Zenon DEF Writes
  <2>4. synced' \in Seq(Seq(Chunk)) /\ Len(synced') = Len(synced)
    <3>1. [synced EXCEPT ![fd[p]] = c] \in Seq(Seq(Chunk)) /\ Len([synced EXCEPT ![fd[p]] = c]) = Len(synced)
      BY <1>1, <2>2, SequenceUpdate
    <3> QED BY <1>1, <2>1, <3>1, Zenon DEF Writes
  <2> QED BY <1>1, <2>3, <2>4, Zenon DEF Inode
<1>4. CASE open(p)
  <2>1. CASE path = 0
    <3>1. content' = Append(content, <<>>) /\ synced' = Append(synced, <<>>) /\ <<>> \in Seq(Chunk)
      BY <1>4, <2>1 DEF open
    <3>2. content' \in Seq(Seq(Chunk)) /\ Len(content') = Len(content) + 1
      BY <1>1, <3>1
    <3>3. synced' \in Seq(Seq(Chunk)) /\ Len(synced') = Len(synced) + 1
      BY <1>1, <3>1
    <3> QED BY <1>1, <3>2, <3>3 DEF Inode
  <2>2. CASE path # 0
    BY <1>2, <1>4, <2>2, Zenon DEF open
  <2> QED BY <2>1, <2>2, Zenon
<1> QED BY <1>2, <1>3, <1>4, DataSteps, Zenon

LEMMA TypeStep ==
    ASSUME IInv, NEW p \in Procs, Step(p)
    PROVE  TypeOK'
<1>1. /\ content' \in Seq(Seq(Chunk)) /\ synced' \in Seq(Seq(Chunk)) /\ Len(synced') = Len(content')
      /\ Inode \subseteq Inode' /\ 0 \in Inode'
  BY DataType DEF Inode
<1>2. acked' \in Seq(Chunk)
  BY AckedSteps, Zenon DEF IInv, TypeOK
<1>3. records' \in [Procs -> Seq(Chunk)]
  <2>1. records \in [Procs -> Seq(Chunk)]
    BY Zenon DEF IInv, TypeOK
  <2>2. CASE append(p)
    <3>1. CASE records' = records
      BY <2>1, <3>1, Zenon
    <3>2. CASE records' # records
      <4>1. PICK x \in Chunk : records' = [records EXCEPT ![p] = Append(@, x)]
        BY <2>2, <3>2, AppendWell, Zenon
      <4>2. Append(records[p], x) \in Seq(Chunk)
        BY <2>1
      <4> QED BY <2>1, <4>1, <4>2, Zenon
    <3> QED BY <3>1, <3>2, Zenon
  <2>3. CASE recover(p)
    BY <2>1, <2>3, RecoverWell, Zenon
  <2>4. CASE read(p)
    <3>1. CASE records' = records
      BY <2>1, <3>1, Zenon
    <3>2. CASE records' # records
      <4>1. Recovers(content[fd[p]]) /\ records' = [records EXCEPT ![p] = Events(content[fd[p]])]
        BY <2>4, <3>2, Zenon DEF read
      <4>2. content[fd[p]] \in Seq(Chunk)
        BY <2>4, OpenExists, Zenon DEF read, Opened
      <4>3. Events(content[fd[p]]) \in Seq(Chunk)
        BY <4>1, <4>2, EventsType, Zenon DEF Recovers
      <4> QED BY <2>1, <4>1, <4>3, Zenon
    <3> QED BY <3>1, <3>2, Zenon
  <2>5. CASE crash(p)
    <3>1. <<>> \in Seq(Chunk)
      BY SMTT(20)
    <3> QED BY <2>1, <2>5, <3>1, Zenon DEF crash
  <2>6. CASE start(p) \/ peek(p) \/ check(p) \/ open(p) \/ lock(p) \/ header(p) \/ truncate(p)
    BY <2>1, <2>6, Zenon DEF start, peek, check, open, lock, Fail, header, truncate
  <2>7. CASE finish(p) \/ release(p) \/ rename(p) \/ mark(p)
    BY <2>1, <2>7, Zenon DEF finish, release, rename, mark
  <2> QED BY <2>2, <2>3, <2>4, <2>5, <2>6, <2>7, Zenon DEF Step
<1> HIDE DEF Inode
<1>4. pc' \in [Procs -> Labels]
  <2>1. \E l \in Labels : pc' = [pc EXCEPT ![p] = l]
    <3>1. CASE start(p) \/ peek(p) \/ check(p) \/ open(p) \/ lock(p) \/ header(p)
      BY <3>1, Zenon DEF start, peek, check, open, lock, Fail, header, Skip, Goto, Labels, Opened, AtRest
    <3>2. CASE read(p) \/ truncate(p) \/ finish(p)
      BY <3>2, Zenon DEF read, truncate, Fail, finish, Goto, Labels, Opened, AtRest
    <3>3. CASE append(p)
      BY <3>3, Zenon DEF append, IInv, TypeOK
    <3>4. CASE recover(p)
      BY <3>4, Zenon DEF recover, reset, Fail, Goto, Labels, Opened, AtRest
    <3>5. CASE release(p) \/ rename(p) \/ mark(p)
      BY <3>5, Zenon DEF release, rename, mark, Ends, Skip, Goto, Labels, Opened, AtRest
    <3>6. CASE crash(p)
      BY <3>6, Zenon DEF crash, Restart, Goto, Labels, Opened, AtRest
    <3> QED BY <3>1, <3>2, <3>3, <3>4, <3>5, <3>6, SMTT(20) DEF Step
  <2> QED BY <2>1, Zenon DEF IInv, TypeOK
<1>5. path' \in Inode' /\ home' \in Inode'
  <2>1. CASE open(p)
    <3>1. path' = Len(content') \/ path' = path
      BY <2>1, Zenon DEF open
    <3>2. Len(content') \in Inode'
      BY <1>1 DEF Inode
    <3>3. path \in Inode' /\ home \in Inode'
      BY <1>1, Zenon DEF IInv, TypeOK
    <3> QED BY <2>1, <3>1, <3>2, <3>3, Zenon DEF open
  <2>2. CASE rename(p) \/ mark(p)
    BY <1>1, <2>2, Zenon DEF rename, mark, history, IInv, TypeOK
  <2>3. CASE start(p) \/ peek(p) \/ check(p) \/ lock(p) \/ header(p) \/ read(p) \/ truncate(p)
    BY <1>1, <2>3, Zenon DEF start, peek, check, lock, header, read, truncate, names, history, IInv, TypeOK
  <2>4. CASE append(p) \/ finish(p) \/ recover(p) \/ release(p) \/ crash(p)
    BY <1>1, <2>4, Zenon DEF append, finish, recover, release, crash, names, history, IInv, TypeOK
  <2> QED BY <2>1, <2>2, <2>3, <2>4, Zenon DEF Step
<1>6. archive' \subseteq Inode'
  <2>1. archive' = archive \/ archive' = archive \cup {path} \/ \E f : archive' = archive \ {f}
    <3>1. CASE start(p) \/ peek(p) \/ check(p) \/ open(p) \/ lock(p) \/ header(p) \/ read(p) \/ truncate(p)
      BY <3>1, Zenon DEF start, peek, check, open, lock, header, read, truncate, names
    <3>2. CASE append(p) \/ finish(p) \/ recover(p) \/ release(p) \/ crash(p)
      BY <3>2, Zenon DEF append, finish, recover, release, crash, names
    <3>3. CASE rename(p) \/ mark(p)
      BY <3>3, Zenon DEF rename, mark
    <3> QED BY <3>1, <3>2, <3>3, Zenon DEF Step
  <2> QED BY <1>1, <2>1, Zenon DEF IInv, TypeOK
<1>7. fd' \in [Procs -> Inode'] /\ locked' \in [Procs -> Inode']
  <2>1. fd' \in {fd, [fd EXCEPT ![p] = 0]} \/ (open(p) /\ fd' = [fd EXCEPT ![p] = path'])
    <3>1. CASE start(p) \/ peek(p) \/ check(p) \/ open(p) \/ lock(p) \/ header(p) \/ read(p) \/ truncate(p)
      BY <3>1, Zenon DEF start, peek, check, open, lock, header, read, truncate, Fail, Close
    <3>2. CASE append(p) \/ finish(p) \/ recover(p) \/ release(p) \/ rename(p) \/ mark(p) \/ crash(p)
      BY <3>2, Zenon DEF append, finish, recover, reset, release, rename, mark, crash, Fail, Close
    <3> QED BY <3>1, <3>2, Zenon DEF Step
  <2>2. locked' \in {locked, [locked EXCEPT ![p] = 0], [locked EXCEPT ![p] = fd[p]]}
    <3>1. CASE start(p) \/ peek(p) \/ check(p) \/ open(p) \/ lock(p) \/ header(p) \/ read(p) \/ truncate(p)
      BY <3>1, Zenon DEF start, peek, check, open, lock, header, read, truncate, Fail, Close
    <3>2. CASE append(p) \/ finish(p) \/ recover(p) \/ release(p) \/ rename(p) \/ mark(p) \/ crash(p)
      BY <3>2, Zenon DEF append, finish, recover, reset, release, rename, mark, crash, Fail, Close
    <3> QED BY <3>1, <3>2, Zenon DEF Step
  <2> DEFINE J == Inode'
  <2>3. fd \in [Procs -> J] /\ locked \in [Procs -> J] /\ 0 \in J /\ path' \in J
    BY <1>1, <1>5, Zenon DEF IInv, TypeOK
  <2> HIDE DEF J
  <2>4. fd' \in [Procs -> J]
    BY <2>1, <2>3, Zenon
  <2>5. locked' \in [Procs -> J]
    BY <2>2, <2>3, Zenon
  <2> QED BY <2>4, <2>5, Zenon DEF J
<1>8. moved' \in [Procs -> Inode']
  <2>1. moved' \in {moved, [moved EXCEPT ![p] = 0], [moved EXCEPT ![p] = path]}
    <3>1. CASE start(p) \/ peek(p) \/ check(p) \/ open(p) \/ lock(p) \/ header(p) \/ read(p) \/ truncate(p)
      BY <3>1, Zenon DEF start, peek, check, open, lock, header, read, truncate, Fail
    <3>2. CASE append(p) \/ finish(p) \/ recover(p) \/ release(p) \/ rename(p) \/ mark(p) \/ crash(p)
      BY <3>2, Zenon DEF append, finish, recover, reset, release, rename, mark, crash, Fail
    <3> QED BY <3>1, <3>2, Zenon DEF Step
  <2> DEFINE J == Inode'
  <2>2. moved \in [Procs -> J] /\ 0 \in J /\ path \in J
    BY <1>1, Zenon DEF IInv, TypeOK
  <2> HIDE DEF J
  <2>3. moved' \in [Procs -> J]
    BY <2>1, <2>2, Zenon
  <2> QED BY <2>3, Zenon DEF J
<1>9. orphan' \subseteq Recoverers /\ overlap' \in BOOLEAN /\ marker' \in BOOLEAN
  <2> USE DEF IInv, TypeOK
  <2>1. CASE start(p)
    BY <2>1, ProcsAre, Zenon DEF start, names
  <2>2. CASE mark(p)
    BY <2>2, Zenon DEF mark, history
  <2>3. CASE peek(p) \/ check(p) \/ open(p) \/ lock(p) \/ header(p) \/ read(p) \/ truncate(p)
    BY <2>3, Zenon DEF peek, check, open, lock, header, read, truncate, names, history
  <2>4. CASE append(p) \/ finish(p) \/ recover(p) \/ release(p) \/ rename(p) \/ crash(p)
    BY <2>4, Zenon DEF append, finish, recover, release, rename, crash, names, history
  <2> QED BY <2>1, <2>2, <2>3, <2>4, Zenon DEF Step
<1> QED BY <1>1, <1>2, <1>3, <1>4, <1>5, <1>6, <1>7, <1>8, <1>9, Zenon DEF TypeOK

\* A process changes its own label, file, lock and records only.
LEMMA OthersKeep ==
    ASSUME IInv, NEW p \in Procs, Step(p), NEW q \in Procs, q # p
    PROVE  /\ pc'[q] = pc[q] /\ fd'[q] = fd[q] /\ locked'[q] = locked[q]
           /\ records'[q] = records[q] /\ moved'[q] = moved[q]
<1> USE DEF Goto, Close, Fail, Skip, IInv, TypeOK
<1>1. CASE start(p) \/ peek(p) \/ check(p) \/ open(p) \/ lock(p)
  BY <1>1, Zenon DEF start, peek, check, open, lock
<1>2. CASE header(p) \/ read(p) \/ truncate(p)
  BY <1>2, Zenon DEF header, read, truncate
<1>3. CASE append(p)
  BY <1>3, AppendWell, SMTT(20) DEF append
<1>4. CASE finish(p) \/ recover(p) \/ crash(p)
  BY <1>4, Zenon DEF finish, recover, reset, crash
<1>5. CASE release(p) \/ rename(p) \/ mark(p)
  BY <1>5, Zenon DEF release, rename, mark, Ends
<1> QED BY <1>1, <1>2, <1>3, <1>4, <1>5, Zenon DEF Step

\* How a process comes to have a file open and locked.
LEMMA OwnLock ==
    ASSUME IInv, NEW p \in Procs, Step(p)
    PROVE  \/ pc'[p] \notin Opened /\ locked'[p] \in {locked[p], 0}
           \/ open(p) /\ pc'[p] = "lock" /\ fd'[p] = path' /\ path' # 0 /\ locked'[p] = locked[p]
           \/ /\ lock(p) /\ pc'[p] = "read" /\ fd'[p] = fd[p] /\ locked'[p] = fd[p]
              /\ \A q \in Procs : locked[q] # fd[p]
           \/ pc[p] \in Locking /\ pc'[p] \in Locking /\ fd'[p] = fd[p] /\ locked'[p] = locked[p]
<1> USE DEF Goto, Close, Fail, Skip, Opened, Locking
<1>1. pc \in [Procs -> Labels] /\ fd \in [Procs -> Inode] /\ locked \in [Procs -> Inode]
  BY SMTT(20) DEF IInv, TypeOK
<1>2. CASE start(p) \/ peek(p) \/ check(p)
  BY <1>1, <1>2, Zenon DEF start, peek, check
<1>3. CASE open(p)
  <2>1. path' # 0
    BY <1>3 DEF open, IInv, TypeOK
  <2> QED BY <1>1, <1>3, <2>1, Zenon DEF open
<1>4. CASE lock(p)
  BY <1>1, <1>4, Zenon DEF lock
<1>5. CASE header(p) \/ read(p) \/ truncate(p)
  BY <1>1, <1>5, Zenon DEF header, read, truncate
<1>6. CASE append(p)
  BY <1>1, <1>6, Zenon DEF append
<1>7. CASE finish(p) \/ recover(p)
  BY <1>1, <1>7, Zenon DEF finish, recover, reset
<1>8. CASE crash(p)
  BY <1>1, <1>8, Zenon DEF crash, Restart
<1>9. CASE release(p) \/ rename(p) \/ mark(p)
  BY <1>1, <1>9, Zenon DEF release, rename, mark, Ends
<1> QED BY <1>2, <1>3, <1>4, <1>5, <1>6, <1>7, <1>8, <1>9, Zenon DEF Step

LEMMA LockStep ==
    ASSUME IInv, NEW p \in Procs, Step(p)
    PROVE  LockInv'
<1>1. \A q \in Procs : q # p => pc'[q] = pc[q] /\ fd'[q] = fd[q] /\ locked'[q] = locked[q]
  BY OthersKeep, Zenon
<1>2. LockInv
  BY Zenon DEF IInv
<1>3. \A q \in Procs : pc'[q] \in Opened => fd'[q] # 0
  BY <1>1, <1>2, OwnLock, Zenon DEF LockInv, Opened, Locking, lock
<1>4. \A q \in Procs : pc'[q] \in Locking => locked'[q] = fd'[q]
  BY <1>1, <1>2, OwnLock, Zenon DEF LockInv, Opened, Locking
<1>5. locked'[p] \in {locked[p], 0} \/ \A q \in Procs : locked[q] # locked'[p]
  BY OwnLock, Zenon
<1>6. \A q, r \in Procs : locked'[q] = locked'[r] /\ locked'[q] # 0 => q = r
  BY <1>1, <1>2, <1>5 DEF LockInv
<1> QED BY <1>3, <1>4, <1>6, Zenon DEF LockInv

\* A file that is written is open in no other process that has it locked.
LEMMA WritesAlone ==
    ASSUME IInv, NEW p \in Procs, WritesWell(p), NEW q \in Procs, q # p, pc[q] \in Locking
    PROVE  content'[fd[q]] = content[fd[q]]
<1>1. pc[p] \in Locking /\ pc[p] \in Opened /\ pc[q] \in Opened
  BY Zenon DEF WritesWell, Locking
<1>2. fd[q] # fd[p]
  BY <1>1, Zenon DEF IInv, LockInv
<1>3. fd[q] \in DOMAIN content
  BY <1>1, OpenExists, Zenon
<1> QED BY <1>2, <1>3, SMTT(20) DEF WritesWell, Writes

LEMMA NoLineNoEvents ==
    ASSUME NEW c \in Seq(Chunk), Recovers(c), NoLine(c)
    PROVE  Events(c) = <<>>
<1>1. PICK m \in 1..Len(c) : c[m] # Torn /\ \A k \in 1..Len(c) : k > m => c[k] = Torn
  BY LastLine, Zenon DEF Recovers
<1>2. Events(c) \in Seq(Chunk) /\ Len(Events(c)) = m - 1 /\ \A i \in 1..(m - 1) : Events(c)[i] = c[i + 1]
  BY <1>1, EventsUpTo, Zenon
<1>3. CASE m = 1
  BY <1>2, <1>3
<1>4. CASE m # 1
  <2>1. 1 \in 1..(m - 1) /\ 1 + 1 \in DOMAIN c /\ 1 \in DOMAIN Events(c)
    BY <1>1, <1>2, <1>4
  <2>2. Events(c)[1][1] = "line" /\ Events(c)[1] = c[1 + 1]
    BY <1>2, <2>1, Zenon DEF Recovers
  <2> QED BY <2>1, <2>2, Zenon DEF NoLine
<1> QED BY <1>3, <1>4, Zenon

\* What another process has read is not changed.
LEMMA ReadOthers ==
    ASSUME IInv, NEW p \in Procs, Step(p), NEW q \in Procs, q # p, pc[q] \in Locking
    PROVE  content'[fd[q]] = content[fd[q]]
<1>1. CASE open(p)
  <2>1. fd[q] \in DOMAIN content /\ content \in Seq(Seq(Chunk))
    BY OpenExists, SMTT(20) DEF Locking, IInv, TypeOK
  <2>2. content' = content \/ content' = Append(content, <<>>)
    BY <1>1, Zenon DEF open, data
  <2> QED BY <2>1, <2>2
<1> QED BY <1>1, DataSteps, WritesAlone, Zenon DEF data

LEMMA ReadStep ==
    ASSUME IInv, NEW p \in Procs, Step(p)
    PROVE  ReadInv'
<1> DEFINE R(q) ==
        /\ pc'[q] \in Unread => records'[q] = <<>>
        /\ pc'[q] = "header" => content'[fd'[q]] = <<>>
        /\ pc'[q] = "truncate" \/ (pc'[q] = "ready" /\ q # Owner) =>
               Recovers(content'[fd'[q]]) /\ records'[q] = Events(content'[fd'[q]])
<1>1. ASSUME NEW q \in Procs, q # p PROVE R(q)
  <2>1. pc'[q] = pc[q] /\ fd'[q] = fd[q] /\ records'[q] = records[q]
    BY <1>1, OthersKeep, Zenon
  <2>2. pc[q] \in {"header", "truncate", "ready"} => content'[fd[q]] = content[fd[q]]
    BY <1>1, ReadOthers, Zenon DEF Locking, Opened
  <2> QED BY <2>1, <2>2, Zenon DEF IInv, ReadInv
<1>2. R(p)
  <2> USE DEF Goto, Close, Fail, Skip, Unread
  <2>1. /\ pc \in [Procs -> Labels] /\ records \in [Procs -> Seq(Chunk)] /\ fd \in [Procs -> Inode]
        /\ pc[p] \in Unread => records[p] = <<>>
    BY Zenon DEF IInv, TypeOK, ReadInv
  <2>2. CASE start(p) \/ peek(p) \/ check(p) \/ open(p) \/ lock(p)
    BY <2>1, <2>2, Zenon DEF start, peek, check, open, lock
  <2>3. CASE read(p)
    <3>1. content' = content /\ fd[p] \in DOMAIN content
      BY <2>3, OpenExists, Zenon DEF read, data, Opened
    <3> QED BY <2>1, <2>3, <3>1, Zenon DEF read
  <2>4. CASE header(p)
    <3>1. CASE pc'[p] = "ready"
      <4>1. content' = [content EXCEPT ![fd[p]] = <<Header>>] /\ fd' = fd /\ records' = records /\ pc[p] = "header"
        BY <2>1, <2>4, <3>1, SMTT(20) DEF header, Sync, Write
      <4>2. content'[fd[p]] = <<Header>> /\ records[p] = <<>>
        BY <2>1, <4>1, OpenExists, Zenon DEF Opened
      <4> QED BY <3>1, <4>1, <4>2, EventsHeader, Zenon
    <3>2. CASE pc'[p] # "ready"
      <4>1. pc'[p] = "failed"
        BY <2>1, <2>4, <3>2, SMTT(20) DEF header
      <4> QED BY <4>1, Zenon
    <3> QED BY <3>1, <3>2, Zenon
  <2>5. CASE truncate(p)
    <3> DEFINE c == content[fd[p]]
               d == <<Header>> \o Events(c)
    <3>1. CASE pc'[p] = "ready"
      <4>1. content' = [content EXCEPT ![fd[p]] = d] /\ fd' = fd /\ records' = records /\ pc[p] = "truncate"
        BY <2>1, <2>5, <3>1, SMTT(20) DEF truncate, Sync, Write
      <4>2. content'[fd[p]] = d /\ c \in Seq(Chunk) /\ Recovers(c) /\ records[p] = Events(c)
        BY <2>1, <4>1, OpenExists, SMTT(20) DEF Opened, IInv, ReadInv
      <4>3. Recovers(d) /\ Events(d) = Events(c)
        BY <4>2, TruncateKeeps, SMTT(20)
      <4> QED BY <3>1, <4>1, <4>2, <4>3, SMTT(20)
    <3>2. CASE pc'[p] # "ready"
      <4>1. pc'[p] = "failed"
        BY <2>1, <2>5, <3>2, Zenon DEF truncate
      <4> QED BY <4>1, Zenon
    <3> QED BY <3>1, <3>2, SMTT(20)
  <2>6. CASE append(p)
    BY <2>1, <2>6, Zenon DEF append
  <2>7. CASE finish(p) \/ recover(p)
    BY <2>1, <2>7, Zenon DEF finish, recover, reset
  <2>8. CASE crash(p)
    BY <2>1, <2>8, Zenon DEF crash, Restart
  <2>9. CASE release(p) \/ rename(p) \/ mark(p)
    BY <2>1, <2>9, Zenon DEF release, rename, mark, Ends
  <2> QED BY <2>2, <2>3, <2>4, <2>5, <2>6, <2>7, <2>8, <2>9, Zenon DEF Step
<1> QED BY <1>1, <1>2, Zenon DEF ReadInv

\* How the labels of the owner follow each other.
LEMMA OwnerLabels ==
    ASSUME IInv, NEW p \in Procs, Step(p)
    PROVE  /\ pc'[Owner] \in {"start", "check", "open"} => pc[Owner] \in {"start", "check", "open"}
           /\ pc'[Owner] \in Opened => (open(p) /\ p = Owner) \/ pc[Owner] \in Opened
           /\ pc'[Owner] \in Unread \cup {"truncate"} => pc[Owner] \in Unread \cup {"truncate"}
           /\ pc[Owner] = "ready" => pc'[Owner] \in {"ready", "dead"}
           /\ pc[Owner] = "dead" => pc'[Owner] = "dead"
           /\ pc[Owner] = "failed" => pc'[Owner] \in {"failed", "dead"}
           /\ pc'[Owner] \notin {"peek", "release"}
           /\ open(p) /\ p = Owner => pc[Owner] = "open" /\ pc'[Owner] = "lock"
<1>1. CASE p # Owner
  <2>1. pc'[Owner] = pc[Owner]
    BY <1>1, OthersKeep, ProcsAre, Zenon
  <2> QED BY <1>1, <2>1, Zenon DEF IInv, OwnerInv
<1>2. CASE p = Owner
  <2> USE DEF Goto, Close, Fail, Skip, Opened, Unread
  <2>1. pc \in [Procs -> Labels] /\ pc[p] \notin {"peek", "release"}
    BY <1>2, Zenon DEF IInv, TypeOK, OwnerInv
  <2>2. CASE start(p)
    <3>1. pc[p] = "start" /\ pc'[p] = "check"
      BY <1>2, <2>1, <2>2, Zenon DEF start
    <3> QED BY <1>2, <3>1, Zenon DEF open
  <2>3. CASE check(p)
    <3>1. pc[p] = "check" /\ pc'[p] \in {"open", "failed"}
      BY <1>2, <2>1, <2>3, SMTT(20) DEF check
    <3> QED BY <1>2, <3>1, Zenon DEF open
  <2>4. CASE open(p) \/ lock(p)
    <3>1. \/ pc[p] = "open" /\ pc'[p] = "lock"
          \/ pc[p] = "lock" /\ pc'[p] \in {"read", "failed"}
      BY <1>2, <2>1, <2>4, Zenon DEF open, lock
    <3> QED BY <1>2, <2>4, <3>1, Zenon DEF open, lock
  <2>5. CASE header(p) \/ read(p) \/ truncate(p)
    <3>1. /\ pc[p] \in {"header", "read", "truncate"}
          /\ pc'[p] \in {"header", "truncate", "ready", "rename", "failed"}
      BY <1>2, <2>1, <2>5, Zenon DEF header, read, truncate
    <3> QED BY <1>2, <3>1, Zenon DEF open
  <2>6. CASE append(p) \/ finish(p) \/ crash(p)
    <3>1. (pc[p] = "ready" /\ pc'[p] = "ready") \/ pc'[p] = "dead"
      BY <1>2, <2>1, <2>6, Zenon DEF append, finish, crash, Restart
    <3>2. ~open(p)
      BY <2>1, <3>1, Zenon DEF open
    <3> QED BY <1>2, <3>1, <3>2, Zenon
  <2>7. CASE rename(p) \/ mark(p)
    <3>1. pc[p] \in {"rename", "mark"} /\ pc'[p] \in {"mark", "failed", "registered"}
      BY <1>2, <2>1, <2>7, Zenon DEF rename, mark, Ends
    <3> QED BY <1>2, <3>1, Zenon DEF open
  <2> QED BY <1>2, <2>1, <2>2, <2>3, <2>4, <2>5, <2>6, <2>7, Zenon DEF Step, peek, release, recover
<1> QED BY <1>1, <1>2, SMTT(20)

LEMMA HomeSteps ==
    ASSUME IInv, NEW p \in Procs, Step(p)
    PROVE  IF open(p) /\ p = Owner THEN home' = path' /\ path' # 0 ELSE home' = home
<1>1. CASE open(p)
  <2>1. path' # 0
    BY <1>1 DEF open, IInv, TypeOK
  <2> QED BY <1>1, <2>1, Zenon DEF open
<1>2. CASE ~open(p)
  <2>1. CASE start(p) \/ peek(p) \/ check(p) \/ lock(p) \/ header(p) \/ read(p) \/ truncate(p) \/ append(p)
    BY <1>2, <2>1, Zenon DEF start, peek, check, lock, header, read, truncate, append, history
  <2>2. CASE finish(p) \/ recover(p) \/ release(p) \/ rename(p) \/ mark(p) \/ crash(p)
    BY <1>2, <2>2, Zenon DEF finish, recover, release, rename, mark, crash, history
  <2> QED BY <1>2, <2>1, <2>2, Zenon DEF Step
<1> QED BY <1>1, <1>2, Zenon

\* Nothing happens before the owner has opened its file.
LEMMA BeforeHome ==
    ASSUME IInv, NEW p \in Procs, Step(p), home' = 0
    PROVE  /\ content' = <<>> /\ path' = 0 /\ acked' = <<>>
           /\ pc'[Owner] \in {"start", "check", "open", "failed", "dead"}
           /\ \A q \in Recoverers : pc'[q] \in {"start", "registered"}
<1>1. home = 0 /\ ~(open(p) /\ p = Owner)
  BY HomeSteps, Zenon
<1>2. /\ content = <<>> /\ path = 0 /\ acked = <<>>
      /\ pc[Owner] \in {"start", "check", "open", "failed", "dead"}
      /\ \A q \in Recoverers : pc[q] \in {"start", "registered"}
      /\ pc \in [Procs -> Labels]
  BY <1>1, Zenon DEF IInv, TypeOK, OwnerInv
<1>3. \A q \in Procs : q # p => pc'[q] = pc[q]
  BY OthersKeep, Zenon
<1>4. CASE p = Owner
  <2>1. start(p) \/ check(p) \/ crash(p)
    BY <1>1, <1>2, <1>4, ZenonT(40)
    DEF Step, peek, lock, header, read, truncate, append, finish, recover, release, rename, mark
  <2>2. content' = content /\ path' = path /\ acked' = acked
    BY <2>1, Zenon DEF start, check, crash, names, data, history
  <2>3. pc'[p] \in {"start", "check", "open", "failed", "dead"}
    BY <1>2, <1>4, <2>1, Zenon DEF start, check, crash, Restart, Skip, Goto
  <2> QED BY <1>2, <1>3, <1>4, <2>2, <2>3, ProcsAre, Zenon
<1>5. CASE p # Owner
  <2>1. p \in Recoverers /\ pc[p] \in {"start", "registered"}
    BY <1>2, <1>5, ProcsAre, Zenon
  <2>2. start(p) \/ crash(p)
    BY <2>1, Zenon
    DEF Step, peek, check, open, lock, header, read, truncate, append, finish, recover, release, rename, mark
  <2>3. content' = content /\ path' = path /\ acked' = acked
    BY <2>2, Zenon DEF start, crash, names, data, history
  <2>4. pc'[p] \in {"start", "registered"}
    BY <1>2, <1>5, <2>2, Zenon DEF start, crash, Restart, Skip, Goto
  <2> QED BY <1>2, <1>3, <1>5, <2>3, <2>4, ProcsAre, Zenon
<1> QED BY <1>4, <1>5, Zenon

\* Files without event lines stay so until the owner appends.
LEMMA NoLineStep ==
    ASSUME IInv, NEW p \in Procs, Step(p), pc'[Owner] \in Unread \cup {"truncate"},
           NEW f \in DOMAIN content'
    PROVE  NoLine(content'[f]) /\ NoLine(synced'[f])
<1>1. pc[Owner] \in Unread \cup {"truncate"}
  BY OwnerLabels, Zenon
<1>2. /\ content \in Seq(Seq(Chunk)) /\ synced \in Seq(Seq(Chunk)) /\ Len(synced) = Len(content)
      /\ \A g \in DOMAIN content : NoLine(content[g]) /\ NoLine(synced[g])
  BY <1>1, Zenon DEF IInv, TypeOK, OwnerInv
<1>3. CASE UNCHANGED data
  BY <1>2, <1>3, Zenon DEF data
<1>4. CASE WritesWell(p)
  <2>1. PICK c \in Seq(Chunk) : Writes(p, c) /\ NoLine(c)
    BY <1>1, <1>4, Zenon DEF WritesWell
  <2> QED BY <1>2, <2>1 DEF Writes
<1>5. CASE open(p) /\ path = 0
  <2>1. content' = Append(content, <<>>) /\ synced' = Append(synced, <<>>) /\ NoLine(<<>>)
    BY <1>5, SMTT(20) DEF open, NoLine
  <2>2. Len(content') = Len(content) + 1 /\ DOMAIN content' = 1..(Len(content) + 1)
    BY <1>2, <2>1
  <2>3. CASE f = Len(content) + 1
    <3>1. content'[f] = <<>> /\ synced'[f] = <<>>
      BY <1>2, <2>1, <2>3
    <3> QED BY <2>1, <3>1, Zenon
  <2>4. CASE f \in DOMAIN content
    <3>1. content'[f] = content[f] /\ synced'[f] = synced[f]
      BY <1>2, <2>1, <2>4
    <3> QED BY <1>2, <2>4, <3>1, Zenon
  <2> QED BY <1>2, <2>2, <2>3, <2>4, SMTT(20)
<1>6. CASE open(p) /\ path # 0
  BY <1>3, <1>6, Zenon DEF open
<1> QED BY <1>3, <1>4, <1>5, <1>6, DataSteps, Zenon

\* A journal of the owner that is under way is not reset.
LEMMA ReadyKept ==
    ASSUME IInv, NEW p \in Procs, Step(p), pc[Owner] = "ready", ~append(p)
    PROVE  acked' = acked
<1> SUFFICES ASSUME acked' # acked PROVE FALSE
  BY Zenon
<1>1. recover(p)
  <2>1. ~(start(p) \/ peek(p) \/ check(p) \/ open(p) \/ lock(p) \/ read(p) \/ header(p) \/ truncate(p))
    BY Zenon DEF start, peek, check, open, lock, read, header, truncate, history
  <2>2. ~(finish(p) \/ release(p) \/ rename(p) \/ mark(p) \/ crash(p))
    BY Zenon DEF finish, release, rename, mark, crash, history
  <2> QED BY <2>1, <2>2, Zenon DEF Step
<1>2. p # Owner /\ pc[p] = "ready" /\ fd[p] = home
  BY <1>1, Zenon DEF recover, reset
<1>3. fd[Owner] = home /\ home # 0 /\ locked[Owner] = fd[Owner] /\ locked[p] = fd[p]
  BY <1>2, ProcsAre, Zenon DEF IInv, OwnerInv, LockInv, Opened, Locking
<1> QED BY <1>2, <1>3, ProcsAre, Zenon DEF IInv, LockInv

LEMMA OwnerRecords ==
    ASSUME IInv, NEW p \in Procs, Step(p), pc'[Owner] = "ready"
    PROVE  records'[Owner] = acked'
<1> USE ProcsAre DEF Goto, Close, Fail, Skip
<1>1. pc \in [Procs -> Labels] /\ records \in [Procs -> Seq(Chunk)] /\ acked \in Seq(Chunk)
  BY Zenon DEF IInv, TypeOK
<1>2. CASE pc[Owner] = "ready" /\ ~append(p)
  <2>1. records[Owner] = acked /\ acked' = acked
    BY <1>2, ReadyKept, Zenon DEF IInv, OwnerInv
  <2>2. CASE p = Owner
    <3>1. finish(p) \/ crash(p)
      BY <1>2, <2>2, Zenon DEF Step, start, peek, check, open, lock, read, header, truncate, recover, release, rename, mark
    <3>2. pc'[p] = "dead"
      BY <1>1, <1>2, <2>2, <3>1, Zenon DEF finish, crash, Restart
    <3> QED BY <2>2, <3>2, Zenon
  <2>3. CASE p # Owner
    BY <2>1, <2>3, OthersKeep, SMTT(20)
  <2> QED BY <2>2, <2>3, Zenon
<1>3. CASE append(p)
  <2>1. p = Owner /\ records[p] = acked
    BY <1>3, AppendWell, SMTT(20) DEF IInv, OwnerInv
  <2>2. CASE acked' = acked /\ records' = records
    BY <2>1, <2>2, Zenon
  <2>3. ASSUME NEW x \in Chunk, acked' = Append(acked, x), records' = [records EXCEPT ![p] = Append(@, x)]
        PROVE  records'[Owner] = acked'
    BY <1>1, <2>1, <2>3, SMTT(20)
  <2> QED BY <1>3, <2>2, <2>3, AppendWell, SMTT(20)
<1>4. CASE pc[Owner] # "ready" /\ ~append(p)
  <2>1. p = Owner
    BY <1>4, OthersKeep, Zenon
  <2>2. header(p) \/ read(p) \/ truncate(p)
    <3>1. ~(start(p) \/ peek(p) \/ check(p) \/ open(p) \/ lock(p) \/ finish(p))
      BY <1>1, <1>4, <2>1, Zenon DEF start, peek, check, open, lock, finish
    <3>2. ~(recover(p) \/ release(p) \/ rename(p) \/ mark(p) \/ crash(p))
      BY <1>1, <1>4, <2>1, Zenon DEF recover, release, rename, mark, Ends, crash, Restart
    <3> QED BY <1>4, <3>1, <3>2, Zenon DEF Step
  <2>3. /\ pc[p] \in {"header", "read", "truncate"} /\ pc[p] \in Opened /\ acked = <<>> /\ acked' = acked
        /\ pc[p] \in Unread \cup {"truncate"}
    BY <2>1, <2>2, Zenon DEF header, read, truncate, history, IInv, OwnerInv, Unread, Opened
  <2>4. content[fd[p]] \in Seq(Chunk) /\ NoLine(content[fd[p]])
    BY <2>1, <2>3, OpenExists, Zenon DEF IInv, OwnerInv
  <2>5. Recovers(content[fd[p]]) => Events(content[fd[p]]) = <<>>
    BY <2>4, NoLineNoEvents, Zenon
  <2>6. CASE header(p)
    <3>1. records' = records /\ records[p] = <<>>
      BY <2>6, Zenon DEF header, IInv, ReadInv, Unread
    <3> QED BY <2>1, <2>3, <3>1, SMTT(20)
  <2>7. CASE truncate(p)
    <3>1. records' = records /\ records[p] = Events(content[fd[p]]) /\ Recovers(content[fd[p]])
      BY <2>7, Zenon DEF truncate, IInv, ReadInv
    <3> QED BY <2>1, <2>3, <2>5, <3>1, Zenon
  <2>8. CASE read(p)
    <3>1. Recovers(content[fd[p]]) /\ records' = [records EXCEPT ![p] = Events(content[fd[p]])]
      BY <1>1, <2>1, <2>8, Zenon DEF read
    <3> QED BY <1>1, <2>1, <2>3, <2>5, <3>1, Zenon
  <2> QED BY <2>2, <2>6, <2>7, <2>8, Zenon
<1> QED BY <1>2, <1>3, <1>4, Zenon

LEMMA OwnerStep ==
    ASSUME IInv, NEW p \in Procs, Step(p)
    PROVE  OwnerInv'
<1>1. pc'[Owner] \in {"start", "check", "open"} => home' = 0
  BY OwnerLabels, HomeSteps, Zenon DEF IInv, OwnerInv
<1>2. home' = 0 =>
          /\ content' = <<>> /\ path' = 0 /\ acked' = <<>>
          /\ pc'[Owner] \in {"start", "check", "open", "failed", "dead"}
          /\ \A q \in Recoverers : pc'[q] \in {"start", "registered"}
  BY BeforeHome, Zenon
<1>3. pc'[Owner] \in Opened => home' # 0 /\ fd'[Owner] = home'
  <2>1. CASE open(p) /\ p = Owner
    BY <2>1, HomeSteps, ProcsAre, Zenon DEF open, IInv, TypeOK
  <2>2. CASE ~(open(p) /\ p = Owner)
    <3> SUFFICES ASSUME pc'[Owner] \in Opened PROVE home' # 0 /\ fd'[Owner] = home'
      BY Zenon
    <3>1. home' = home /\ pc[Owner] \in Opened /\ home # 0 /\ fd[Owner] = home
      BY <2>2, HomeSteps, OwnerLabels, Zenon DEF IInv, OwnerInv
    <3>2. fd'[Owner] = fd[Owner]
      <4>1. CASE p = Owner
        BY <2>2, <4>1, OwnLock, Zenon
      <4>2. CASE p # Owner
        BY <4>2, OthersKeep, ProcsAre, Zenon
      <4> QED BY <4>1, <4>2, Zenon
    <3> QED BY <3>1, <3>2, Zenon
  <2> QED BY <2>1, <2>2, SMTT(20)
<1>4. pc'[Owner] \in Unread \cup {"truncate"} =>
          \A f \in DOMAIN content' : NoLine(content'[f]) /\ NoLine(synced'[f])
  BY NoLineStep, Zenon
<1>5. pc'[Owner] \notin {"ready", "dead"} => acked' = <<>>
  <2> SUFFICES ASSUME pc'[Owner] \notin {"ready", "dead"} PROVE acked' = <<>>
    BY SMTT(20)
  <2>1. pc[Owner] \notin {"ready", "dead"}
    BY OwnerLabels, Zenon
  <2>2. acked = <<>> /\ ~append(p)
    BY <2>1, AppendWell, Zenon DEF IInv, OwnerInv
  <2> QED BY <2>2, AckedSteps, Zenon
<1>6. pc'[Owner] = "ready" => records'[Owner] = acked'
  BY OwnerRecords, Zenon
<1>7. pc'[Owner] \notin {"peek", "release"}
  BY OwnerLabels, Zenon
<1> QED BY <1>1, <1>2, <1>3, <1>4, <1>5, <1>6, <1>7, Zenon DEF OwnerInv

LEMMA HomeExists ==
    ASSUME IInv, home # 0
    PROVE  /\ home \in 1..Len(content) /\ home \in DOMAIN content /\ home \in DOMAIN synced
           /\ content[home] \in Seq(Chunk) /\ synced[home] \in Seq(Chunk)
<1>1. /\ content \in Seq(Seq(Chunk)) /\ synced \in Seq(Seq(Chunk)) /\ Len(synced) = Len(content)
      /\ home \in 0..Len(content)
  BY Zenon DEF IInv, TypeOK, Inode
<1>2. home \in 1..Len(content) /\ home \in 1..Len(synced)
  BY <1>1
<1> QED BY <1>1, <1>2

LEMMA LongerDiffers ==
    ASSUME NEW S, NEW c \in Seq(S), NEW x
    PROVE  Append(c, x) # c
<1>1. Len(Append(c, x)) = Len(c) + 1 /\ Len(c) \in Nat
  OBVIOUS
<1> QED BY <1>1

LEMMA GoodStep ==
    ASSUME IInv, NEW p \in Procs, Step(p)
    PROVE  GoodInv'
<1> SUFFICES ASSUME home' # 0 PROVE Good(acked', content'[home']) /\ Good(acked', synced'[home'])
  BY Zenon DEF GoodInv
<1>1. TypeOK'
  BY TypeStep, Zenon
<1>2. /\ home' \in DOMAIN content' /\ home' \in DOMAIN synced'
      /\ content'[home'] \in Seq(Chunk) /\ synced'[home'] \in Seq(Chunk)
  BY <1>1 DEF TypeOK, Inode
<1>3. CASE acked' = <<>>
  BY <1>2, <1>3, GoodEmpty, Zenon
<1>4. CASE acked' # <<>>
  <2>1. ~(open(p) /\ p = Owner) /\ home' = home
    <3>1. ASSUME open(p), p = Owner PROVE FALSE
      <4>1. acked' = acked /\ pc[Owner] = "open"
        BY <3>1, SMTT(20) DEF open
      <4> QED BY <1>4, <4>1, Zenon DEF IInv, OwnerInv
    <3> QED BY <3>1, HomeSteps, Zenon
  <2>2. /\ Good(acked, content[home]) /\ Good(acked, synced[home]) /\ home \in DOMAIN content
        /\ home \in DOMAIN synced
    BY <2>1, HomeExists, SMTT(20) DEF IInv, GoodInv
  <2>3. CASE UNCHANGED data
    <3>1. ~append(p)
      <4> SUFFICES ASSUME append(p) PROVE FALSE
        BY SMTT(20)
      <4>1. content \in Seq(Seq(Chunk)) /\ fd[p] \in DOMAIN content /\ content[fd[p]] \in Seq(Chunk)
        BY OpenExists, Zenon DEF append, Opened, IInv, TypeOK
      <4>2. PICK x : content' = [content EXCEPT ![fd[p]] = Append(content[fd[p]], x)]
        BY Zenon DEF append, Sync, Write
      <4>3. content'[fd[p]] = Append(content[fd[p]], x)
        BY <4>1, <4>2, Zenon
      <4>4. Append(content[fd[p]], x) # content[fd[p]]
        BY <4>1, LongerDiffers, Zenon
      <4> QED BY <2>3, <4>3, <4>4, Zenon DEF data
    <3>2. acked' = acked
      BY <1>4, <3>1, AckedSteps, Zenon
    <3> QED BY <2>1, <2>2, <2>3, <3>2, SMTT(20) DEF data
  <2>4. CASE open(p)
    <3>1. acked' = acked /\ content \in Seq(Seq(Chunk)) /\ synced \in Seq(Seq(Chunk))
      BY <2>4, Zenon DEF open, IInv, TypeOK
    <3>2. content'[home] = content[home] /\ synced'[home] = synced[home]
      <4>1. CASE path = 0
        <5>1. content' = Append(content, <<>>) /\ synced' = Append(synced, <<>>)
          BY <2>4, <4>1, Zenon DEF open
        <5> QED BY <2>2, <3>1, <5>1
      <4>2. CASE path # 0
        BY <2>4, <4>2, Zenon DEF open, data
      <4> QED BY <4>1, <4>2, Zenon
    <3> QED BY <2>1, <2>2, <3>1, <3>2, Zenon
  <2>5. CASE WritesWell(p)
    <3>1. PICK c \in Seq(Chunk) :
             /\ Writes(p, c) /\ (fd[p] = home => Good(acked', c))
             /\ acked' = acked \/ acked' = <<>> \/ synced' = [synced EXCEPT ![fd[p]] = c]
      BY <2>5, Zenon DEF WritesWell
    <3>2. CASE fd[p] = home
      <4>1. content'[home] = c /\ synced'[home] \in {c, synced[home]} /\ Good(acked', c)
        BY <2>2, <3>1, <3>2, Zenon DEF Writes
      <4>2. synced'[home] = c \/ acked' = acked
        BY <1>4, <2>2, <3>1, <3>2, Zenon DEF Writes
      <4> QED BY <2>1, <2>2, <4>1, <4>2, Zenon
    <3>3. CASE fd[p] # home
      <4>1. content'[home] = content[home] /\ synced'[home] = synced[home]
        BY <2>2, <3>1, <3>3, Zenon DEF Writes
      <4>2. ~append(p)
        BY <3>3, AppendWell, Zenon DEF IInv, OwnerInv, Opened
      <4>3. acked' = acked
        BY <1>4, <4>2, AckedSteps, Zenon
      <4> QED BY <2>1, <2>2, <4>1, <4>3, SMTT(20)
    <3> QED BY <3>2, <3>3, SMTT(20)
  <2> QED BY <2>3, <2>4, <2>5, DataSteps, Zenon
<1> QED BY <1>3, <1>4, Zenon

\* Names change in open, rename and mark only.
LEMMA NameSteps ==
    ASSUME NEW p \in Procs, Step(p), ~open(p), ~rename(p), ~mark(p)
    PROVE  path' = path /\ archive' = archive
<1>1. CASE start(p) \/ peek(p) \/ check(p) \/ lock(p) \/ header(p) \/ read(p) \/ truncate(p) \/ append(p)
  BY <1>1, Zenon DEF start, peek, check, lock, header, read, truncate, append, names
<1>2. CASE finish(p) \/ recover(p) \/ release(p) \/ crash(p)
  BY <1>2, Zenon DEF finish, recover, release, crash, names
<1> QED BY <1>1, <1>2, Zenon DEF Step

\* The history of starts.
LEMMA StartSteps ==
    ASSUME NEW p \in Procs, Step(p)
    PROVE  /\ ~start(p) => orphan' = orphan /\ overlap' = overlap
           /\ ~overlap' => ~overlap
<1>1. CASE start(p)
  BY <1>1, Zenon DEF start
<1>2. CASE ~start(p)
  <2>1. orphan' = orphan /\ overlap' = overlap
    <3>1. CASE peek(p) \/ check(p) \/ open(p) \/ lock(p) \/ header(p) \/ read(p) \/ truncate(p) \/ append(p)
      BY <3>1, Zenon DEF peek, check, open, lock, header, read, truncate, append, history
    <3>2. CASE finish(p) \/ recover(p) \/ release(p) \/ rename(p) \/ mark(p) \/ crash(p)
      BY <3>2, Zenon DEF finish, recover, release, rename, mark, crash, history
    <3> QED BY <1>2, <3>1, <3>2, Zenon DEF Step
  <2> QED BY <2>1, Zenon
<1> QED BY <1>1, <1>2, Zenon

\* A recovering process begins its work in start and comes to mark from rename.
LEMMA RecovererLabels ==
    ASSUME IInv, NEW p \in Recoverers, Step(p)
    PROVE  /\ pc'[p] \notin AtRest => pc[p] \notin AtRest \/ start(p)
           /\ pc'[p] = "mark" => rename(p) /\ path' = 0
<1> USE ProcsAre DEF Goto, Close, Fail, Skip, AtRest
<1>1. pc \in [Procs -> Labels] /\ p \in Procs /\ p # Owner
  BY SMTT(20) DEF IInv, TypeOK
<1>2. CASE start(p) \/ peek(p) \/ check(p) \/ open(p) \/ lock(p)
  BY <1>1, <1>2, Zenon DEF start, peek, check, open, lock
<1>3. CASE header(p) \/ read(p) \/ truncate(p)
  BY <1>1, <1>3, Zenon DEF header, read, truncate
<1>4. CASE finish(p) \/ recover(p) \/ append(p)
  BY <1>1, <1>4, Zenon DEF finish, recover, reset, append
<1>5. CASE crash(p)
  BY <1>1, <1>5, Zenon DEF crash, Restart
<1>6. CASE release(p) \/ rename(p) \/ mark(p)
  BY <1>1, <1>6, Zenon DEF release, rename, mark, Ends
<1> QED BY <1>2, <1>3, <1>4, <1>5, <1>6, Zenon DEF Step

LEMMA KeepStep ==
    ASSUME IInv, NEW p \in Procs, Step(p)
    PROVE  KeepInv'
<1> SUFFICES ASSUME ~overlap'
             PROVE  /\ \A q, r \in Recoverers : pc'[q] \notin AtRest /\ pc'[r] \notin AtRest => q = r
                    /\ pc'[Owner] \in Opened \/ acked' # <<>> =>
                          /\ home' = path' \/ home' \in archive'
                          /\ \A q \in Recoverers : pc'[q] = "mark" => path' = 0
  BY Zenon DEF KeepInv
<1>1. /\ ~overlap
      /\ \A q, r \in Recoverers : pc[q] \notin AtRest /\ pc[r] \notin AtRest => q = r
      /\ pc[Owner] \in Opened \/ acked # <<>> =>
            /\ home = path \/ home \in archive
            /\ \A q \in Recoverers : pc[q] = "mark" => path = 0
  BY StartSteps, Zenon DEF IInv, KeepInv
<1>2. \A q \in Procs : q # p => pc'[q] = pc[q]
  BY OthersKeep, Zenon
<1>3. \A q, r \in Recoverers : pc'[q] \notin AtRest /\ pc'[r] \notin AtRest => q = r
  <2>1. CASE p \notin Recoverers
    BY <1>1, <1>2, <2>1, ProcsAre, Zenon
  <2>2. CASE p \in Recoverers /\ start(p)
    <3>1. \A q \in Recoverers : pc[q] \in AtRest
      BY <2>2, ProcsAre, Zenon DEF start, AtRest
    <3> QED BY <1>2, <3>1, ProcsAre, Zenon
  <2>3. CASE p \in Recoverers /\ ~start(p)
    BY <1>1, <1>2, <2>3, RecovererLabels, ProcsAre, Zenon
  <2> QED BY <2>1, <2>2, <2>3, Zenon
<1>4. ASSUME pc'[Owner] \in Opened \/ acked' # <<>>
      PROVE  /\ home' = path' \/ home' \in archive'
             /\ \A q \in Recoverers : pc'[q] = "mark" => path' = 0
  <2>1. CASE open(p) /\ p = Owner
    <3>1. home' = path' /\ home = 0
      BY <2>1, HomeSteps, OwnerLabels, Zenon DEF IInv, OwnerInv
    <3>2. \A q \in Recoverers : pc'[q] \in {"start", "registered"}
      BY <1>2, <2>1, <3>1, ProcsAre, Zenon DEF IInv, OwnerInv
    <3> QED BY <3>1, <3>2, Zenon
  <2>2. CASE ~(open(p) /\ p = Owner)
    <3>1. pc[Owner] \in Opened \/ acked # <<>>
      BY <1>4, <2>2, OwnerLabels, AckedSteps, AppendWell, Zenon DEF Opened
    <3>2. /\ home' = home /\ home # 0
          /\ home = path \/ home \in archive
          /\ \A q \in Recoverers : pc[q] = "mark" => path = 0
      BY <1>1, <2>2, <3>1, HomeSteps, Zenon DEF IInv, OwnerInv, Opened
    <3>3. CASE ~open(p) /\ ~rename(p) /\ ~mark(p)
      <4>1. path' = path /\ archive' = archive
        BY <3>3, NameSteps, SMTT(20)
      <4>2. \A q \in Recoverers : pc'[q] = "mark" => pc[q] = "mark"
        BY <1>2, <3>3, RecovererLabels, ProcsAre, SMTT(20)
      <4> QED BY <3>2, <4>1, <4>2, Zenon
    <3>4. CASE open(p) /\ p # Owner
      <4>1. p \in Recoverers /\ pc[p] = "open" /\ pc'[p] = "lock" /\ archive' = archive
        BY <3>4, ProcsAre, Zenon DEF open, Goto, IInv, TypeOK
      <4>2. \A q \in Recoverers : pc'[q] # "mark"
        BY <1>1, <1>2, <4>1, ProcsAre, Zenon DEF AtRest
      <4>3. path' = path \/ path = 0
        BY <3>4, Zenon DEF open
      <4> QED BY <3>2, <4>1, <4>2, <4>3, SMTT(20)
    <3>5. CASE rename(p) \/ mark(p)
      <4>1. p # Owner
        <5>1. ASSUME p = Owner PROVE FALSE
          <6>1. acked' = acked /\ pc[Owner] \in {"rename", "mark"} /\ pc'[Owner] \notin Opened
            BY <3>5, <5>1, ProcsAre, Zenon DEF rename, mark, history, Ends, Skip, Goto, Opened, IInv, TypeOK
          <6> QED BY <1>4, <6>1, Zenon DEF IInv, OwnerInv
        <5> QED BY <5>1, Zenon
      <4>2. p \in Recoverers /\ pc[p] \in {"rename", "mark"}
        BY <3>5, <4>1, ProcsAre, Zenon DEF rename, mark
      <4>3. \A q \in Recoverers : q # p => pc'[q] # "mark"
        BY <1>1, <1>2, <4>2, ProcsAre, Zenon DEF AtRest
      <4>4. pc'[p] = "mark" => path' = 0
        BY <4>2, RecovererLabels, Zenon
      <4>5. CASE rename(p)
        <5>1. (path' = path /\ archive' = archive) \/ archive' = archive \cup {path}
          BY <4>5, Zenon DEF rename
        <5> QED BY <3>2, <4>3, <4>4, <5>1, Zenon
      <4>6. CASE mark(p)
        <5>1. path = 0 /\ home \in archive
          BY <3>2, <4>2, <4>6, Zenon DEF mark
        <5>2. \/ path' = path /\ archive' = archive
              \/ path' = moved[p] /\ archive' = archive \ {moved[p]}
          BY <4>6, Zenon DEF mark
        <5> QED BY <3>2, <4>3, <4>4, <5>1, <5>2, Zenon
      <4> QED BY <3>5, <4>5, <4>6, Zenon
    <3> QED BY <2>2, <3>3, <3>4, <3>5, Zenon
  <2> QED BY <2>1, <2>2, Zenon
<1> QED BY <1>3, <1>4, Zenon

LEMMA OrphanStep ==
    ASSUME IInv, NEW p \in Procs, Step(p)
    PROVE  OrphanInv'
<1>1. orphan \subseteq Recoverers /\ (orphan # {} => pc[Owner] \in {"dead", "failed"})
  BY Zenon DEF IInv, TypeOK, OrphanInv
<1>2. \A q \in Procs : q # p => pc'[q] = pc[q] /\ fd'[q] = fd[q]
  BY OthersKeep, Zenon
<1>3. orphan' # {} => pc'[Owner] \in {"dead", "failed"}
  <2>1. CASE start(p) /\ p # Owner
    BY <1>1, <1>2, <2>1, ProcsAre, Zenon DEF start
  <2>2. CASE ~(start(p) /\ p # Owner)
    <3>1. orphan' = orphan
      BY <2>2, StartSteps, Zenon DEF start
    <3> QED BY <1>1, <3>1, OwnerLabels, Zenon
  <2> QED BY <2>1, <2>2, SMTT(20)
<1>4. ASSUME ~overlap', NEW q \in orphan', pc'[q] \in Opened PROVE fd'[q] = path'
  <2>1. CASE q = p
    <3>1. CASE open(p)
      BY <2>1, <3>1, Zenon DEF open, IInv, TypeOK
    <3>2. CASE ~open(p)
      <4>1. pc[p] \in Opened /\ fd'[p] = fd[p]
        BY <1>4, <2>1, <3>2, OwnLock, Zenon DEF lock, Opened, Locking
      <4>2. ~start(p) /\ ~rename(p) /\ ~mark(p)
        BY <4>1, Zenon DEF start, rename, mark, Opened
      <4>3. path' = path /\ q \in orphan /\ ~overlap
        BY <1>4, <3>2, <4>2, NameSteps, StartSteps, Zenon
      <4> QED BY <2>1, <4>1, <4>3, Zenon DEF IInv, OrphanInv
    <3> QED BY <3>1, <3>2, Zenon
  <2>2. CASE q # p
    <3>1. q \in orphan
      BY <1>4, <2>2, StartSteps, Zenon DEF start
    <3>2. q \in Recoverers /\ pc[q] \in Opened /\ fd'[q] = fd[q] /\ ~overlap
      BY <1>1, <1>2, <1>4, <2>2, <3>1, StartSteps, ProcsAre, ZenonT(40)
    <3>3. fd[q] = path
      BY <3>1, <3>2, Zenon DEF IInv, OrphanInv
    <3>4. ~open(p) /\ ~rename(p) /\ ~mark(p)
      <4>1. CASE p = Owner
        BY <1>1, <3>1, <4>1, Zenon DEF open, rename, mark
      <4>2. CASE p # Owner
        <5>1. pc[p] \in AtRest
          BY <2>2, <3>2, <4>2, ProcsAre, Zenon DEF IInv, KeepInv, AtRest, Opened
        <5> QED BY <5>1, Zenon DEF open, rename, mark, AtRest
      <4> QED BY <4>1, <4>2, Zenon
    <3> QED BY <3>2, <3>3, <3>4, NameSteps, Zenon
  <2> QED BY <2>1, <2>2, Zenon
<1> QED BY <1>3, <1>4, Zenon DEF OrphanInv

\* A power loss leaves of each file what Survivors allows and ends every process.
LEMMA PowerLossStep ==
    ASSUME IInv, power_loss
    PROVE  IInv'
<1>1. /\ content \in Seq(Seq(Chunk)) /\ synced \in Seq(Seq(Chunk)) /\ Len(synced) = Len(content)
      /\ path \in Inode /\ home \in Inode /\ archive \subseteq Inode
      /\ acked \in Seq(Chunk) /\ orphan \subseteq Recoverers /\ overlap \in BOOLEAN /\ marker \in BOOLEAN
  BY Zenon DEF IInv, TypeOK
<1>2. \A f \in 1..Len(content) :
          content[f] \in Seq(Chunk) /\ synced[f] \in Seq(Chunk) /\ content'[f] \in Survivors(f)
  <2>1. \A f \in DOMAIN content : content'[f] \in Survivors(f)
    BY Zenon DEF power_loss
  <2>2. /\ DOMAIN content = 1..Len(content)
        /\ \A f \in 1..Len(content) : content[f] \in Seq(Chunk) /\ synced[f] \in Seq(Chunk)
    BY <1>1, SMTT(20)
  <2> QED BY <2>1, <2>2, Zenon
<1>3. \A f \in 1..Len(content) : content'[f] \in Seq(Chunk)
  BY <1>2, SurvivorsGood, Zenon
<1>4. content' \in Seq(Seq(Chunk)) /\ Len(content') = Len(content) /\ synced' = content'
  <2>1. content' = [f \in 1..Len(content) |-> content'[f]]
    BY <1>1 DEF power_loss
  <2>2. Len(content) \in Nat /\ content' \in [1..Len(content) -> Seq(Chunk)] /\ synced' = content'
    BY <1>1, <1>3, <2>1 DEF power_loss
  <2> QED BY <2>2
<1>5. home # 0
  <2>1. ASSUME home = 0 PROVE FALSE
    <3>1. content = <<>>
      BY <2>1, Zenon DEF IInv, OwnerInv
    <3>2. synced = <<>>
      BY <1>1, <3>1, SMTT(20)
    <3> QED BY <3>1, <3>2, Zenon DEF power_loss
  <2> QED BY <2>1, Zenon
<1>6. /\ pc'[Owner] = "dead" /\ \A q \in Recoverers : pc'[q] = "start"
      /\ pc' \in [Procs -> Labels] /\ \A q \in Procs : pc'[q] \in {"start", "dead"}
  BY <1>5, ProcsAre, Zenon DEF power_loss, Restart, IInv, OwnerInv, Labels, AtRest
<1>7. /\ path' = path /\ marker' = marker /\ archive' = archive
      /\ acked' = acked /\ home' = home /\ orphan' = orphan /\ overlap' = overlap
      /\ fd' = [q \in Procs |-> 0] /\ locked' = [q \in Procs |-> 0]
      /\ records' = [q \in Procs |-> <<>>] /\ moved' = [q \in Procs |-> 0]
  BY Zenon DEF power_loss, names, history
<1>8. TypeOK'
  <2>1. Inode' = Inode /\ 0 \in Inode
    BY <1>1, <1>4 DEF Inode
  <2>2. /\ fd' \in [Procs -> Inode'] /\ locked' \in [Procs -> Inode'] /\ moved' \in [Procs -> Inode']
        /\ records' \in [Procs -> Seq(Chunk)]
    BY <1>7, <2>1, SMTT(20)
  <2> QED BY <1>1, <1>4, <1>6, <1>7, <2>1, <2>2, Zenon DEF TypeOK
<1>9. LockInv' /\ ReadInv'
  BY <1>6, <1>7, Zenon DEF LockInv, ReadInv, Opened, Locking
<1>10. OwnerInv'
  BY <1>5, <1>6, <1>7, Zenon DEF OwnerInv, Opened, Unread
<1>11. GoodInv'
  <2>1. home \in 1..Len(content) /\ Good(acked, content[home]) /\ Good(acked, synced[home])
    BY <1>1, <1>5 DEF IInv, GoodInv, Inode
  <2>2. Good(acked, content'[home])
    BY <1>1, <1>2, <2>1, SurvivorsGood, Zenon
  <2> QED BY <1>4, <1>7, <2>2, SMTT(20) DEF GoodInv
<1>12. KeepInv'
  BY <1>6, <1>7, SMTT(20) DEF IInv, KeepInv, AtRest, Opened
<1>13. OrphanInv'
  BY <1>1, <1>6, <1>7, Zenon DEF IInv, OrphanInv, Opened
<1> QED BY <1>8, <1>9, <1>10, <1>11, <1>12, <1>13, Zenon DEF IInv

LEMMA InitIInv == Init => IInv
<1> SUFFICES ASSUME Init PROVE IInv
  BY Zenon
<1>1. TypeOK
  <2>1. /\ content \in Seq(Seq(Chunk)) /\ synced \in Seq(Seq(Chunk)) /\ Len(synced) = Len(content)
        /\ 0 \in Inode /\ acked \in Seq(Chunk) /\ <<>> \in Seq(Chunk)
    BY DEF Init, Inode
  <2>2. path \in Inode /\ home \in Inode /\ archive \subseteq Inode /\ orphan \subseteq Recoverers
    BY <2>1, Zenon DEF Init
  <2>3. /\ pc \in [Procs -> Labels] /\ records \in [Procs -> Seq(Chunk)]
        /\ fd \in [Procs -> Inode] /\ locked \in [Procs -> Inode] /\ moved \in [Procs -> Inode]
    BY <2>1, Zenon DEF Init, Labels, AtRest
  <2>4. overlap \in BOOLEAN /\ marker \in BOOLEAN
    BY Zenon DEF Init
  <2> QED BY <2>1, <2>2, <2>3, <2>4, Zenon DEF TypeOK
<1>2. LockInv /\ ReadInv
  BY ProcsAre, Zenon DEF Init, LockInv, ReadInv, Opened, Locking
<1>3. OwnerInv
  BY ProcsAre DEF Init, OwnerInv, Opened
<1>4. GoodInv /\ KeepInv /\ OrphanInv
  BY ProcsAre, Zenon DEF Init, GoodInv, KeepInv, OrphanInv, AtRest, Opened
<1> QED BY <1>1, <1>2, <1>3, <1>4, Zenon DEF IInv

LEMMA NextIInv == IInv /\ [Next]_vars => IInv'
<1> SUFFICES ASSUME IInv, [Next]_vars PROVE IInv'
  BY Zenon
<1>1. ASSUME NEW p \in Procs, Step(p) PROVE IInv'
  <2>1. TypeOK' /\ LockInv' /\ ReadInv' /\ OwnerInv'
    BY <1>1, TypeStep, LockStep, ReadStep, OwnerStep, Zenon
  <2>2. GoodInv' /\ KeepInv' /\ OrphanInv'
    BY <1>1, GoodStep, KeepStep, OrphanStep, Zenon
  <2> QED BY <2>1, <2>2, Zenon DEF IInv
<1>2. CASE UNCHANGED vars
  <2> USE <1>2 DEF vars, names, data, procs, history
  <2>1. TypeOK' /\ LockInv' /\ KeepInv' /\ OrphanInv'
    BY SMTT(20) DEF IInv, TypeOK, LockInv, KeepInv, OrphanInv, Inode
  <2>2. ReadInv' /\ GoodInv'
    BY Zenon DEF IInv, ReadInv, GoodInv
  <2>3. OwnerInv'
    BY Zenon DEF IInv, OwnerInv
  <2> QED BY <2>1, <2>2, <2>3, SMTT(20) DEF IInv
<1> QED BY <1>1, <1>2, PowerLossStep, Zenon DEF Next

\* The inductive invariant holds in every reachable state.
THEOREM Inductive == Spec => []IInv
BY InitIInv, NextIInv, PTL DEF Spec

--------------------------------------------------------------------------------
(* What it shows. *)

\* The exclusive lock taken in open_for_job and open_existing_job_for_recovery keeps
\* writers apart: two processes never have the same journal open for writing.
THEOREM HasOneWriter == Spec => []SingleWriter
<1>1. IInv => SingleWriter
  BY Zenon DEF IInv, LockInv, SingleWriter, Opened, Locking
<1> QED BY <1>1, Inductive, PTL

\* A record append acknowledged is never silently lost: whatever a crash or a power loss
\* leaves of the owner's file, recover_jsonl refuses it or finds every record acknowledged
\* since the last reset_if_head.
THEOREM KeepsAcked == Spec => []AckedSurvives
<1>1. IInv => AckedSurvives
  <2> SUFFICES ASSUME IInv, home # 0, NEW c \in Survivors(home) \cup {content[home]}, Recovers(c)
               PROVE  Begins(acked, Events(c))
    BY Zenon DEF AckedSurvives
  <2>1. /\ content[home] \in Seq(Chunk) /\ synced[home] \in Seq(Chunk) /\ acked \in Seq(Chunk)
        /\ Good(acked, content[home]) /\ Good(acked, synced[home])
    BY HomeExists, Zenon DEF IInv, TypeOK, GoodInv
  <2>2. Good(acked, c)
    BY <2>1, SurvivorsGood, Zenon
  <2> QED BY <2>2, Zenon DEF Good
<1> QED BY <1>1, Inductive, PTL

\* The journal of unresolved work keeps its name or a quarantine name through every order
\* of renames by quarantine_native_path, while one recovering process at most is at work.
THEOREM KeepsUnresolved == Spec => []UnresolvedIsKept
<1>1. IInv => UnresolvedIsKept
  BY Zenon DEF IInv, KeepInv, UnresolvedIsKept, Unresolved
<1> QED BY <1>1, Inductive, PTL

\* A process that started after the owner's end completes its registration only when the
\* owner's journal is quarantined, on its way there, or whole with every delegation ended.
THEOREM RegistersSafely == Spec => RecoveryQuarantines
<1>1. ASSUME IInv, Next, NEW p \in orphan, pc[p] # "registered", pc'[p] = "registered",
             ~overlap, ~marker', home # 0, path' = home
      PROVE  Recovers(content'[home]) /\ ~Unresolved(Events(content'[home]))
  <2>1. p \in Recoverers /\ p \in Procs /\ p # Owner
    BY <1>1, ProcsAre, Zenon DEF IInv, TypeOK
  <2>2. Step(p)
    <3>1. ~power_loss
      BY <1>1, <2>1, Zenon DEF power_loss, Restart
    <3>2. PICK q \in Procs : Step(q)
      BY <1>1, <3>1, Zenon DEF Next
    <3>3. q = p
      BY <1>1, <2>1, <3>2, OthersKeep, Zenon
    <3> QED BY <3>2, <3>3, Zenon
  <2>3. pc \in [Procs -> Labels] /\ path \in Inode /\ home \in 1..Len(content) /\ content \in Seq(Seq(Chunk))
    BY <1>1 DEF IInv, TypeOK, Inode
  <2>4. recover(p)
    <3>1. ~start(p) /\ ~check(p)
      BY <1>1, <2>1, <2>3 DEF start, check, Skip, Goto, names
    <3>2. ~peek(p) /\ ~open(p) /\ ~lock(p) /\ ~read(p)
      BY <1>1, <2>1, <2>3, Zenon DEF peek, open, lock, read, Goto, Fail
    <3>3. ~header(p) /\ ~truncate(p) /\ ~append(p) /\ ~finish(p) /\ ~crash(p)
      BY <1>1, <2>1, <2>3, Zenon DEF header, truncate, append, finish, crash, Restart, Goto, Fail
    <3>4. ~release(p) /\ ~rename(p) /\ ~mark(p)
      BY <1>1, <2>1, <2>3, Zenon DEF release, rename, mark, Ends, Skip, Goto
    <3> QED BY <2>2, <3>1, <3>2, <3>3, <3>4, Zenon DEF Step
  <2>5. /\ pc[p] = "ready" /\ path' = path /\ fd[p] = home
        /\ Recovers(content[home]) /\ records[p] = Events(content[home])
    BY <1>1, <2>1, <2>4, Zenon DEF recover, names, IInv, OrphanInv, ReadInv, Opened
  <2>6. /\ ~Unresolved(records[p])
        /\ content' = content \/ content' = [content EXCEPT ![home] = <<Header>>]
    BY <1>1, <2>1, <2>3, <2>4, <2>5, Zenon DEF recover, reset, Goto, Fail, Sync, Write, data
  <2>7. Recovers(<<Header>>) /\ ~Unresolved(Events(<<Header>>))
    BY EventsHeader, Zenon DEF Unresolved, Recovers, HeaderOk
  <2>8. content'[home] = content[home] \/ content'[home] = <<Header>>
    <3>1. home \in DOMAIN content
      BY <2>3
    <3> QED BY <2>6, <3>1, Zenon
  <2> QED BY <2>5, <2>6, <2>7, <2>8, Zenon
<1>2. ASSUME IInv, [Next]_vars
      PROVE  [\A p \in orphan :
                pc[p] # "registered" /\ pc'[p] = "registered" =>
                    \/ overlap \/ marker'
                    \/ home = 0 \/ path' # home
                    \/ Recovers(content'[home]) /\ ~Unresolved(Events(content'[home]))]_vars
  BY <1>1, <1>2, Zenon
<1> QED BY <1>2, Inductive, PTL DEF Spec, RecoveryQuarantines

================================================================================
