---------------------------- MODULE ServerProofs ----------------------------
(***************************************************************************)
(* Proofs about the front end.  The inductive invariant says of every      *)
(* reader where it is: idle in one place of one pool, or in the hands of   *)
(* the one goroutine that has it between Get and Put.                      *)
(***************************************************************************)
EXTENDS Server, TLAPS

TypeOK ==
  /\ protocol \in {WebsocketProtocol, TCPProtocol}
  /\ running \in BOOLEAN
  /\ taken \in Conn \cup {Nil}
  /\ round \in Instance
  /\ pool \in [Instance -> Seq(Reader)]
  /\ made \in SUBSET Reader
  /\ source \in [Reader -> Conn \cup {Nil}]
  /\ left \in [Reader -> SUBSET Conn]
  /\ pc \in [Conn -> PCState]
  /\ idx \in [Conn -> Instance]
  /\ rd \in [Conn -> Reader \cup {Nil}]
  /\ sock \in [Conn -> {"none", "open", "closed"}]

\* No reader is idle in two places.
Distinct ==
  \A i, j \in Instance : \A m \in 1..Len(pool[i]), n \in 1..Len(pool[j]) :
    pool[i][m] = pool[j][n] => i = j /\ m = n

Bounded == \A i \in Instance : Len(pool[i]) <= ReadBufNumPerInst

\* A reader in use is its goroutine's alone, and bound to its connection.
Held ==
  /\ \A c \in Conn : rd[c] # Nil <=> pc[c] \in {"parse", "put"}
  /\ \A c \in Conn : rd[c] # Nil => /\ rd[c] \in made /\ source[rd[c]] = c
                                    /\ left[rd[c]] \subseteq {c}
                                    /\ pc[c] = "parse" => left[rd[c]] = {}
  /\ \A c, d \in Conn : rd[c] # Nil /\ rd[c] = rd[d] => c = d

\* An idle reader is nobody's, and reset.
Idle ==
  \A i \in Instance, r \in Reader : Pooled(i, r) =>
    /\ r \in made /\ source[r] = Nil /\ left[r] = {}
    /\ \A c \in Conn : rd[c] # r

ReaderInv == TypeOK /\ Distinct /\ Bounded /\ Held /\ Idle

\* A connection has no goroutine before the accept loop has set it up.
Fresh ==
  /\ taken # Nil => pc[taken] = "init" /\ sock[taken] = "open"
  /\ \A c \in Conn : sock[c] = "none" => pc[c] = "init"

IndInv == ReaderInv /\ Fresh

-----------------------------------------------------------------------------
\* What taking the first reader out of a pool leaves.
LEMMA TakeEffect ==
  ASSUME TypeOK, Distinct, Bounded, NEW i \in Instance, pool[i] # <<>>,
         pool' = [pool EXCEPT ![i] = Tail(pool[i])]
  PROVE  /\ Head(pool[i]) \in Reader /\ Pooled(i, Head(pool[i]))
         /\ pool' \in [Instance -> Seq(Reader)]
         /\ Distinct' /\ Bounded'
         /\ \A j \in Instance, r \in Reader :
              Pooled(j, r)' => Pooled(j, r) /\ r # Head(pool[i])
<1>1. /\ pool[i] \in Seq(Reader) /\ Len(pool[i]) \in Nat /\ Len(pool[i]) >= 1
      /\ Head(pool[i]) = pool[i][1] /\ pool[i][1] \in Reader
      /\ Tail(pool[i]) \in Seq(Reader) /\ Len(Tail(pool[i])) = Len(pool[i]) - 1
      /\ \A n \in 1..(Len(pool[i]) - 1) : Tail(pool[i])[n] = pool[i][n + 1]
  BY DEF TypeOK
<1>2. /\ pool' \in [Instance -> Seq(Reader)] /\ pool'[i] = Tail(pool[i])
      /\ \A j \in Instance : j # i => pool'[j] = pool[j]
  BY <1>1 DEF TypeOK
<1>3. \A j \in Instance : Len(pool[j]) \in Nat
  BY DEF TypeOK
<1>. DEFINE Was(j, n) == IF j = i THEN n + 1 ELSE n
<1>4. \A j \in Instance : \A n \in 1..Len(pool'[j]) :
        /\ n \in Nat /\ Was(j, n) \in 1..Len(pool[j])
        /\ pool'[j][n] = pool[j][Was(j, n)] /\ (j = i => Was(j, n) # 1)
  <2>. SUFFICES ASSUME NEW j \in Instance, NEW n \in 1..Len(pool'[j])
                PROVE  /\ n \in Nat /\ Was(j, n) \in 1..Len(pool[j])
                       /\ pool'[j][n] = pool[j][Was(j, n)] /\ (j = i => Was(j, n) # 1)
    OBVIOUS
  <2>1. CASE j = i
    BY <1>1, <1>2, <2>1
  <2>2. CASE j # i
    BY <1>2, <1>3, <2>2
  <2>. QED
    BY <2>1, <2>2
<1>5. \A j \in Instance : \A m \in Nat, n \in Nat : Was(j, m) = Was(j, n) => m = n
  OBVIOUS
<1>. HIDE DEF Was
<1>6. Distinct'
  <2>. SUFFICES ASSUME NEW j \in Instance, NEW k \in Instance, NEW m \in 1..Len(pool'[j]),
                       NEW n \in 1..Len(pool'[k]), pool'[j][m] = pool'[k][n]
                PROVE  j = k /\ m = n
    BY DEF Distinct
  <2>1. j = k /\ Was(j, m) = Was(k, n)
    BY <1>4 DEF Distinct
  <2>. QED
    BY <1>4, <1>5, <2>1
<1>7. Bounded'
  BY <1>1, <1>2, <1>3, ServerAssumption DEF Bounded
<1>8. ASSUME NEW j \in Instance, NEW r \in Reader, Pooled(j, r)'
      PROVE  Pooled(j, r) /\ r # Head(pool[i])
  <2>1. PICK n \in 1..Len(pool'[j]) : pool'[j][n] = r
    BY <1>8 DEF Pooled
  <2>2. Was(j, n) \in 1..Len(pool[j]) /\ pool[j][Was(j, n)] = r /\ (j = i => Was(j, n) # 1)
    BY <1>4, <2>1
  <2>3. 1 \in 1..Len(pool[i])
    BY <1>1
  <2>. QED
    BY <1>1, <2>2, <2>3 DEF Pooled, Distinct
<1>9. Pooled(i, Head(pool[i]))
  BY <1>1 DEF Pooled
<1>. QED
  BY <1>1, <1>2, <1>6, <1>7, <1>8, <1>9

\* What putting a reader that is not idle into a pool with room makes.
LEMMA AppendEffect ==
  ASSUME TypeOK, Distinct, Bounded, NEW i \in Instance, NEW r \in Reader,
         \A j \in Instance : ~Pooled(j, r), Len(pool[i]) < ReadBufNumPerInst,
         pool' = [pool EXCEPT ![i] = Append(pool[i], r)]
  PROVE  /\ pool' \in [Instance -> Seq(Reader)]
         /\ Distinct' /\ Bounded'
         /\ \A j \in Instance, s \in Reader : Pooled(j, s)' => Pooled(j, s) \/ s = r
<1>1. /\ pool[i] \in Seq(Reader) /\ Len(pool[i]) \in Nat
      /\ Append(pool[i], r) \in Seq(Reader)
      /\ Len(Append(pool[i], r)) = Len(pool[i]) + 1
      /\ \A n \in 1..Len(pool[i]) : Append(pool[i], r)[n] = pool[i][n]
      /\ Append(pool[i], r)[Len(pool[i]) + 1] = r
  BY DEF TypeOK
<1>2. /\ pool' \in [Instance -> Seq(Reader)] /\ pool'[i] = Append(pool[i], r)
      /\ \A j \in Instance : j # i => pool'[j] = pool[j]
  BY <1>1 DEF TypeOK
<1>3. \A j \in Instance : \A n \in 1..Len(pool'[j]) :
        \/ n \in 1..Len(pool[j]) /\ pool'[j][n] = pool[j][n]
        \/ j = i /\ n = Len(pool[i]) + 1 /\ pool'[j][n] = r
  <2>. SUFFICES ASSUME NEW j \in Instance, NEW n \in 1..Len(pool'[j])
                PROVE  \/ n \in 1..Len(pool[j]) /\ pool'[j][n] = pool[j][n]
                       \/ j = i /\ n = Len(pool[i]) + 1 /\ pool'[j][n] = r
    OBVIOUS
  <2>1. CASE j = i
    BY <1>1, <1>2, <2>1
  <2>2. CASE j # i
    BY <1>2, <2>2
  <2>. QED
    BY <2>1, <2>2
<1>4. Distinct'
  <2>. SUFFICES ASSUME NEW j \in Instance, NEW k \in Instance, NEW m \in 1..Len(pool'[j]),
                       NEW n \in 1..Len(pool'[k]), pool'[j][m] = pool'[k][n]
                PROVE  j = k /\ m = n
    BY DEF Distinct
  <2>1. \A l \in Instance : \A p \in 1..Len(pool[l]) : pool[l][p] # r
    BY DEF Pooled
  <2>. QED
    BY <1>3, <2>1 DEF Distinct
<1>5. Bounded'
  <2>. SUFFICES ASSUME NEW j \in Instance
                PROVE  Len(pool'[j]) <= ReadBufNumPerInst
    BY DEF Bounded
  <2>1. CASE j = i
    BY <1>1, <1>2, <2>1, ServerAssumption
  <2>2. CASE j # i
    BY <1>2, <2>2 DEF Bounded
  <2>. QED
    BY <2>1, <2>2
<1>6. ASSUME NEW j \in Instance, NEW s \in Reader, Pooled(j, s)'
      PROVE  Pooled(j, s) \/ s = r
  <2>1. PICK n \in 1..Len(pool'[j]) : pool'[j][n] = s
    BY <1>6 DEF Pooled
  <2>. QED
    BY <1>3, <2>1 DEF Pooled
<1>. QED
  BY <1>2, <1>4, <1>5, <1>6

-----------------------------------------------------------------------------
\* round stays below the number of pools.
LEMMA RoundInRange == round \in Instance => NextRound \in Instance
  BY ServerAssumption DEF Instance, NextRound

\* A step of anyone who has no reader in hand, at which nobody gets one.
LEMMA QuietStep ==
  ASSUME ReaderInv, UNCHANGED poolVars,
         \A c \in Conn : \/ rd'[c] = rd[c] /\ pc'[c] = pc[c]
                        \/ /\ rd'[c] = Nil /\ pc'[c] \notin {"parse", "put"}
  PROVE  Distinct' /\ Bounded' /\ Held' /\ Idle'
<1>1. pool' = pool /\ made' = made /\ source' = source /\ left' = left
  BY DEF poolVars
<1>2. Distinct' /\ Bounded'
  BY <1>1 DEF ReaderInv, Distinct, Bounded
<1>3. Held'
  BY <1>1 DEF ReaderInv, Held
<1>4. Idle'
  <2>. SUFFICES ASSUME NEW i \in Instance, NEW r \in Reader, Pooled(i, r)'
                PROVE  /\ r \in made' /\ source'[r] = Nil /\ left'[r] = {}
                       /\ \A c \in Conn : rd'[c] # r
    BY DEF Idle
  <2>1. Pooled(i, r)
    BY <1>1 DEF Pooled
  <2>. QED
    BY <1>1, <2>1, ServerAssumption DEF ReaderInv, Idle
<1>. QED
  BY <1>2, <1>3, <1>4

\* A reader changes hands from the pool, or is made for the connection.
LEMMA GetStep == \A c \in Conn : ReaderInv /\ GetReader(c) => ReaderInv'
<1>. SUFFICES ASSUME NEW c \in Conn, ReaderInv, GetReader(c)
              PROVE  ReaderInv'
  OBVIOUS
<1>0. TypeOK /\ Distinct /\ Bounded /\ Held /\ Idle
  BY DEF ReaderInv
<1>1. PICK r \in Reader : Get(idx[c], r, c) /\ rd' = [rd EXCEPT ![c] = r]
  BY DEF GetReader
<1>2. /\ idx[c] \in Instance /\ r # Nil /\ c # Nil
      /\ pc[c] = "get" /\ rd[c] = Nil
      /\ pc' = [pc EXCEPT ![c] = "parse"]
      /\ source' = [source EXCEPT ![r] = c] /\ left' = [left EXCEPT ![r] = {}]
      /\ UNCHANGED <<protocol, running, taken, round, idx, sock>>
  <2>1. pc[c] = "get" /\ idx[c] \in Instance /\ rd[c] = Nil
    BY <1>0 DEF GetReader, TypeOK, Held
  <2>2. r # Nil /\ c # Nil
    BY ServerAssumption
  <2>. QED
    BY <1>1, <2>1, <2>2 DEF GetReader, Get
<1>3. /\ pool' \in [Instance -> Seq(Reader)] /\ Distinct' /\ Bounded'
      /\ \A j \in Instance, s \in Reader : Pooled(j, s)' => Pooled(j, s) /\ s # r
      /\ \A d \in Conn : rd[d] # r
      /\ r \in made' /\ made \subseteq made' /\ made' \subseteq Reader
  <2>1. CASE /\ pool[idx[c]] # <<>> /\ r = Head(pool[idx[c]])
             /\ pool' = [pool EXCEPT ![idx[c]] = Tail(@)]
             /\ UNCHANGED made
    <3>1. /\ Pooled(idx[c], r) /\ pool' \in [Instance -> Seq(Reader)]
          /\ Distinct' /\ Bounded'
          /\ \A j \in Instance, s \in Reader : Pooled(j, s)' => Pooled(j, s) /\ s # r
      BY <1>0, <1>2, <2>1, TakeEffect
    <3>. QED
      BY <1>0, <1>2, <2>1, <3>1 DEF Idle, TypeOK
  <2>2. CASE pool' = pool /\ r \in Reader \ made /\ made' = made \cup {r}
    <3>1. \A j \in Instance, s \in Reader : Pooled(j, s)' => Pooled(j, s) /\ s # r
      BY <1>0, <2>2 DEF Pooled, Idle
    <3>2. Distinct' /\ Bounded' /\ pool' \in [Instance -> Seq(Reader)]
      BY <1>0, <2>2 DEF Distinct, Bounded, TypeOK
    <3>. QED
      BY <1>0, <1>2, <2>2, <3>1, <3>2 DEF Held, TypeOK
  <2>. QED
    BY <1>1, <2>1, <2>2 DEF Get
<1>4. /\ \A d \in Conn : d # c => rd'[d] = rd[d] /\ pc'[d] = pc[d]
      /\ rd'[c] = r /\ pc'[c] = "parse"
      /\ source'[r] = c /\ left'[r] = {}
      /\ \A s \in Reader : s # r => source'[s] = source[s] /\ left'[s] = left[s]
  BY <1>0, <1>1, <1>2 DEF TypeOK
<1>5. TypeOK'
  BY <1>0, <1>1, <1>2, <1>3 DEF TypeOK, PCState
<1>6. Held'
  <2>1. ASSUME NEW d \in Conn
        PROVE  /\ rd'[d] # Nil <=> pc'[d] \in {"parse", "put"}
               /\ rd'[d] # Nil => /\ rd'[d] \in made' /\ source'[rd'[d]] = d
                                  /\ left'[rd'[d]] \subseteq {d}
                                  /\ pc'[d] = "parse" => left'[rd'[d]] = {}
    <3>1. CASE d = c
      BY <1>2, <1>3, <1>4, <3>1
    <3>2. CASE d # c
      BY <1>0, <1>3, <1>4, <3>2 DEF Held, TypeOK
    <3>. QED
      BY <3>1, <3>2
  <2>2. \A d, e \in Conn : rd'[d] # Nil /\ rd'[d] = rd'[e] => d = e
    BY <1>0, <1>3, <1>4 DEF Held
  <2>. QED
    BY <2>1, <2>2 DEF Held
<1>7. Idle'
  <2>. SUFFICES ASSUME NEW i \in Instance, NEW s \in Reader, Pooled(i, s)'
                PROVE  /\ s \in made' /\ source'[s] = Nil /\ left'[s] = {}
                       /\ \A d \in Conn : rd'[d] # s
    BY DEF Idle
  <2>1. Pooled(i, s) /\ s # r
    BY <1>3
  <2>. QED
    BY <1>0, <1>3, <1>4, <2>1 DEF Idle
<1>. QED
  BY <1>3, <1>5, <1>6, <1>7 DEF ReaderInv

\* The reader goes back, or is dropped when the pool is full.
LEMMA PutStep == \A c \in Conn : ReaderInv /\ PutReader(c) => ReaderInv'
<1>. SUFFICES ASSUME NEW c \in Conn, ReaderInv, PutReader(c)
              PROVE  ReaderInv'
  OBVIOUS
<1>0. TypeOK /\ Distinct /\ Bounded /\ Held /\ Idle
  BY DEF ReaderInv
<1>. DEFINE r == rd[c]
            i == idx[c]
<1>1. /\ i \in Instance /\ r \in Reader /\ r \in made /\ r # Nil
      /\ \A d \in Conn : d # c => rd[d] # r
      /\ \A j \in Instance : ~Pooled(j, r)
  BY <1>0 DEF PutReader, TypeOK, Held, Idle
<1>2. /\ source' = [source EXCEPT ![r] = Nil] /\ left' = [left EXCEPT ![r] = {}]
      /\ made' = made /\ rd' = [rd EXCEPT ![c] = Nil]
      /\ \E s \in {"serve", "close"} : pc' = [pc EXCEPT ![c] = s]
      /\ UNCHANGED <<protocol, running, taken, round, idx, sock>>
  BY DEF PutReader, Put
<1>3. /\ pool' \in [Instance -> Seq(Reader)] /\ Distinct' /\ Bounded'
      /\ \A j \in Instance, s \in Reader : Pooled(j, s)' => Pooled(j, s) \/ s = r
  <2>1. CASE Len(pool[i]) < ReadBufNumPerInst
    <3>1. pool' = [pool EXCEPT ![i] = Append(pool[i], r)]
      BY <2>1 DEF PutReader, Put
    <3>. HIDE DEF r, i
    <3>. QED
      BY <1>0, <1>1, <2>1, <3>1, AppendEffect
  <2>2. CASE ~(Len(pool[i]) < ReadBufNumPerInst)
    <3>1. pool' = pool
      BY <2>2 DEF PutReader, Put
    <3>. QED
      BY <1>0, <3>1 DEF TypeOK, Distinct, Bounded, Pooled
  <2>. QED
    BY <2>1, <2>2
<1>. HIDE DEF r, i
<1>4. /\ \A d \in Conn : d # c => rd'[d] = rd[d] /\ pc'[d] = pc[d]
      /\ rd'[c] = Nil /\ pc'[c] \in {"serve", "close"}
      /\ source'[r] = Nil /\ left'[r] = {}
      /\ \A s \in Reader : s # r => source'[s] = source[s] /\ left'[s] = left[s]
  BY <1>0, <1>1, <1>2 DEF TypeOK
<1>5. TypeOK'
  BY <1>0, <1>1, <1>2, <1>3 DEF TypeOK, PCState
<1>6. Held'
  <2>1. ASSUME NEW d \in Conn
        PROVE  /\ rd'[d] # Nil <=> pc'[d] \in {"parse", "put"}
               /\ rd'[d] # Nil => /\ rd'[d] \in made' /\ source'[rd'[d]] = d
                                  /\ left'[rd'[d]] \subseteq {d}
                                  /\ pc'[d] = "parse" => left'[rd'[d]] = {}
    <3>1. CASE d = c
      BY <1>4, <3>1
    <3>2. CASE d # c
      BY <1>0, <1>1, <1>2, <1>4, <3>2 DEF Held, TypeOK
    <3>. QED
      BY <3>1, <3>2
  <2>2. \A d, e \in Conn : rd'[d] # Nil /\ rd'[d] = rd'[e] => d = e
    BY <1>0, <1>4 DEF Held
  <2>. QED
    BY <2>1, <2>2 DEF Held
<1>7. Idle'
  <2>. SUFFICES ASSUME NEW j \in Instance, NEW s \in Reader, Pooled(j, s)'
                PROVE  /\ s \in made' /\ source'[s] = Nil /\ left'[s] = {}
                       /\ \A d \in Conn : rd'[d] # s
    BY DEF Idle
  <2>1. CASE s = r
    <3>1. \A d \in Conn : rd'[d] # r
      BY <1>1, <1>4
    <3>. QED
      BY <1>1, <1>2, <1>4, <2>1, <3>1
  <2>2. CASE s # r
    <3>1. Pooled(j, s)
      BY <1>3, <2>2
    <3>2. s \in made /\ source[s] = Nil /\ left[s] = {} /\ \A d \in Conn : rd[d] # s
      BY <1>0, <3>1 DEF Idle
    <3>3. \A d \in Conn : rd'[d] # s
      BY <1>4, <3>2, ServerAssumption
    <3>. QED
      BY <1>2, <1>4, <2>2, <3>2, <3>3
  <2>. QED
    BY <2>1, <2>2
<1>. QED
  BY <1>3, <1>5, <1>6, <1>7 DEF ReaderInv

\* parseCmd leaves bytes of its own connection in the reader.
LEMMA ParseStep == \A c \in Conn : ReaderInv /\ ParseCmd(c) => ReaderInv'
<1>. SUFFICES ASSUME NEW c \in Conn, ReaderInv, ParseCmd(c)
              PROVE  ReaderInv'
  OBVIOUS
<1>0. TypeOK /\ Distinct /\ Bounded /\ Held /\ Idle
  BY DEF ReaderInv
<1>1. /\ rd[c] \in Reader /\ rd[c] # Nil /\ source[rd[c]] = c /\ pc[c] = "parse"
      /\ left[rd[c]] = {}
  BY <1>0 DEF ParseCmd, TypeOK, Held
<1>2. PICK W \in {{}, {c}} : left' = [left EXCEPT ![rd[c]] = W]
  BY <1>1 DEF ParseCmd
<1>3. /\ pc' = [pc EXCEPT ![c] = "put"]
      /\ UNCHANGED <<protocol, running, taken, round, pool, made, source, idx, rd, sock>>
  BY DEF ParseCmd
<1>4. /\ \A d \in Conn : d # c => pc'[d] = pc[d]
      /\ pc'[c] = "put" /\ left'[rd[c]] \subseteq {c}
      /\ \A s \in Reader : s # rd[c] => left'[s] = left[s]
  BY <1>0, <1>1, <1>2, <1>3 DEF TypeOK
<1>5. TypeOK'
  BY <1>0, <1>1, <1>2, <1>3 DEF TypeOK, PCState
<1>6. Distinct' /\ Bounded'
  BY <1>0, <1>3 DEF Distinct, Bounded
<1>7. Held'
  <2>1. ASSUME NEW d \in Conn
        PROVE  /\ rd[d] # Nil <=> pc'[d] \in {"parse", "put"}
               /\ rd[d] # Nil => /\ rd[d] \in made /\ source[rd[d]] = d
                                 /\ left'[rd[d]] \subseteq {d}
                                 /\ pc'[d] = "parse" => left'[rd[d]] = {}
    <3>1. CASE d = c
      BY <1>0, <1>1, <1>4, <3>1 DEF Held
    <3>2. CASE d # c
      <4>1. rd[d] # Nil => rd[d] # rd[c] /\ rd[d] \in Reader
        BY <1>0, <1>1, <3>2 DEF Held, TypeOK
      <4>. QED
        BY <1>0, <1>4, <3>2, <4>1 DEF Held
    <3>. QED
      BY <3>1, <3>2
  <2>. QED
    BY <1>0, <1>3, <2>1 DEF Held
<1>8. Idle'
  BY <1>0, <1>1, <1>3, <1>4 DEF Idle, Pooled
<1>. QED
  BY <1>5, <1>6, <1>7, <1>8 DEF ReaderInv

\* Nobody but the accept loop moves a goroutine out of "init".
LEMMA FreshStep == IndInv /\ [Next]_vars => Fresh'
<1>. SUFFICES ASSUME IndInv, [Next]_vars
              PROVE  Fresh'
  OBVIOUS
<1>0. TypeOK /\ Fresh
  BY DEF IndInv, ReaderInv
<1>1. CASE UNCHANGED vars \/ Terminated
  BY <1>0, <1>1 DEF Terminated, vars, connVars, Fresh
<1>2. ASSUME NEW c \in Conn, Accept(c)
      PROVE  Fresh'
  <2>1. pc' = pc /\ taken' = c /\ sock[c] = "none" /\ sock' = [sock EXCEPT ![c] = "open"]
    BY <1>2 DEF Accept, connVars
  <2>. QED
    BY <1>0, <2>1 DEF Fresh, TypeOK
<1>3. CASE Start \/ StartHttp
  <2>1. /\ taken \in Conn /\ taken' = Nil /\ sock' = sock
        /\ \A d \in Conn : d # taken => pc'[d] = pc[d]
    BY <1>0, <1>3 DEF Start, StartHttp, TypeOK
  <2>2. sock[taken] # "none"
    BY <1>0, <2>1, ServerAssumption DEF Fresh
  <2>. QED
    BY <1>0, <2>1, <2>2 DEF Fresh
<1>4. CASE OptionFails
  <2>1. /\ taken \in Conn /\ taken' = Nil /\ pc' = pc
        /\ sock' = [sock EXCEPT ![taken] = "closed"]
    BY <1>0, <1>4 DEF OptionFails, TypeOK, connVars
  <2>. QED
    BY <1>0, <2>1 DEF Fresh, TypeOK
<1>5. CASE ProcessEnds
  BY <1>0, <1>5 DEF ProcessEnds, Fresh
<1>6. ASSUME NEW c \in Conn,
             GetReader(c) \/ ParseCmd(c) \/ PutReader(c) \/ Serve(c) \/ Close(c)
      PROVE  Fresh'
  <2>1. /\ pc[c] # "init" /\ taken' = taken
        /\ \A d \in Conn : d # c => pc'[d] = pc[d]
    BY <1>0, <1>6 DEF GetReader, ParseCmd, PutReader, Serve, Close, TypeOK
  <2>2. sock' = sock \/ sock' = [sock EXCEPT ![c] = "closed"]
    BY <1>6 DEF GetReader, ParseCmd, PutReader, Serve, Close
  <2>3. \A d \in Conn : d # c => sock'[d] = sock[d]
    BY <1>0, <2>2 DEF TypeOK
  <2>4. sock'[c] # "none" /\ taken # c
    BY <1>0, <2>1, <2>2, ServerAssumption DEF Fresh, TypeOK
  <2>. QED
    BY <1>0, <2>1, <2>3, <2>4, ServerAssumption DEF Fresh, TypeOK
<1>. QED
  BY <1>1, <1>2, <1>3, <1>4, <1>5, <1>6 DEF Next, SetUp, Stop, AcceptFails, ParsePanics

(***************************************************************************)
(* Readers are where the invariant says in every reachable state.          *)
(***************************************************************************)
THEOREM ServerInvariance == Spec => []IndInv
<1>1. Init => IndInv
  <2>. SUFFICES ASSUME Init
                PROVE  IndInv
    OBVIOUS
  <2>1. TypeOK
    BY ServerAssumption DEF Init, TypeOK, PCState, Instance
  <2>2. Distinct /\ Bounded /\ Idle
    BY ServerAssumption DEF Init, Distinct, Bounded, Idle, Pooled
  <2>3. Held
    BY DEF Init, Held
  <2>4. Fresh
    BY DEF Init, Fresh
  <2>. QED
    BY <2>1, <2>2, <2>3, <2>4 DEF IndInv, ReaderInv
<1>2. IndInv /\ [Next]_vars => IndInv'
  <2>. SUFFICES ASSUME IndInv, [Next]_vars
                PROVE  ReaderInv'
    BY FreshStep DEF IndInv
  <2>. ReaderInv
    BY DEF IndInv
  <2>0. TypeOK
    BY DEF ReaderInv
  <2>1. CASE UNCHANGED vars \/ Terminated
    <3>1. TypeOK'
      BY <2>0, <2>1 DEF Terminated, vars, poolVars, connVars, TypeOK
    <3>2. UNCHANGED poolVars /\ UNCHANGED connVars
      BY <2>1 DEF Terminated, vars
    <3>3. \A c \in Conn : rd'[c] = rd[c] /\ pc'[c] = pc[c]
      BY <3>2 DEF connVars
    <3>. QED
      BY <3>1, <3>2, <3>3, QuietStep DEF ReaderInv
  <2>2. ASSUME NEW c \in Conn, Accept(c)
        PROVE  ReaderInv'
    <3>1. TypeOK'
      BY <2>0, <2>2 DEF Accept, poolVars, connVars, TypeOK
    <3>2. UNCHANGED poolVars /\ \A d \in Conn : rd'[d] = rd[d] /\ pc'[d] = pc[d]
      BY <2>2 DEF Accept, connVars
    <3>. QED
      BY <3>1, <3>2, QuietStep DEF ReaderInv
  <2>3. CASE OptionFails
    <3>1. TypeOK'
      BY <2>0, <2>3 DEF OptionFails, poolVars, connVars, TypeOK
    <3>2. UNCHANGED poolVars /\ \A d \in Conn : rd'[d] = rd[d] /\ pc'[d] = pc[d]
      BY <2>3 DEF OptionFails, connVars
    <3>. QED
      BY <3>1, <3>2, QuietStep DEF ReaderInv
  <2>4. CASE Start \/ StartHttp
    <3>1. TypeOK'
      BY <2>0, <2>4, RoundInRange DEF Start, StartHttp, poolVars, TypeOK, PCState
    <3>2. UNCHANGED poolVars /\ UNCHANGED rd
      BY <2>4 DEF Start, StartHttp
    <3>3. taken \in Conn /\ pc'[taken] \in {"get", "serve", "close"}
      BY <2>0, <2>4 DEF Start, StartHttp, TypeOK
    <3>4. \A d \in Conn : d # taken => pc'[d] = pc[d]
      BY <2>0, <2>4 DEF Start, StartHttp, TypeOK
    <3>5. rd[taken] = Nil
      <4>1. taken # Nil
        BY <2>4 DEF Start, StartHttp
      <4>. QED
        BY <3>3, <4>1 DEF IndInv, ReaderInv, Fresh, Held
    <3>. QED
      BY <3>1, <3>2, <3>3, <3>4, <3>5, QuietStep DEF ReaderInv
  <2>5. CASE ProcessEnds
    <3>1. TypeOK'
      BY <2>0, <2>5 DEF ProcessEnds, poolVars, TypeOK, PCState
    <3>2. UNCHANGED poolVars
      BY <2>5 DEF ProcessEnds
    <3>3. \A d \in Conn : rd'[d] = Nil /\ pc'[d] \notin {"parse", "put"}
      BY <2>5 DEF ProcessEnds
    <3>. QED
      BY <3>1, <3>2, <3>3, QuietStep DEF ReaderInv
  <2>6. ASSUME NEW c \in Conn, Serve(c) \/ Close(c)
        PROVE  ReaderInv'
    <3>1. TypeOK'
      BY <2>0, <2>6 DEF Serve, Close, poolVars, TypeOK, PCState
    <3>2. UNCHANGED poolVars /\ UNCHANGED rd
      BY <2>6 DEF Serve, Close
    <3>3. pc'[c] \in {"close", "done"} /\ rd[c] = Nil
      <4>1. pc'[c] \in {"close", "done"} /\ pc[c] \in {"serve", "close"}
        BY <2>0, <2>6 DEF Serve, Close, TypeOK
      <4>. QED
        BY <4>1 DEF ReaderInv, Held
    <3>4. \A d \in Conn : d # c => pc'[d] = pc[d]
      BY <2>0, <2>6 DEF Serve, Close, TypeOK
    <3>. QED
      BY <3>1, <3>2, <3>3, <3>4, QuietStep DEF ReaderInv
  <2>. QED
    BY <2>1, <2>2, <2>3, <2>4, <2>5, <2>6, GetStep, ParseStep, PutStep
       DEF Next, SetUp, Stop, AcceptFails, ParsePanics
<1>. QED
  BY <1>1, <1>2, PTL DEF Spec

\* What the invariant says of the three properties.
LEMMA InvariantSuffices == IndInv => ReaderExclusive /\ OwnBytes /\ PoolsInRange
<1>. SUFFICES ASSUME IndInv
              PROVE  ReaderExclusive /\ OwnBytes /\ PoolsInRange
  OBVIOUS
<1>0. TypeOK /\ Distinct /\ Bounded /\ Held /\ Idle
  BY DEF IndInv, ReaderInv
<1>1. ASSUME NEW c \in Conn, NEW i \in Instance
      PROVE  ~Pooled(i, rd[c])
  <2>1. rd[c] \in Reader => ~Pooled(i, rd[c])
    BY <1>0 DEF Idle
  <2>2. \A n \in 1..Len(pool[i]) : pool[i][n] \in Reader
    BY <1>0 DEF TypeOK
  <2>. QED
    BY <2>1, <2>2 DEF Pooled
<1>2. ReaderExclusive
  BY <1>0, <1>1 DEF ReaderExclusive, Distinct, Held
<1>3. ASSUME NEW c \in Conn
      PROVE  /\ pc[c] = "parse" => source[rd[c]] = c /\ left[rd[c]] = {}
             /\ pc[c] = "put" => left[rd[c]] \subseteq {c}
  BY <1>0 DEF Held
<1>4. OwnBytes
  BY <1>0, <1>3 DEF OwnBytes, Idle
<1>5. PoolsInRange
  BY <1>0 DEF PoolsInRange, TypeOK, Bounded
<1>. QED
  BY <1>2, <1>4, <1>5

(***************************************************************************)
(* However many connections share the readers, no two goroutines use the   *)
(* same one, and an idle one waits in one place only.                      *)
(***************************************************************************)
THEOREM ServerReaderExclusive == Spec => []ReaderExclusive
  BY ServerInvariance, InvariantSuffices, PTL

(***************************************************************************)
(* A command is parsed from nobody's bytes but those of its connection.    *)
(***************************************************************************)
THEOREM ServerOwnBytes == Spec => []OwnBytes
  BY ServerInvariance, InvariantSuffices, PTL

(***************************************************************************)
(* The round of the accept loop stays below Conf.ReadBufInstance, and no   *)
(* pool grows beyond Conf.ReadBufNumPerInst.                               *)
(***************************************************************************)
THEOREM ServerPoolsInRange == Spec => []PoolsInRange
  BY ServerInvariance, InvariantSuffices, PTL
=============================================================================
