--------------------------- MODULE PresenceProofs ---------------------------
(***************************************************************************)
(* Proofs about Presence, for any number of sockets and gateways: what a   *)
(* closed socket has set in motion ends with its DEL.                      *)
(***************************************************************************)
EXTENDS Presence, TLAPS

-----------------------------------------------------------------------------
\* Sequences of commands, or of answers: the DEL of a session in them.
IsDel(c, s) == c.do = "del" /\ c.by = s
DelIn(q, s) == \E j \in DOMAIN q : IsDel(q[j], s)
DelAfter(q, i, s) == \E j \in DOMAIN q : j > i /\ IsDel(q[j], s)

\* How a sequence q differs from one that has c in addition, at its end, and from
\* one that has lost its first.
Grows(q, a, c) ==
    /\ \A i \in DOMAIN a : (i \in DOMAIN q /\ a[i] = q[i]) \/ a[i] = c
    /\ \A s : DelIn(q, s) => DelIn(a, s)
    /\ \A s, i : DelAfter(q, i, s) => DelAfter(a, i, s)
    /\ \A s : IsDel(c, s) => DelIn(a, s) /\ \A i \in DOMAIN q : DelAfter(a, i, s)

Shrinks(q, t) ==
    /\ \A i \in DOMAIN t : i + 1 \in DOMAIN q /\ t[i] = q[i + 1]
    /\ \A s : DelIn(q, s) => IsDel(Head(q), s) \/ DelIn(t, s)
    /\ \A s : \A i \in DOMAIN t : DelAfter(q, i + 1, s) => DelAfter(t, i, s)
    /\ \A s : DelAfter(q, 1, s) => DelIn(t, s)

LEMMA Appended ==
  ASSUME NEW S, NEW q \in Seq(S), NEW c \in S, NEW a, a = Append(q, c)
  PROVE  a \in Seq(S) /\ Grows(q, a, c)
<1>1. /\ a \in Seq(S) /\ Len(q) \in Nat /\ DOMAIN q = 1..Len(q)
      /\ DOMAIN a = 1..(Len(q) + 1)
      /\ \A i \in 1..Len(q) : a[i] = q[i]
      /\ a[Len(q) + 1] = c
  OBVIOUS
<1>2. ASSUME NEW i \in DOMAIN a
      PROVE  (i \in DOMAIN q /\ a[i] = q[i]) \/ a[i] = c
  <2>1. i \in 1..Len(q) \/ i = Len(q) + 1
    BY <1>1
  <2> QED BY <1>1, <2>1
<1>3. ASSUME NEW s PROVE DelIn(q, s) => DelIn(a, s)
  BY <1>1 DEF DelIn
<1>4. ASSUME NEW s, NEW i PROVE DelAfter(q, i, s) => DelAfter(a, i, s)
  BY <1>1 DEF DelAfter
<1>5. ASSUME NEW s, IsDel(c, s) PROVE DelIn(a, s) /\ \A i \in DOMAIN q : DelAfter(a, i, s)
  <2>1. Len(q) + 1 \in DOMAIN a /\ a[Len(q) + 1] = c
    BY <1>1
  <2>2. \A i \in DOMAIN q : Len(q) + 1 > i
    BY <1>1
  <2> QED BY <1>5, <2>1, <2>2 DEF DelIn, DelAfter
<1> QED BY <1>1, <1>2, <1>3, <1>4, <1>5 DEF Grows

LEMMA Tailed ==
  ASSUME NEW S, NEW q \in Seq(S), q # <<>>, NEW t, t = Tail(q)
  PROVE  t \in Seq(S) /\ Head(q) \in S /\ 1 \in DOMAIN q /\ Head(q) = q[1] /\ Shrinks(q, t)
<1>1. /\ Head(q) \in S /\ t \in Seq(S) /\ Len(q) \in Nat /\ DOMAIN q = 1..Len(q) /\ Len(q) >= 1
      /\ Head(q) = q[1] /\ DOMAIN t = 1..(Len(q) - 1)
      /\ \A i \in 1..(Len(q) - 1) : t[i] = q[i + 1]
  OBVIOUS
<1>2. ASSUME NEW j \in DOMAIN q, j > 1 PROVE j - 1 \in DOMAIN t /\ t[j - 1] = q[j]
  <2>1. j - 1 \in 1..(Len(q) - 1) /\ j - 1 + 1 = j
    BY <1>1, <1>2
  <2> QED BY <1>1, <2>1
<1>3. ASSUME NEW i \in DOMAIN t PROVE i + 1 \in DOMAIN q /\ t[i] = q[i + 1]
  BY <1>1
<1>4. ASSUME NEW s, DelIn(q, s) PROVE IsDel(Head(q), s) \/ DelIn(t, s)
  <2>1. PICK j \in DOMAIN q : IsDel(q[j], s)
    BY <1>4 DEF DelIn
  <2>2. j = 1 \/ j > 1
    BY <1>1
  <2> QED BY <1>1, <1>2, <2>1, <2>2 DEF DelIn
<1>5. ASSUME NEW s, NEW i \in DOMAIN t, DelAfter(q, i + 1, s) PROVE DelAfter(t, i, s)
  <2>1. PICK j \in DOMAIN q : j > i + 1 /\ IsDel(q[j], s)
    BY <1>5 DEF DelAfter
  <2>2. j > 1 /\ j - 1 > i
    BY <1>1, <2>1
  <2> QED BY <1>2, <2>1, <2>2 DEF DelAfter
<1>6. ASSUME NEW s, DelAfter(q, 1, s) PROVE DelIn(t, s)
  BY <1>2, <1>6 DEF DelAfter, DelIn
<1> QED BY <1>1, <1>3, <1>4, <1>5, <1>6 DEF Shrinks

-----------------------------------------------------------------------------
\* A command or an answer is of a session of that gateway, what is about to be
\* written is a status, and close publishes "offline".
Shape ==
    /\ \A s \in Sessions : socket[s] # "none" => gateway[s] \in Gateways
    /\ \A g \in Gateways : \A i \in DOMAIN pipe[g] :
          LET c == pipe[g][i]
          IN  /\ gateway[c.by] = g /\ socket[c.by] # "none"
              /\ c.do \in {"get", "write"} => c.status # "offline"
              /\ c.do = "del" => c.status = "offline"
    /\ \A g \in Gateways : \A i \in DOMAIN answers[g] :
          LET a == answers[g][i]
          IN  /\ gateway[a.by] = g /\ socket[a.by] # "none"
              /\ a.do = "get" => a.status # "offline"
              /\ a.do = "del" => a.status = "offline"

\* Whatever a closed socket has underway, its DEL is underway as well, and of a
\* command or an answer that is not about to be written, it is behind.
CommandsFollowed(g) ==
    \A i \in DOMAIN pipe[g] :
        LET c == pipe[g][i]
        IN  socket[c.by] = "closed" =>
                /\ c.do \in {"online", "renew", "get"} => DelAfter(pipe[g], i, c.by)
                /\ c.do = "write" => DelIn(pipe[g], c.by)

AnswersFollowed(g) ==
    \A i \in DOMAIN answers[g] :
        LET a == answers[g][i]
        IN  socket[a.by] = "closed" /\ a.do # "del" =>
                \/ DelIn(pipe[g], a.by)
                \/ a.do # "get" /\ DelAfter(answers[g], i, a.by)

\* A key, and a status other than offline, is there only while a socket is open or
\* has its DEL to come.
KeyAccounted ==
    key # "none" => \E s \in Sessions :
        socket[s] = "open" \/ \E g \in Gateways : DelIn(pipe[g], s)

SeenAccounted ==
    seen # "offline" => \E s \in Sessions :
        /\ fetch[s] = "done"
        /\ socket[s] = "open" \/ \E g \in Gateways : DelIn(pipe[g], s) \/ DelIn(answers[g], s)

Order ==
    /\ \A g \in Gateways : CommandsFollowed(g) /\ AnswersFollowed(g)
    /\ KeyAccounted /\ SeenAccounted

Undisturbed == faults = 0 /\ ~raced

IInv == TypeOK /\ Shape /\ (Undisturbed => Order)

-----------------------------------------------------------------------------
LEMMA Owners ==
  ASSUME TypeOK
  PROVE  \A g \in Gateways : /\ \A i \in DOMAIN pipe[g] : pipe[g][i] \in Command /\ pipe[g][i].by \in Sessions
                             /\ \A i \in DOMAIN answers[g] :
                                   answers[g][i] \in Answer /\ answers[g][i].by \in Sessions
<1> SUFFICES ASSUME NEW g \in Gateways
             PROVE  /\ \A i \in DOMAIN pipe[g] : pipe[g][i] \in Command /\ pipe[g][i].by \in Sessions
                    /\ \A i \in DOMAIN answers[g] :
                          answers[g][i] \in Answer /\ answers[g][i].by \in Sessions
  OBVIOUS
<1>1. pipe[g] \in Seq(Command) /\ answers[g] \in Seq(Answer)
  BY DEF TypeOK
<1>2. /\ \A i \in DOMAIN pipe[g] : pipe[g][i] \in Command
      /\ \A i \in DOMAIN answers[g] : answers[g][i] \in Answer
  BY <1>1
<1>3. /\ \A x \in Command : x.by \in Sessions
      /\ \A x \in Answer : x.by \in Sessions
  BY DEF Command, Answer
<1> QED BY <1>2, <1>3

LEMMA InitInv == Init => IInv
<1> SUFFICES ASSUME Init PROVE IInv
  OBVIOUS
<1>1. TypeOK
  <2>1. /\ pipe \in [Gateways -> Seq(Command)] /\ answers \in [Gateways -> Seq(Answer)]
    BY DEF Init
  <2>2. 0 \in 0..MaxFaults
    BY ConstantsAssumption
  <2>3. /\ socket \in [Sessions -> {"none", "open", "closed"}]
        /\ gateway \in [Sessions -> Gateways \cup {NoGateway}]
        /\ fetch \in [Sessions -> {"none", "pending", "done", "failed"}]
    BY DEF Init
  <2> QED BY <2>1, <2>2, <2>3 DEF Init, TypeOK
<1>2. Shape
  BY DEF Init, Shape
<1>3. Order
  BY DEF Init, Order, CommandsFollowed, AnswersFollowed, KeyAccounted, SeenAccounted
<1> QED BY <1>1, <1>2, <1>3 DEF IInv

\* Faults, and keys deleted within a setStatus, are never undone.
LEMMA DisturbedInv ==
  ASSUME TypeOK', Shape', ~Undisturbed'
  PROVE  IInv'
  BY DEF IInv

-----------------------------------------------------------------------------
\* Sockets open, and answers about servers come.
LEMMA OpenInv ==
  ASSUME IInv, NEW s \in Sessions, NEW g \in Gateways, Open(s, g)
  PROVE  IInv'
<1>1. TypeOK'
  BY DEF IInv, TypeOK, Open
<1>2. /\ socket[s] = "none" /\ socket'[s] = "open" /\ gateway'[s] = g
      /\ \A x \in Sessions : x # s =>
            socket'[x] = socket[x] /\ gateway'[x] = gateway[x] /\ fetch'[x] = fetch[x]
      /\ UNCHANGED <<pipe, answers, key, seen, faults, raced>>
  BY DEF IInv, TypeOK, Open
<1>3. \A h \in Gateways : /\ \A i \in DOMAIN pipe[h] : pipe[h][i].by \in Sessions \ {s}
                          /\ \A i \in DOMAIN answers[h] : answers[h][i].by \in Sessions \ {s}
  BY <1>2, Owners DEF IInv, Shape
<1>4. Shape'
  BY <1>2, <1>3 DEF IInv, Shape
<1>5. ASSUME Undisturbed PROVE Order'
  <2>1. \A h \in Gateways : (CommandsFollowed(h) /\ AnswersFollowed(h))'
    BY <1>2, <1>3, <1>5 DEF IInv, Order, CommandsFollowed, AnswersFollowed
  <2>2. KeyAccounted' /\ SeenAccounted'
    <3>1. KeyAccounted /\ SeenAccounted
      BY <1>5 DEF IInv, Order
    <3>2. KeyAccounted'
      BY <1>2 DEF KeyAccounted
    <3>3. SeenAccounted'
      <4> SUFFICES ASSUME seen # "offline" PROVE SeenAccounted'
        BY <1>2 DEF SeenAccounted
      <4>1. PICK x \in Sessions :
               /\ fetch[x] = "done"
               /\ socket[x] = "open" \/ \E h \in Gateways : DelIn(pipe[h], x) \/ DelIn(answers[h], x)
        BY <3>1 DEF SeenAccounted
      <4>2. x # s
        BY <1>2, <1>3, <4>1 DEF DelIn, IsDel
      <4> QED BY <1>2, <4>1, <4>2 DEF SeenAccounted
    <3> QED BY <3>2, <3>3
  <2> QED BY <2>1, <2>2 DEF Order
<1> QED BY <1>1, <1>2, <1>4, <1>5 DEF IInv, Undisturbed

LEMMA ReadyLateInv ==
  ASSUME IInv, NEW s \in Sessions, ReadyLate(s)
  PROVE  IInv'
<1>1. TypeOK'
  BY DEF IInv, TypeOK, ReadyLate
<1>2. /\ \A x \in Sessions : fetch[x] = "done" => fetch'[x] = "done"
      /\ UNCHANGED <<socket, gateway, pipe, answers, key, seen, faults, raced>>
  BY DEF IInv, TypeOK, ReadyLate
<1>3. Shape'
  BY <1>2 DEF IInv, Shape
<1>4. ASSUME Undisturbed PROVE Order'
  BY <1>2, <1>4 DEF IInv, Order, CommandsFollowed, AnswersFollowed, KeyAccounted, SeenAccounted
<1> QED BY <1>1, <1>2, <1>3, <1>4 DEF IInv, Undisturbed

LEMMA FetchFailsInv ==
  ASSUME IInv, NEW s \in Sessions, FetchFails(s)
  PROVE  IInv'
<1>1. TypeOK' /\ ~Undisturbed'
  BY ConstantsAssumption DEF IInv, TypeOK, FetchFails, Fault, Undisturbed
<1>2. Shape'
  BY DEF IInv, Shape, FetchFails
<1> QED BY <1>1, <1>2, DisturbedInv

-----------------------------------------------------------------------------
\* An open socket sends a command.
LEMMA SendInv ==
  ASSUME IInv, NEW s \in Sessions, NEW do \in {"online", "renew", "get"},
         NEW status \in {"online", "idle", "dnd"},
         socket[s] = "open", Queue(gateway[s], do, s, status),
         fetch' \in [Sessions -> {"none", "pending", "done", "failed"}],
         \A x \in Sessions : fetch[x] = "done" => fetch'[x] = "done",
         UNCHANGED <<socket, gateway, answers, key, seen, faults, raced>>
  PROVE  IInv'
<1> DEFINE c == [do |-> do, by |-> s, status |-> status]
           g == gateway[s]
<1>1. g \in Gateways /\ pipe[g] \in Seq(Command) /\ c \in Command
  BY DEF IInv, TypeOK, Shape, Command
<1>2. c.do = do /\ c.by = s /\ c.status = status
  OBVIOUS
<1>3. /\ pipe' = [pipe EXCEPT ![g] = Append(pipe[g], c)]
  BY DEF Queue
<1> HIDE DEF c, g
<1>4. /\ pipe'[g] = Append(pipe[g], c) /\ \A h \in Gateways : h # g => pipe'[h] = pipe[h]
      /\ gateway[s] = g
  BY <1>1, <1>3 DEF IInv, TypeOK, g
<1>grown. pipe'[g] \in Seq(Command) /\ Grows(pipe[g], pipe'[g], c)
  BY <1>1, <1>4, Appended
<1>5. \A h \in Gateways : \A i \in DOMAIN pipe'[h] :
         \/ i \in DOMAIN pipe[h] /\ pipe'[h][i] = pipe[h][i]
         \/ h = g /\ pipe'[h][i] = c
  BY <1>4, <1>grown DEF Grows
<1>6. \A h \in Gateways : \A x, i : /\ DelIn(pipe[h], x) => DelIn(pipe'[h], x)
                                    /\ DelAfter(pipe[h], i, x) => DelAfter(pipe'[h], i, x)
  BY <1>4, <1>grown, Zenon DEF Grows
<1>7. TypeOK'
  BY <1>1, <1>3, <1>4 DEF IInv, TypeOK
<1>8. Shape'
  BY <1>1, <1>2, <1>4, <1>5 DEF IInv, Shape
<1>9. ASSUME Undisturbed PROVE Order'
  <2>1. ASSUME NEW h \in Gateways PROVE CommandsFollowed(h)'
    BY <1>2, <1>5, <1>6, <1>9 DEF IInv, Order, CommandsFollowed
  <2>2. ASSUME NEW h \in Gateways PROVE AnswersFollowed(h)'
    BY <1>6, <1>9 DEF IInv, Order, AnswersFollowed
  <2>3. KeyAccounted' /\ SeenAccounted'
    BY <1>6, <1>9 DEF IInv, Order, KeyAccounted, SeenAccounted
  <2> QED BY <2>1, <2>2, <2>3 DEF Order
<1> QED BY <1>7, <1>8, <1>9 DEF IInv, Undisturbed

LEMMA CloseInv ==
  ASSUME IInv, NEW s \in Sessions, Close(s)
  PROVE  IInv'
<1> DEFINE c == [do |-> "del", by |-> s, status |-> "offline"]
           g == gateway[s]
<1>1. g \in Gateways /\ pipe[g] \in Seq(Command) /\ c \in Command
  BY DEF IInv, TypeOK, Shape, Command, Close
<1>2. c.do = "del" /\ c.by = s /\ IsDel(c, s)
  BY DEF IsDel
<1>3. pipe' = [pipe EXCEPT ![g] = Append(pipe[g], c)]
  BY DEF Queue, Close, Send
<1> HIDE DEF c, g
<1>4. /\ pipe'[g] = Append(pipe[g], c) /\ \A h \in Gateways : h # g => pipe'[h] = pipe[h]
      /\ gateway[s] = g
  BY <1>1, <1>3 DEF IInv, TypeOK, g
<1>grown. pipe'[g] \in Seq(Command) /\ Grows(pipe[g], pipe'[g], c)
  BY <1>1, <1>4, Appended
<1>5. \A h \in Gateways : \A i \in DOMAIN pipe'[h] :
         \/ i \in DOMAIN pipe[h] /\ pipe'[h][i] = pipe[h][i]
         \/ h = g /\ pipe'[h][i] = c
  BY <1>4, <1>grown DEF Grows
<1>6. \A h \in Gateways : \A x, i : /\ DelIn(pipe[h], x) => DelIn(pipe'[h], x)
                                    /\ DelAfter(pipe[h], i, x) => DelAfter(pipe'[h], i, x)
  BY <1>4, <1>grown, Zenon DEF Grows
<1>7. DelIn(pipe'[g], s) /\ \A i \in DOMAIN pipe[g] : DelAfter(pipe'[g], i, s)
  BY <1>2, <1>grown, Zenon DEF Grows
<1>8. /\ socket[s] = "open" /\ socket'[s] = "closed" /\ \A x \in Sessions : x # s => socket'[x] = socket[x]
      /\ UNCHANGED <<gateway, fetch, answers, key, seen, faults, raced>>
  BY DEF IInv, TypeOK, Close
<1>9. TypeOK'
  BY <1>1, <1>3, <1>4 DEF IInv, TypeOK, Close
<1>10. Shape'
  <2>1. c.status = "offline"
    BY DEF c
  <2>2. \A x \in Sessions : socket[x] # "none" => socket'[x] # "none"
    BY <1>8
  <2>3. \A x \in Sessions : socket'[x] # "none" => gateway[x] \in Gateways
    BY <1>1, <1>4, <1>8 DEF IInv, Shape
  <2>4. ASSUME NEW h \in Gateways, NEW i \in DOMAIN pipe'[h]
        PROVE  LET d == pipe'[h][i]
               IN  /\ gateway[d.by] = h /\ socket'[d.by] # "none"
                   /\ d.do \in {"get", "write"} => d.status # "offline"
                   /\ d.do = "del" => d.status = "offline"
    <3>1. CASE h = g /\ pipe'[h][i] = c
      BY <1>2, <1>4, <1>8, <2>1, <3>1
    <3>2. CASE i \in DOMAIN pipe[h] /\ pipe'[h][i] = pipe[h][i]
      BY <2>2, <3>2, Owners DEF IInv, Shape
    <3> QED BY <1>5, <3>1, <3>2
  <2>5. ASSUME NEW h \in Gateways, NEW i \in DOMAIN answers[h]
        PROVE  LET d == answers[h][i]
               IN  /\ gateway[d.by] = h /\ socket'[d.by] # "none"
                   /\ d.do = "get" => d.status # "offline"
                   /\ d.do = "del" => d.status = "offline"
    BY <2>2, Owners DEF IInv, Shape
  <2> QED BY <1>8, <2>3, <2>4, <2>5 DEF Shape
<1>11. ASSUME Undisturbed PROVE Order'
  <2>1. ASSUME NEW h \in Gateways PROVE CommandsFollowed(h)'
    <3> SUFFICES ASSUME NEW i \in DOMAIN pipe'[h], socket'[pipe'[h][i].by] = "closed"
                 PROVE  /\ pipe'[h][i].do \in {"online", "renew", "get"} =>
                               DelAfter(pipe'[h], i, pipe'[h][i].by)
                        /\ pipe'[h][i].do = "write" => DelIn(pipe'[h], pipe'[h][i].by)
      BY DEF CommandsFollowed
    <3>1. CASE h = g /\ pipe'[h][i] = c
      BY <3>1, <1>2
    <3>2. CASE i \in DOMAIN pipe[h] /\ pipe'[h][i] = pipe[h][i]
      <4>1. CASE pipe[h][i].by = s
        <5>1. h = g
          BY <1>4, <3>2, <4>1 DEF IInv, Shape
        <5> QED BY <1>7, <3>2, <4>1, <5>1
      <4>2. CASE pipe[h][i].by # s
        BY <1>6, <1>8, <1>11, <3>2, <4>2, Owners DEF IInv, Order, CommandsFollowed
      <4> QED BY <4>1, <4>2
    <3> QED BY <1>5, <3>1, <3>2
  <2>2. ASSUME NEW h \in Gateways PROVE AnswersFollowed(h)'
    <3> SUFFICES ASSUME NEW i \in DOMAIN answers[h], socket'[answers[h][i].by] = "closed",
                        answers[h][i].do # "del"
                 PROVE  \/ DelIn(pipe'[h], answers[h][i].by)
                        \/ answers[h][i].do # "get" /\ DelAfter(answers[h], i, answers[h][i].by)
      BY <1>8 DEF AnswersFollowed
    <3>1. CASE answers[h][i].by = s
      <4>1. h = g
        BY <1>4, <3>1 DEF IInv, Shape
      <4> QED BY <1>7, <3>1, <4>1
    <3>2. CASE answers[h][i].by # s
      BY <1>6, <1>8, <1>11, <3>2, Owners DEF IInv, Order, AnswersFollowed
    <3> QED BY <3>1, <3>2
  <2>3. KeyAccounted'
    BY <1>1, <1>6, <1>7, <1>8, <1>11 DEF IInv, Order, KeyAccounted
  <2>4. SeenAccounted'
    BY <1>1, <1>6, <1>7, <1>8, <1>11 DEF IInv, Order, SeenAccounted
  <2> QED BY <2>1, <2>2, <2>3, <2>4 DEF Order
<1> QED BY <1>8, <1>9, <1>10, <1>11 DEF IInv, Undisturbed

-----------------------------------------------------------------------------
\* Redis executes a command.
LEMMA ExecuteInv ==
  ASSUME IInv, NEW g \in Gateways, Execute(g)
  PROVE  IInv'
<1> DEFINE c == Head(pipe[g])
<1>1. /\ pipe[g] \in Seq(Command) /\ pipe[g] # <<>> /\ answers[g] \in Seq(Answer)
      /\ pipe' = [pipe EXCEPT ![g] = Tail(pipe[g])]
      /\ UNCHANGED <<socket, gateway, fetch, seen, faults>>
      /\ raced' = (raced \/ (c.do = "del" /\ ChangingStatus))
  BY DEF IInv, TypeOK, Execute, sessions
<1>2. c \in Command /\ 1 \in DOMAIN pipe[g] /\ c = pipe[g][1] /\ Tail(pipe[g]) \in Seq(Command)
  BY <1>1, Tailed
<1>3. /\ pipe'[g] = Tail(pipe[g]) /\ \A h \in Gateways : h # g => pipe'[h] = pipe[h]
  BY <1>1 DEF IInv, TypeOK
<1>4. /\ key' = CASE c.do \in {"online", "renew"} -> "online"
                  [] c.do = "write" -> c.status
                  [] c.do = "del" -> "none"
                  [] OTHER -> key
  BY DEF Execute, Effect
<1>5. PICK r : /\ c.do # "renew" => r \in Answer
               /\ r.by = c.by /\ r.status = c.status
               /\ r.do = c.do \/ (c.do = "get" /\ r.do = "missing")
               /\ IF c.do = "renew" THEN answers' = answers
                                    ELSE answers' = [answers EXCEPT ![g] = Append(answers[g], r)]
  <2>1. CASE c.do = "get" /\ key = "none"
    <3> DEFINE m == [c EXCEPT !.do = "missing"]
    <3>1. m \in Answer /\ m.by = c.by /\ m.status = c.status /\ m.do = "missing"
      BY <1>2 DEF Command, Answer
    <3>2. answers' = [answers EXCEPT ![g] = Append(answers[g], m)]
      BY <2>1 DEF Execute, Reply
    <3> HIDE DEF m, c
    <3> QED BY <2>1, <3>1, <3>2
  <2>2. CASE ~(c.do = "get" /\ key = "none")
    <3>1. c.do # "renew" => c \in Answer
      BY <1>2 DEF Command, Answer
    <3>2. IF c.do = "renew" THEN answers' = answers
                            ELSE answers' = [answers EXCEPT ![g] = Append(answers[g], c)]
      BY <2>2 DEF Execute, Reply
    <3> HIDE DEF c
    <3> QED BY <3>1, <3>2
  <2> QED BY <2>1, <2>2
<1>6. c.by \in Sessions /\ c.status \in {"online", "idle", "dnd", "offline"}
      /\ c.do \in {"online", "renew", "get", "write", "del"}
  BY <1>2 DEF Command
<1>7. /\ gateway[c.by] = g /\ socket[c.by] \in {"open", "closed"}
      /\ c.do \in {"get", "write"} => c.status # "offline"
      /\ c.do = "del" => c.status = "offline"
  BY <1>2, <1>6 DEF IInv, TypeOK, Shape
<1>8. /\ \A i \in DOMAIN pipe'[g] : i + 1 \in DOMAIN pipe[g] /\ pipe'[g][i] = pipe[g][i + 1]
      /\ \A s : DelIn(pipe[g], s) => IsDel(c, s) \/ DelIn(pipe'[g], s)
      /\ \A s : \A i \in DOMAIN pipe'[g] : DelAfter(pipe[g], i + 1, s) => DelAfter(pipe'[g], i, s)
      /\ \A s : DelAfter(pipe[g], 1, s) => DelIn(pipe'[g], s)
  <2>1. Shrinks(pipe[g], pipe'[g])
    BY <1>1, <1>3, Tailed
  <2> QED BY <2>1, Zenon DEF Shrinks
<1> HIDE DEF c
<1>9. /\ answers' \in [Gateways -> Seq(Answer)]
      /\ \A h \in Gateways : h # g => answers'[h] = answers[h]
      /\ answers'[g] = answers[g] \/ (c.do # "renew" /\ answers'[g] = Append(answers[g], r))
      /\ c.do # "renew" => answers'[g] = Append(answers[g], r)
  <2>1. c.do # "renew" => Append(answers[g], r) \in Seq(Answer)
    BY <1>1, <1>5
  <2> QED BY <1>5, <2>1 DEF IInv, TypeOK
<1>grown. c.do # "renew" => Grows(answers[g], answers'[g], r)
  BY <1>1, <1>5, <1>9, Appended
<1>10. \A h \in Gateways : \A i \in DOMAIN answers'[h] :
          \/ i \in DOMAIN answers[h] /\ answers'[h][i] = answers[h][i]
          \/ h = g /\ c.do # "renew" /\ answers'[h][i] = r
  BY <1>9, <1>grown, Zenon DEF Grows
<1>11. \A h \in Gateways : \A x, i : /\ DelIn(answers[h], x) => DelIn(answers'[h], x)
                                     /\ DelAfter(answers[h], i, x) => DelAfter(answers'[h], i, x)
  BY <1>9, <1>grown, Zenon DEF Grows
<1>12. ASSUME NEW x, IsDel(c, x)
       PROVE  DelIn(answers'[g], x) /\ \A i \in DOMAIN answers[g] : DelAfter(answers'[g], i, x)
  <2>1. IsDel(r, x) /\ c.do # "renew"
    BY <1>5, <1>12 DEF IsDel
  <2> QED BY <2>1, <1>grown, Zenon DEF Grows
<1>13. TypeOK'
  <2>1. pipe' \in [Gateways -> Seq(Command)]
    BY <1>1, <1>2 DEF IInv, TypeOK
  <2>2. key' \in {"none", "online", "idle", "dnd"}
    BY <1>4, <1>6, <1>7 DEF IInv, TypeOK
  <2>3. raced' \in BOOLEAN
    BY <1>1 DEF IInv, TypeOK
  <2> QED BY <1>1, <1>9, <2>1, <2>2, <2>3 DEF IInv, TypeOK
<1>14. Shape'
  <2>1. \A h \in Gateways : \A i \in DOMAIN pipe'[h] : \E j \in DOMAIN pipe[h] : pipe'[h][i] = pipe[h][j]
    BY <1>3, <1>8
  <2>2. /\ gateway[r.by] = g /\ socket[r.by] # "none" /\ (r.do = "get" => r.status # "offline")
        /\ r.do = "del" => r.status = "offline"
    BY <1>5, <1>7
  <2> QED BY <1>1, <1>10, <2>1, <2>2 DEF IInv, Shape
<1>15. ASSUME Undisturbed' PROVE Order'
  <2>1. Order /\ (c.do = "del" => ~ChangingStatus)
    BY <1>1, <1>15 DEF IInv, Undisturbed
  <2>2. ASSUME NEW h \in Gateways PROVE CommandsFollowed(h)'
    <3>1. CASE h # g
      BY <1>1, <1>3, <2>1, <3>1 DEF Order, CommandsFollowed
    <3>2. CASE h = g
      <4> SUFFICES ASSUME NEW i \in DOMAIN pipe'[g], socket[pipe'[g][i].by] = "closed"
                   PROVE  /\ pipe'[g][i].do \in {"online", "renew", "get"} =>
                                 DelAfter(pipe'[g], i, pipe'[g][i].by)
                          /\ pipe'[g][i].do = "write" => DelIn(pipe'[g], pipe'[g][i].by)
        BY <1>1, <3>2 DEF CommandsFollowed
      <4>1. i + 1 \in DOMAIN pipe[g] /\ pipe'[g][i] = pipe[g][i + 1]
        BY <1>8
      <4>2. /\ pipe'[g][i].do \in {"online", "renew", "get"} => DelAfter(pipe[g], i + 1, pipe'[g][i].by)
            /\ pipe'[g][i].do = "write" => DelIn(pipe[g], pipe'[g][i].by)
        BY <2>1, <4>1 DEF Order, CommandsFollowed
      <4>3. pipe'[g][i].do = "write" => c.do # "del"
        BY <2>1, <4>1 DEF ChangingStatus, Commands
      <4> QED BY <1>8, <4>2, <4>3 DEF IsDel
    <3> QED BY <3>1, <3>2
  <2>3. socket[c.by] = "closed" /\ c.do # "del" => DelIn(pipe'[g], c.by)
    <3>1. socket[c.by] = "closed" => /\ c.do \in {"online", "renew", "get"} => DelAfter(pipe[g], 1, c.by)
                                     /\ c.do = "write" => DelIn(pipe[g], c.by)
      <4>1. CommandsFollowed(g)
        BY <2>1 DEF Order
      <4> QED BY <1>2, <4>1 DEF CommandsFollowed, c
    <3> QED BY <1>6, <1>8, <3>1 DEF IsDel
  <2>4. ASSUME NEW h \in Gateways PROVE AnswersFollowed(h)'
    <3> SUFFICES ASSUME NEW i \in DOMAIN answers'[h], socket[answers'[h][i].by] = "closed",
                        answers'[h][i].do # "del"
                 PROVE  \/ DelIn(pipe'[h], answers'[h][i].by)
                        \/ answers'[h][i].do # "get" /\ DelAfter(answers'[h], i, answers'[h][i].by)
      BY <1>1 DEF AnswersFollowed
    <3>1. CASE h = g /\ c.do # "renew" /\ answers'[h][i] = r
      BY <1>5, <2>3, <3>1
    <3>2. CASE i \in DOMAIN answers[h] /\ answers'[h][i] = answers[h][i]
      <4> DEFINE x == answers[h][i].by
      <4>1. DelIn(pipe[h], x) \/ (answers[h][i].do # "get" /\ DelAfter(answers[h], i, x))
        BY <2>1, <3>2 DEF Order, AnswersFollowed
      <4>2. CASE h # g
        BY <1>3, <1>11, <3>2, <4>1, <4>2
      <4>3. CASE h = g /\ IsDel(c, x)
        <5>1. c.do = "del"
          BY <4>3 DEF IsDel
        <5>2. answers[h][i].do # "get"
          BY <2>1, <3>2, <5>1 DEF ChangingStatus, Answers
        <5> QED BY <1>12, <3>2, <4>3, <5>2
      <4>4. CASE h = g /\ ~IsDel(c, x)
        BY <1>8, <1>11, <3>2, <4>1, <4>4
      <4> QED BY <4>2, <4>3, <4>4
    <3> QED BY <1>10, <3>1, <3>2
  <2>5. KeyAccounted'
    <3> SUFFICES ASSUME key' # "none"
                 PROVE  \E s \in Sessions : socket[s] = "open" \/ \E h \in Gateways : DelIn(pipe'[h], s)
      BY <1>1 DEF KeyAccounted
    <3>1. c.do # "del"
      BY <1>4
    <3>2. CASE c.do = "get"
      <4>1. PICK s \in Sessions : socket[s] = "open" \/ \E h \in Gateways : DelIn(pipe[h], s)
        BY <1>4, <2>1, <3>2 DEF Order, KeyAccounted
      <4>2. \A h \in Gateways : DelIn(pipe[h], s) => DelIn(pipe'[h], s)
        BY <1>3, <1>8, <3>1 DEF IsDel
      <4> QED BY <4>1, <4>2
    <3>3. CASE c.do # "get"
      BY <1>6, <1>7, <2>3, <3>1
    <3> QED BY <3>2, <3>3
  <2>6. SeenAccounted'
    <3> SUFFICES ASSUME seen # "offline" PROVE SeenAccounted'
      BY <1>1 DEF SeenAccounted
    <3>1. PICK s \in Sessions :
             /\ fetch[s] = "done"
             /\ socket[s] = "open" \/ \E h \in Gateways : DelIn(pipe[h], s) \/ DelIn(answers[h], s)
      BY <2>1 DEF Order, SeenAccounted
    <3>2. \A h \in Gateways : DelIn(pipe[h], s) => DelIn(pipe'[h], s) \/ DelIn(answers'[h], s)
      BY <1>3, <1>8, <1>12
    <3> QED BY <1>1, <1>11, <3>1, <3>2 DEF SeenAccounted
  <2> QED BY <2>2, <2>4, <2>5, <2>6 DEF Order
<1> QED BY <1>13, <1>14, <1>15 DEF IInv

LEMMA CommandFailsInv ==
  ASSUME IInv, NEW g \in Gateways, CommandFails(g)
  PROVE  IInv'
<1>1. /\ pipe[g] \in Seq(Command) /\ pipe[g] # <<>> /\ pipe' = [pipe EXCEPT ![g] = Tail(pipe[g])]
      /\ UNCHANGED <<socket, gateway, fetch, answers, key, seen, raced>>
      /\ faults < MaxFaults /\ faults' = faults + 1
  BY DEF IInv, TypeOK, CommandFails, sessions, Fault
<1>2. Tail(pipe[g]) \in Seq(Command) /\ pipe' \in [Gateways -> Seq(Command)]
  BY <1>1 DEF IInv, TypeOK
<1>3. TypeOK' /\ ~Undisturbed'
  BY <1>1, <1>2, ConstantsAssumption DEF IInv, TypeOK, Undisturbed
<1>4. \A h \in Gateways : \A i \in DOMAIN pipe'[h] : \E j \in DOMAIN pipe[h] : pipe'[h][i] = pipe[h][j]
  <2>1. pipe'[g] = Tail(pipe[g]) /\ \A h \in Gateways : h # g => pipe'[h] = pipe[h]
    BY <1>1 DEF IInv, TypeOK
  <2>2. Shrinks(pipe[g], pipe'[g])
    BY <1>1, <2>1, Tailed
  <2> QED BY <2>1, <2>2 DEF Shrinks
<1>5. Shape'
  BY <1>1, <1>4 DEF IInv, Shape
<1> QED BY <1>3, <1>5, DisturbedInv

\* A TTL runs out.
LEMMA ExpireInv ==
  ASSUME IInv, Expire
  PROVE  IInv'
<1>1. key' = "none" /\ UNCHANGED <<socket, gateway, fetch, pipe, answers, seen, faults, raced>>
  BY DEF Expire, sessions
<1>2. TypeOK' /\ Shape'
  BY <1>1 DEF IInv, TypeOK, Shape
<1>3. ASSUME Undisturbed PROVE Order'
  BY <1>1, <1>3 DEF IInv, Order, CommandsFollowed, AnswersFollowed, KeyAccounted, SeenAccounted
<1> QED BY <1>1, <1>2, <1>3 DEF IInv, Undisturbed

LEMMA LostInv ==
  ASSUME IInv, NEW g \in Gateways, Lost(g)
  PROVE  IInv'
<1>1. /\ pipe' = [pipe EXCEPT ![g] = <<>>] /\ answers' = [answers EXCEPT ![g] = <<>>]
      /\ socket' = [s \in Sessions |-> IF gateway[s] = g THEN "closed" ELSE socket[s]]
      /\ faults < MaxFaults /\ faults' = faults + 1 /\ gateway' = gateway
  BY DEF Lost, Fault
<1>2. TypeOK' /\ ~Undisturbed'
  BY <1>1, ConstantsAssumption DEF IInv, TypeOK, Undisturbed, Lost
<1>3. \A h \in Gateways : /\ pipe'[h] = pipe[h] \/ pipe'[h] = <<>>
                          /\ answers'[h] = answers[h] \/ answers'[h] = <<>>
  BY <1>1 DEF IInv, TypeOK
<1>4. \A s \in Sessions : (socket[s] # "none" => socket'[s] # "none")
                          /\ (socket'[s] # "none" => socket[s] # "none" \/ gateway[s] = g)
  BY <1>1
<1>5. Shape'
  BY <1>1, <1>3, <1>4, Owners DEF IInv, Shape
<1> QED BY <1>2, <1>5, DisturbedInv

-----------------------------------------------------------------------------
\* The gateway handles an answer.
LEMMA HandleInv ==
  ASSUME IInv, NEW g \in Gateways, Handle(g)
  PROVE  IInv'
<1> DEFINE a == Head(answers[g])
           w == [do |-> "write", by |-> a.by, status |-> a.status]
<1>1. /\ answers[g] \in Seq(Answer) /\ answers[g] # <<>> /\ pipe[g] \in Seq(Command)
      /\ answers' = [answers EXCEPT ![g] = Tail(answers[g])]
      /\ UNCHANGED <<socket, gateway, fetch, key, faults, raced>>
  BY DEF IInv, TypeOK, Handle, sessions
<1>2. a \in Answer /\ 1 \in DOMAIN answers[g] /\ a = answers[g][1] /\ Tail(answers[g]) \in Seq(Answer)
  BY <1>1, Tailed
<1>3. IF a.do = "get" THEN pipe' = [pipe EXCEPT ![g] = Append(pipe[g], w)] /\ seen' = seen
                      ELSE pipe' = pipe /\ seen' = IF fetch[a.by] = "done" THEN a.status ELSE seen
  BY DEF Handle, Queue, Publish
<1>4. /\ a.by \in Sessions /\ a.status \in {"online", "idle", "dnd", "offline"}
      /\ gateway[a.by] = g /\ socket[a.by] \in {"open", "closed"}
      /\ a.do = "get" => a.status # "offline"
      /\ a.do = "del" => a.status = "offline"
  <2>1. a.by \in Sessions /\ a.status \in {"online", "idle", "dnd", "offline"}
    BY <1>2 DEF Answer
  <2> QED BY <1>2, <2>1 DEF IInv, TypeOK, Shape
<1>5. w \in Command /\ w.do = "write" /\ w.by = a.by /\ w.status = a.status
  BY <1>4 DEF Command
<1>6. /\ answers'[g] = Tail(answers[g]) /\ \A h \in Gateways : h # g => answers'[h] = answers[h]
  BY <1>1 DEF IInv, TypeOK
<1>7. /\ \A i \in DOMAIN answers'[g] : i + 1 \in DOMAIN answers[g] /\ answers'[g][i] = answers[g][i + 1]
      /\ \A s : DelIn(answers[g], s) => IsDel(a, s) \/ DelIn(answers'[g], s)
      /\ \A s : \A i \in DOMAIN answers'[g] :
            DelAfter(answers[g], i + 1, s) => DelAfter(answers'[g], i, s)
      /\ \A s : DelAfter(answers[g], 1, s) => DelIn(answers'[g], s)
  <2>1. Shrinks(answers[g], answers'[g])
    BY <1>1, <1>6, Tailed
  <2> QED BY <2>1, Zenon DEF Shrinks
<1> HIDE DEF a, w
<1>8. /\ pipe' \in [Gateways -> Seq(Command)] /\ \A h \in Gateways : h # g => pipe'[h] = pipe[h]
      /\ (a.do # "get" /\ pipe'[g] = pipe[g]) \/ (a.do = "get" /\ pipe'[g] = Append(pipe[g], w))
  <2>1. Append(pipe[g], w) \in Seq(Command)
    BY <1>1, <1>5
  <2> QED BY <1>3, <2>1 DEF IInv, TypeOK
<1>grown. a.do = "get" => Grows(pipe[g], pipe'[g], w)
  BY <1>1, <1>5, <1>8, Appended
<1>9. \A h \in Gateways : \A i \in DOMAIN pipe'[h] :
         \/ i \in DOMAIN pipe[h] /\ pipe'[h][i] = pipe[h][i]
         \/ h = g /\ a.do = "get" /\ pipe'[h][i] = w
  BY <1>8, <1>grown, Zenon DEF Grows
<1>10. \A h \in Gateways : \A x, i : /\ DelIn(pipe[h], x) => DelIn(pipe'[h], x)
                                     /\ DelAfter(pipe[h], i, x) => DelAfter(pipe'[h], i, x)
  BY <1>8, <1>grown, Zenon DEF Grows
<1>11. TypeOK'
  <2>1. answers' \in [Gateways -> Seq(Answer)]
    BY <1>1, <1>2 DEF IInv, TypeOK
  <2>2. seen' \in {"online", "idle", "dnd", "offline"}
    BY <1>3, <1>4 DEF IInv, TypeOK
  <2> QED BY <1>1, <1>8, <2>1, <2>2 DEF IInv, TypeOK
<1>12. Shape'
  <2>1. \A h \in Gateways : \A i \in DOMAIN answers'[h] :
           \E j \in DOMAIN answers[h] : answers'[h][i] = answers[h][j]
    BY <1>6, <1>7
  <2> QED BY <1>1, <1>4, <1>5, <1>9, <2>1 DEF IInv, Shape
<1>13. ASSUME Undisturbed PROVE Order'
  <2>1. Order
    BY <1>13 DEF IInv
  <2>2. socket[a.by] = "closed" /\ a.do # "del" =>
            \/ DelIn(pipe[g], a.by)
            \/ a.do # "get" /\ DelAfter(answers[g], 1, a.by)
    BY <1>2, <2>1 DEF Order, AnswersFollowed, a
  <2>3. ASSUME NEW h \in Gateways PROVE CommandsFollowed(h)'
    <3> SUFFICES ASSUME NEW i \in DOMAIN pipe'[h], socket[pipe'[h][i].by] = "closed"
                 PROVE  /\ pipe'[h][i].do \in {"online", "renew", "get"} =>
                               DelAfter(pipe'[h], i, pipe'[h][i].by)
                        /\ pipe'[h][i].do = "write" => DelIn(pipe'[h], pipe'[h][i].by)
      BY <1>1 DEF CommandsFollowed
    <3>1. CASE h = g /\ a.do = "get" /\ pipe'[h][i] = w
      BY <1>5, <1>10, <2>2, <3>1
    <3>2. CASE i \in DOMAIN pipe[h] /\ pipe'[h][i] = pipe[h][i]
      BY <1>10, <2>1, <3>2 DEF Order, CommandsFollowed
    <3> QED BY <1>9, <3>1, <3>2
  <2>4. ASSUME NEW h \in Gateways PROVE AnswersFollowed(h)'
    <3>1. CASE h # g
      BY <1>1, <1>6, <1>10, <2>1, <3>1 DEF Order, AnswersFollowed
    <3>2. CASE h = g
      <4> SUFFICES ASSUME NEW i \in DOMAIN answers'[g], socket[answers'[g][i].by] = "closed",
                          answers'[g][i].do # "del"
                   PROVE  \/ DelIn(pipe'[g], answers'[g][i].by)
                          \/ answers'[g][i].do # "get" /\ DelAfter(answers'[g], i, answers'[g][i].by)
        BY <1>1, <3>2 DEF AnswersFollowed
      <4>1. i + 1 \in DOMAIN answers[g] /\ answers'[g][i] = answers[g][i + 1]
        BY <1>7
      <4>2. \/ DelIn(pipe[g], answers'[g][i].by)
            \/ answers'[g][i].do # "get" /\ DelAfter(answers[g], i + 1, answers'[g][i].by)
        BY <2>1, <4>1 DEF Order, AnswersFollowed
      <4> QED BY <1>7, <1>10, <4>2
    <3> QED BY <3>1, <3>2
  <2>5. KeyAccounted'
    BY <1>1, <1>10, <2>1 DEF Order, KeyAccounted
  <2>6. SeenAccounted'
    <3> SUFFICES ASSUME seen' # "offline"
                 PROVE  \E s \in Sessions :
                           /\ fetch[s] = "done"
                           /\ \/ socket[s] = "open"
                              \/ \E h \in Gateways : DelIn(pipe'[h], s) \/ DelIn(answers'[h], s)
      BY <1>1 DEF SeenAccounted
    <3>1. CASE a.do # "get" /\ fetch[a.by] = "done"
      <4>1. a.do # "del"
        BY <1>3, <1>4, <3>1
      <4>2. socket[a.by] = "closed" => DelIn(pipe'[g], a.by) \/ DelIn(answers'[g], a.by)
        BY <1>7, <1>10, <2>2, <4>1
      <4> QED BY <1>4, <3>1, <4>2
    <3>2. CASE a.do = "get" \/ fetch[a.by] # "done"
      <4>1. PICK s \in Sessions :
               /\ fetch[s] = "done"
               /\ socket[s] = "open" \/ \E h \in Gateways : DelIn(pipe[h], s) \/ DelIn(answers[h], s)
        BY <1>3, <2>1, <3>2 DEF Order, SeenAccounted
      <4>2. ~IsDel(a, s)
        BY <3>2, <4>1 DEF IsDel
      <4>3. \A h \in Gateways : DelIn(answers[h], s) => DelIn(answers'[h], s)
        BY <1>6, <1>7, <4>2
      <4> QED BY <1>10, <4>1, <4>3
    <3> QED BY <3>1, <3>2
  <2> QED BY <2>3, <2>4, <2>5, <2>6 DEF Order
<1> QED BY <1>1, <1>11, <1>12, <1>13 DEF IInv, Undisturbed

-----------------------------------------------------------------------------
LEMMA NextInv == IInv /\ [Next]_vars => IInv'
<1> SUFFICES ASSUME IInv, [Next]_vars PROVE IInv'
  OBVIOUS
<1>1. ASSUME NEW s \in Sessions, Ready(s) PROVE IInv'
  <2>1. \A x \in Sessions : fetch[x] = "done" => fetch'[x] = "done"
    BY <1>1 DEF IInv, TypeOK, Ready
  <2> QED BY <1>1, <2>1, SendInv DEF IInv, TypeOK, Ready, Send
<1>2. ASSUME NEW s \in Sessions, Heartbeat(s) PROVE IInv'
  BY <1>2, SendInv DEF IInv, TypeOK, Heartbeat, Send, sessions
<1>3. ASSUME NEW s \in Sessions, NEW status \in Chosen, ChangeStatus(s, status) PROVE IInv'
  BY <1>3, SendInv, ConstantsAssumption DEF IInv, TypeOK, ChangeStatus, Send, sessions
<1>4. ASSUME UNCHANGED vars PROVE IInv'
  <2>1. TypeOK' /\ Shape' /\ (Order => Order')
    BY <1>4 DEF vars, sessions, IInv, TypeOK, Shape, Order, CommandsFollowed, AnswersFollowed,
                KeyAccounted, SeenAccounted
  <2> QED BY <1>4, <2>1 DEF vars, IInv, Undisturbed
<1> QED BY <1>1, <1>2, <1>3, <1>4, OpenInv, ReadyLateInv, FetchFailsInv, CloseInv, ExecuteInv,
           CommandFailsInv, HandleInv, LostInv, ExpireInv, Zenon DEF Next

\* However handlers of the sockets of a user interleave on the connections of
\* several gateways to Redis, and whatever fails, the commands and answers that
\* are underway account for the key and for what members were told.
THEOREM Invariance == Spec => []IInv
<1>1. IInv /\ UNCHANGED vars => IInv'
  BY NextInv
<1> QED BY <1>1, InitInv, NextInv, PTL DEF Spec

\* Type correctness of sockets, commands, answers and the key.
THEOREM TypeCorrect == Spec => []TypeOK
<1>1. IInv => TypeOK
  BY DEF IInv
<1> QED BY <1>1, Invariance, PTL

\* When the last socket has closed and its setOffline is done, the user is offline
\* in Redis and for the members (the handlers of server.ts over presence-store.ts).
THEOREM GoneAreOffline == Spec => []GoneIsOffline
<1>1. IInv => GoneIsOffline
  <2> SUFFICES ASSUME IInv, AllClosed, Quiet, Undisturbed PROVE key = "none" /\ seen = "offline"
    BY DEF GoneIsOffline, Undisturbed
  <2>1. \A g \in Gateways : \A s : ~DelIn(pipe[g], s) /\ ~DelIn(answers[g], s)
    BY DEF Quiet, DelIn
  <2> QED BY <2>1 DEF IInv, Order, KeyAccounted, SeenAccounted, AllClosed
<1> QED BY <1>1, Invariance, PTL
=============================================================================
