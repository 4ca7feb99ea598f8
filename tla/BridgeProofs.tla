---------------------------- MODULE BridgeProofs ----------------------------
(***************************************************************************)
(* Theorems about Bridge for every value of its constants: the keys of the *)
(* Hand, whichever events fail and whatever a failed action has left down, *)
(* and the files of Inscribe, for any number of attempts.                  *)
(***************************************************************************)
EXTENDS Bridge, SequenceTheorems, TLAPS

-----------------------------------------------------------------------------
(* The events of an action *)

\* Two sequences one after the other, and a sequence in reverse.
LEMMA Joined ==
  ASSUME NEW S, NEW p \in Seq(S), NEW q \in Seq(S)
  PROVE  /\ p \o q \in Seq(S) /\ Len(p \o q) = Len(p) + Len(q)
         /\ \A i \in 1 .. Len(p) : (p \o q)[i] = p[i]
         /\ \A i \in 1 .. Len(q) : (p \o q)[Len(p) + i] = q[i]
<1>1. \A i \in 1 .. Len(p) : i \in 1 .. Len(p) + Len(q) /\ i <= Len(p)
  BY LenProperties
<1>2. \A i \in 1 .. Len(q) : /\ Len(p) + i \in 1 .. Len(p) + Len(q)
                            /\ ~(Len(p) + i <= Len(p)) /\ Len(p) + i - Len(p) = i
  BY LenProperties
<1>. QED BY <1>1, <1>2, ConcatProperties

LEMMA Reversed ==
  ASSUME NEW S, NEW q \in Seq(S)
  PROVE  /\ Reverse(q) \in Seq(S) /\ Len(Reverse(q)) = Len(q)
         /\ \A i \in 1 .. Len(q) : Reverse(q)[i] = q[Len(q) + 1 - i]
<1>1. Len(q) \in Nat
  OBVIOUS
<1>2. \A i \in 1 .. Len(q) : Len(q) - i + 1 \in 1 .. Len(q) /\ Len(q) - i + 1 = Len(q) + 1 - i
  BY <1>1
<1>3. \A i \in 1 .. Len(q) : q[Len(q) - i + 1] \in S /\ q[Len(q) - i + 1] = q[Len(q) + 1 - i]
  BY <1>2, ElementOfSeq
<1>4. Reverse(q) = [i \in 1 .. Len(q) |-> q[Len(q) - i + 1]]
  BY DEF Reverse
<1>. QED BY <1>1, <1>3, <1>4

\* The events are the presses, the clicks, and the releases in reverse order.
EventsAre(a, n, c) ==
  /\ a.mods \in Seq(Modifiers) /\ n \in Nat /\ c \in Nat /\ DOMAIN a.mods = 1 .. n
  /\ Events(a) \in Seq(Event) /\ Len(Events(a)) = (n + c) + n
  /\ \A i \in 1 .. n : Events(a)[i] = Press(a.mods[i])
  /\ \A i \in 1 .. c : Events(a)[n + i] = Click
  /\ \A i \in 1 .. n : Events(a)[n + c + i] = Release(a.mods[n + 1 - i])

LEMMA EventsAt ==
  ASSUME NEW a \in Actions
  PROVE  EventsAre(a, Len(a.mods), a.clicks)
<1>. DEFINE n == Len(a.mods)  c == a.clicks
<1>. DEFINE P == [i \in DOMAIN a.mods |-> Press(a.mods[i])]
            R == [i \in DOMAIN a.mods |-> Release(a.mods[i])]
<1>1. a.mods \in Seq(Modifiers) /\ n \in Nat /\ c \in Nat /\ DOMAIN a.mods = 1 .. n
  BY HandConstantsOK
<1>. HIDE DEF n, c
<1>2. \A i \in 1 .. n : Press(a.mods[i]) \in Event /\ Release(a.mods[i]) \in Event
  BY <1>1 DEF Press, Release, Event
<1>3. P \in Seq(Event) /\ Len(P) = n /\ \A i \in 1 .. n : P[i] = Press(a.mods[i])
  BY <1>1, <1>2
<1>4. /\ Clicks(c) \in Seq(Event) /\ Len(Clicks(c)) = c
      /\ \A i \in 1 .. c : Clicks(c)[i] = Click
  BY <1>1 DEF Clicks, Event
<1>5. R \in Seq(Event) /\ Len(R) = n /\ \A i \in 1 .. n : R[i] = Release(a.mods[i])
  BY <1>1, <1>2
<1>6. /\ Reverse(R) \in Seq(Event) /\ Len(Reverse(R)) = n
      /\ \A i \in 1 .. n : Reverse(R)[i] = Release(a.mods[n + 1 - i])
  <2>1. \A i \in 1 .. n : n + 1 - i \in 1 .. n
    BY <1>1
  <2>. HIDE DEF R
  <2>2. Reverse(R) \in Seq(Event) /\ Len(Reverse(R)) = n
        /\ \A i \in 1 .. n : Reverse(R)[i] = R[n + 1 - i]
    BY <1>5, Reversed
  <2>. QED BY <1>5, <2>1, <2>2
<1>7. Events(a) = (P \o Clicks(c)) \o Reverse(R)
  BY DEF Events, c
<1>. HIDE DEF P, R
<1>8. /\ P \o Clicks(c) \in Seq(Event) /\ Len(P \o Clicks(c)) = n + c
      /\ \A i \in 1 .. n : (P \o Clicks(c))[i] = Press(a.mods[i])
      /\ \A i \in 1 .. c : (P \o Clicks(c))[n + i] = Click
  <2>. DEFINE C == Clicks(c)
  <2>1. C \in Seq(Event) /\ Len(C) = c /\ \A i \in 1 .. c : C[i] = Click
    BY <1>4
  <2>. HIDE DEF C
  <2>2. P \o C \in Seq(Event) /\ Len(P \o C) = Len(P) + Len(C)
    BY <1>3, <2>1, Joined
  <2>3. \A i \in 1 .. Len(P) : (P \o C)[i] = P[i]
    BY <1>3, <2>1, Joined
  <2>4. \A i \in 1 .. Len(C) : (P \o C)[Len(P) + i] = C[i]
    BY <1>3, <2>1, Joined
  <2>. QED BY ONLY <1>3, <2>1, <2>2, <2>3, <2>4 DEF C
<1>9. /\ Events(a) \in Seq(Event) /\ Len(Events(a)) = (n + c) + n
      /\ \A i \in 1 .. n + c : Events(a)[i] = (P \o Clicks(c))[i]
      /\ \A i \in 1 .. n : Events(a)[n + c + i] = Reverse(R)[i]
  <2>. DEFINE B == P \o Clicks(c)  E == Reverse(R)
  <2>1. B \in Seq(Event) /\ Len(B) = n + c /\ E \in Seq(Event) /\ Len(E) = n
    BY <1>6, <1>8
  <2>. HIDE DEF B, E
  <2>2. /\ B \o E \in Seq(Event) /\ Len(B \o E) = Len(B) + Len(E)
        /\ \A i \in 1 .. Len(B) : (B \o E)[i] = B[i]
        /\ \A i \in 1 .. Len(E) : (B \o E)[Len(B) + i] = E[i]
    <3>1. B \o E \in Seq(Event) /\ Len(B \o E) = Len(B) + Len(E)
      BY <2>1, Joined
    <3>2. \A i \in 1 .. Len(B) : (B \o E)[i] = B[i]
      BY <2>1, Joined
    <3>3. \A i \in 1 .. Len(E) : (B \o E)[Len(B) + i] = E[i]
      BY <2>1, Joined
    <3>. QED BY <3>1, <3>2, <3>3
  <2>3. /\ B \o E \in Seq(Event) /\ Len(B \o E) = (n + c) + n
        /\ \A i \in 1 .. n + c : (B \o E)[i] = B[i]
        /\ \A i \in 1 .. n : (B \o E)[n + c + i] = E[i]
    BY ONLY <2>1, <2>2
  <2>. QED BY <1>7, <2>3 DEF B, E
<1>10. /\ \A i \in 1 .. n : i \in 1 .. n + c
       /\ \A i \in 1 .. c : n + i \in 1 .. n + c
  BY <1>1
<1>11. EventsAre(a, n, c)
  BY <1>1, <1>6, <1>8, <1>9, <1>10 DEF EventsAre
<1>. QED BY <1>11 DEF n, c

\* After the first k events of a, the modifier m is down.
HeldAfter(a, k, m) ==
  LET n == Len(a.mods)
      c == a.clicks
  IN IF k <= n + c
     THEN m \in left \/ \E i \in 1 .. n : i <= k /\ m = a.mods[i]
     ELSE /\ m \in left \/ \E i \in 1 .. n : m = a.mods[i]
          /\ \A i \in 1 .. n : m = a.mods[i] => i <= n + c + n - k

\* Each event makes the step from k - 1 to k.
LEMMA EventMoves ==
  ASSUME NEW a \in Actions, NEW k \in 1 .. Len(Events(a)), NEW m,
         m \in down <=> HeldAfter(a, k - 1, m), Sent(Events(a)[k]), UNCHANGED left
  PROVE  m \in down' <=> HeldAfter(a, k, m)
<1>. DEFINE n == Len(a.mods)  c == a.clicks
<1>0. EventsAre(a, n, c)
  BY EventsAt
<1>1. \A l : HeldAfter(a, l, m) <=>
        IF l <= n + c
        THEN m \in left \/ \E i \in 1 .. n : i <= l /\ m = a.mods[i]
        ELSE /\ m \in left \/ \E i \in 1 .. n : m = a.mods[i]
             /\ \A i \in 1 .. n : m = a.mods[i] => i <= n + c + n - l
  BY DEF HeldAfter
<1>. HIDE DEF n, c
<1>2. /\ n \in Nat /\ c \in Nat /\ DOMAIN a.mods = 1 .. n
      /\ k \in 1 .. (n + c) + n
      /\ \A i \in 1 .. n : Events(a)[i] = Press(a.mods[i])
      /\ \A i \in 1 .. c : Events(a)[n + i] = Click
      /\ \A i \in 1 .. n : Events(a)[n + c + i] = Release(a.mods[n + 1 - i])
  BY <1>0 DEF EventsAre
<1>3. CASE k <= n
  <2>1. m \in down' <=> m \in down \/ m = a.mods[k]
    <3>1. k \in 1 .. n
      BY <1>2, <1>3
    <3>2. Sent(Press(a.mods[k]))
      BY <1>2, <3>1
    <3>. QED BY <3>2 DEF Sent, Press
  <2>2. \A i \in 1 .. n : i <= k <=> i <= k - 1 \/ i = k
    BY <1>2
  <2>3. k - 1 <= n + c /\ k <= n + c /\ k \in 1 .. n
    BY <1>2, <1>3
  <2>. QED BY <1>1, <2>1, <2>2, <2>3
<1>4. CASE k > n /\ k <= n + c
  <2>1. down' = down
    <3>1. k - n \in 1 .. c /\ n + (k - n) = k
      BY <1>2, <1>4
    <3>2. Sent(Click)
      BY <1>2, <3>1
    <3>. QED BY <3>2 DEF Sent, Click
  <2>2. \A i \in 1 .. n : i <= k /\ i <= k - 1
    BY <1>2, <1>4
  <2>3. k - 1 <= n + c
    BY <1>2, <1>4
  <2>. QED BY <1>1, <1>4, <2>1, <2>2, <2>3
<1>5. CASE k > n + c
  <2>1. PICK r \in 1 .. n : r = n + 1 - (k - (n + c)) /\ n + c + n - k = r - 1
                           /\ n + c + n - (k - 1) = r
    BY <1>2, <1>5
  <2>2. m \in down' <=> m \in down /\ m # a.mods[r]
    <3>1. k - (n + c) \in 1 .. n /\ n + c + (k - (n + c)) = k
      BY <1>2, <1>5
    <3>2. Sent(Release(a.mods[r]))
      BY <1>2, <2>1, <3>1
    <3>. QED BY <3>2 DEF Sent, Release
  <2>3. \A i \in 1 .. n : i <= r - 1 <=> i <= r /\ i # r
    BY <1>2, <2>1
  <2>4. m \in down <=> /\ m \in left \/ \E i \in 1 .. n : m = a.mods[i]
                       /\ \A i \in 1 .. n : m = a.mods[i] => i <= r
    <3>1. CASE k - 1 <= n + c
      <4>1. \A i \in 1 .. n : i <= k - 1 /\ i <= r
        BY <1>2, <1>5, <2>1, <3>1
      <4>. QED BY <1>1, <3>1, <4>1
    <3>2. CASE ~(k - 1 <= n + c)
      BY <1>1, <2>1, <3>2
    <3>. QED BY <3>1, <3>2
  <2>5. ~(k <= n + c)
    BY <1>2, <1>5
  <2>6. HeldAfter(a, k, m) <=>
          /\ m \in left \/ \E i \in 1 .. n : m = a.mods[i]
          /\ \A i \in 1 .. n : m = a.mods[i] => i <= r - 1
    BY <1>1, <2>1, <2>5
  <2>. QED BY <2>2, <2>3, <2>4, <2>6
<1>. QED BY <1>2, <1>3, <1>4, <1>5

-----------------------------------------------------------------------------
(* The modifiers *)

(***************************************************************************)
(* Neither property is inductive: what is down in the middle of an action  *)
(* follows from how many of its events have been sent, which are those     *)
(* that todo no longer holds.                                              *)
(***************************************************************************)
SentSoFar == Len(Events(action)) - Len(todo)

UnderWay ==
  /\ Len(todo) <= Len(Events(action))
  /\ \A i \in 1 .. Len(todo) : todo[i] = Events(action)[SentSoFar + i]
  /\ alive => \A m \in Modifiers : m \in down <=> HeldAfter(action, SentSoFar, m)

HandInv ==
  /\ action \in Actions /\ todo \in Seq(Event)
  /\ down \subseteq Modifiers /\ left \subseteq Modifiers
  /\ outcome # "none" => todo = <<>>
  /\ outcome = "none" => UnderWay
  /\ OkReleases

LEMMA InitHand == HandInit => HandInv
<1>1. <<>> \in Seq(Event)
  BY EmptySeq
<1>. QED BY <1>1 DEF HandInit, HandInv, OkReleases

\* All events are still to be sent, and nothing but left is down.
LEMMA ExecuteHand ==
  ASSUME HandInv, Execute
  PROVE  HandInv'
<1>1. PICK a \in Actions :
        /\ action' = a
        /\ (outcome' = "failed" /\ todo' = <<>>) \/ (outcome' = "none" /\ todo' = Events(a))
  BY DEF Execute
<1>2. left' = down /\ down' = down /\ <<>> \in Seq(Event)
  BY EmptySeq DEF Execute
<1>3. CASE outcome' = "none" /\ todo' = Events(a)
  <2>. DEFINE n == Len(a.mods)  c == a.clicks
  <2>0. EventsAre(a, n, c)
    BY EventsAt
  <2>1. \A m \in Modifiers : HeldAfter(a, 0, m)' <=>
          IF 0 <= n + c THEN m \in left' \/ \E i \in 1 .. n : i <= 0 /\ m = a.mods[i]
          ELSE /\ m \in left' \/ \E i \in 1 .. n : m = a.mods[i]
               /\ \A i \in 1 .. n : m = a.mods[i] => i <= n + c + n - 0
    BY DEF HeldAfter
  <2>. HIDE DEF n, c
  <2>2. /\ n \in Nat /\ c \in Nat /\ Len(Events(a)) \in Nat /\ Events(a) \in Seq(Event)
    BY <2>0 DEF EventsAre
  <2>3. Len(todo') = Len(Events(action')) /\ SentSoFar' = 0
    BY <1>1, <1>3, <2>2 DEF SentSoFar
  <2>4. 0 <= n + c /\ \A i \in 1 .. n : ~(i <= 0)
    BY <2>2
  <2>5. \A m \in Modifiers : m \in down' <=> HeldAfter(a, 0, m)'
    BY <1>2, <2>1, <2>4
  <2>6. \A i \in 1 .. Len(todo') : todo'[i] = Events(action')[SentSoFar' + i]
    BY <1>1, <1>3, <2>2, <2>3
  <2>7. UnderWay'
    BY <1>1, <1>3, <2>2, <2>3, <2>5, <2>6 DEF UnderWay
  <2>. QED BY <1>1, <1>2, <1>3, <2>2, <2>7 DEF HandInv, OkReleases
<1>4. CASE outcome' = "failed" /\ todo' = <<>>
  BY <1>1, <1>2, <1>4 DEF HandInv, OkReleases
<1>. QED BY <1>1, <1>3, <1>4

\* One event more is sent, or none is sent any more.
LEMMA StepHand ==
  ASSUME HandInv, Step
  PROVE  HandInv'
<1>1. /\ outcome = "none" /\ todo # <<>> /\ UnderWay /\ action \in Actions /\ alive
      /\ todo \in Seq(Event) /\ UNCHANGED <<action, alive, left, count>>
      /\ down \subseteq Modifiers /\ left \subseteq Modifiers
  BY DEF Step, HandInv
<1>2. CASE outcome' = "failed" /\ todo' = <<>> /\ UNCHANGED down
  <2>1. <<>> \in Seq(Event)
    BY EmptySeq
  <2>. QED BY <1>1, <1>2, <2>1 DEF HandInv, OkReleases
<1>3. CASE Sent(Head(todo)) /\ todo' = Tail(todo) /\ UNCHANGED outcome
  <2>. DEFINE E == Events(action)
  <2>0. E \in Seq(Event) /\ Len(E) \in Nat
    <3>1. EventsAre(action, Len(action.mods), action.clicks)
      BY <1>1, EventsAt
    <3>. QED BY <3>1 DEF EventsAre
  <2>1. E' = E /\ SentSoFar = Len(E) - Len(todo) /\ SentSoFar' = Len(E) - Len(todo')
    BY <1>1 DEF SentSoFar, Events
  <2>2. \A i \in 1 .. Len(todo) : todo[i] = E[SentSoFar + i]
    BY <1>1 DEF UnderWay
  <2>3. Len(todo) \in Nat \ {0} /\ Len(todo) <= Len(E)
    BY <1>1, EmptySeq DEF UnderWay
  <2>. HIDE DEF E
  <2>4. /\ todo' \in Seq(Event) /\ Len(todo') = Len(todo) - 1 /\ Head(todo) = todo[1]
        /\ Head(todo) \in Event
        /\ \A i \in 1 .. Len(todo') : todo'[i] = todo[i + 1]
    BY <1>1, <1>3, HeadTailProperties
  <2>5. SentSoFar' = SentSoFar + 1 /\ SentSoFar \in Nat /\ SentSoFar' \in 1 .. Len(E)
    BY <2>0, <2>1, <2>3, <2>4
  <2>6. Head(todo) = E[SentSoFar']
    BY <2>2, <2>3, <2>4, <2>5
  <2>7. \A i \in 1 .. Len(todo') : todo'[i] = E[SentSoFar' + i]
    <3>1. \A i \in 1 .. Len(todo') : i + 1 \in 1 .. Len(todo) /\ SentSoFar + (i + 1) = SentSoFar' + i
      BY <2>3, <2>4, <2>5
    <3>. QED BY <2>2, <2>4, <3>1
  <2>8. \A m \in Modifiers : m \in down' <=> HeldAfter(action, SentSoFar', m)
    <3>1. TAKE m \in Modifiers
    <3>2. m \in down <=> HeldAfter(action, SentSoFar' - 1, m)
      <4>1. SentSoFar' - 1 = SentSoFar
        BY <2>5
      <4>. QED BY <1>1, <4>1 DEF UnderWay
    <3>3. Sent(Events(action)[SentSoFar']) /\ SentSoFar' \in 1 .. Len(Events(action))
      BY <1>3, <2>5, <2>6 DEF E
    <3>. QED BY <1>1, <3>2, <3>3, EventMoves
  <2>9. \A m \in Modifiers : HeldAfter(action, SentSoFar, m)' <=> HeldAfter(action, SentSoFar', m)
    BY <1>1 DEF HeldAfter
  <2>10. UnderWay'
    <3>1. Len(todo') <= Len(E')
      BY <2>0, <2>1, <2>3, <2>4
    <3>. QED BY <1>1, <2>1, <2>7, <2>8, <2>9, <3>1 DEF UnderWay, E
  <2>11. down' \subseteq Modifiers
    BY <1>1, <1>3, <2>4 DEF Sent, Event, Click
  <2>. QED BY <1>1, <1>3, <2>4, <2>10, <2>11 DEF HandInv, OkReleases
<1>. QED BY <1>2, <1>3 DEF Step

\* When all events are sent, the modifiers of the action are up.
LEMMA ReturnHand ==
  ASSUME HandInv, Return
  PROVE  HandInv'
<1>. DEFINE n == Len(action.mods)  c == action.clicks
<1>1. /\ outcome = "none" /\ todo = <<>> /\ UnderWay /\ action \in Actions /\ outcome' = "ok"
      /\ UNCHANGED <<down, action, todo, alive, left, count>> /\ alive
      /\ down \subseteq Modifiers /\ left \subseteq Modifiers
  BY DEF Return, HandInv
<1>2. EventsAre(action, n, c)
  BY <1>1, EventsAt
<1>3. \A m \in Modifiers : m \in down <=> HeldAfter(action, (n + c) + n, m)
  <2>1. SentSoFar = (n + c) + n
    BY <1>1, <1>2 DEF SentSoFar, EventsAre
  <2>. QED BY <1>1, <2>1 DEF UnderWay
<1>4. \A m \in Modifiers : HeldAfter(action, (n + c) + n, m) <=>
        IF (n + c) + n <= n + c
        THEN m \in left \/ \E i \in 1 .. n : i <= (n + c) + n /\ m = action.mods[i]
        ELSE /\ m \in left \/ \E i \in 1 .. n : m = action.mods[i]
             /\ \A i \in 1 .. n : m = action.mods[i] => i <= n + c + n - ((n + c) + n)
  BY DEF HeldAfter
<1>. HIDE DEF n, c
<1>5. n \in Nat /\ c \in Nat /\ DOMAIN action.mods = 1 .. n
  BY <1>2 DEF EventsAre
<1>6. \A m : m \in Range(action.mods) <=> \E i \in 1 .. n : m = action.mods[i]
  BY <1>5 DEF Range
<1>7. \A m \in Modifiers : m \in down <=> m \in left /\ ~ \E i \in 1 .. n : m = action.mods[i]
  <2>1. CASE (n + c) + n <= n + c
    <3>1. \A i \in 1 .. n : FALSE
      BY <1>5, <2>1
    <3>. QED BY <1>3, <1>4, <2>1, <3>1
  <2>2. CASE ~((n + c) + n <= n + c)
    <3>1. \A i \in 1 .. n : ~(i <= n + c + n - ((n + c) + n))
      BY <1>5
    <3>. QED BY <1>3, <1>4, <2>2, <3>1
  <2>. QED BY <2>1, <2>2
<1>8. down = left \ Range(action.mods)
  BY <1>1, <1>6, <1>7
<1>9. todo' \in Seq(Event)
  BY <1>1 DEF HandInv
<1>. QED BY <1>1, <1>8, <1>9 DEF HandInv, OkReleases

\* A bridge that has been dropped sends nothing.
LEMMA DropHand ==
  ASSUME HandInv, Drop
  PROVE  HandInv'
<1>1. /\ ~alive' /\ down' \subseteq down
      /\ UNCHANGED <<action, todo, outcome, left, count>>
  BY DEF Drop
<1>2. SentSoFar' = SentSoFar /\ Events(action)' = Events(action)
  BY <1>1 DEF SentSoFar, Events
<1>3. UnderWay => UnderWay'
  BY <1>1, <1>2 DEF UnderWay
<1>. QED BY <1>1, <1>3 DEF HandInv, OkReleases

LEMMA StutterHand ==
  ASSUME HandInv, UNCHANGED handVars
  PROVE  HandInv'
<1>1. UNCHANGED <<down, action, todo, outcome, alive, left>>
  BY DEF handVars
<1>2. SentSoFar' = SentSoFar /\ Events(action)' = Events(action)
  BY <1>1 DEF SentSoFar, Events
<1>3. \A k, m : HeldAfter(action, k, m)' <=> HeldAfter(action, k, m)
  BY <1>1 DEF HeldAfter
<1>4. UnderWay => UnderWay'
  BY <1>1, <1>2, <1>3 DEF UnderWay
<1>. QED BY <1>1, <1>4 DEF HandInv, OkReleases

LEMMA HandInvariant == Spec => []HandInv
<1>1. Init => HandInv
  BY InitHand DEF Init
<1>2. HandInv /\ [Next]_vars => HandInv'
  <2>. SUFFICES ASSUME HandInv, [Next]_vars
                PROVE  HandInv'
    OBVIOUS
  <2>1. CASE HandBegins
    BY <2>1, ExecuteHand DEF HandBegins
  <2>2. CASE HandGoesOn
    BY <2>2, StepHand, ReturnHand DEF HandGoesOn, HandStep
  <2>3. CASE BridgeDrops
    BY <2>3, DropHand DEF BridgeDrops
  <2>4. CASE InscribeBegins \/ InscribeGoesOn \/ ShellBegins \/ ChildExits \/ UserChanges
    BY <2>4, StutterHand
    DEF InscribeBegins, InscribeGoesOn, ShellBegins, ChildExits, UserChanges
  <2>5. CASE UNCHANGED vars
    BY <2>5, StutterHand DEF vars
  <2>. QED BY <2>1, <2>2, <2>3, <2>4, <2>5 DEF Next, RunnerSteps, Rest
<1>. QED BY <1>1, <1>2, PTL DEF Spec

(***************************************************************************)
(* Every key of a combination is clicked with all its modifiers down and   *)
(* no other, but for those an earlier failure has left: for every          *)
(* combination, and whichever event of whichever action fails.             *)
(***************************************************************************)
THEOREM ClicksWithItsModifiersHolds == Spec => []ClicksWithItsModifiers
<1>1. HandInv => ClicksWithItsModifiers
  <2>. SUFFICES ASSUME HandInv, alive, todo # <<>>, Head(todo) = Click
                PROVE  down = left \cup Range(action.mods)
    BY DEF ClicksWithItsModifiers
  <2>. DEFINE n == Len(action.mods)  c == action.clicks  k == SentSoFar
  <2>1. /\ outcome = "none" /\ UnderWay /\ action \in Actions /\ todo \in Seq(Event)
        /\ down \subseteq Modifiers /\ left \subseteq Modifiers
    BY DEF HandInv
  <2>2. EventsAre(action, n, c)
    BY <2>1, EventsAt
  <2>3. \A m \in Modifiers : m \in down <=> HeldAfter(action, k, m)
    BY <2>1 DEF UnderWay
  <2>4. \A m \in Modifiers : HeldAfter(action, k, m) <=>
          IF k <= n + c THEN m \in left \/ \E i \in 1 .. n : i <= k /\ m = action.mods[i]
          ELSE /\ m \in left \/ \E i \in 1 .. n : m = action.mods[i]
               /\ \A i \in 1 .. n : m = action.mods[i] => i <= n + c + n - k
    BY DEF HeldAfter
  <2>5. Len(todo) \in Nat \ {0} /\ Head(todo) = todo[1] /\ Len(todo) <= Len(Events(action))
    BY <2>1, EmptySeq DEF UnderWay
  <2>6. k = Len(Events(action)) - Len(todo) /\ Events(action)[k + 1] = Click
    BY <2>1, <2>5 DEF UnderWay, SentSoFar
  <2>. HIDE DEF n, c, k
  <2>7. /\ action.mods \in Seq(Modifiers) /\ n \in Nat /\ c \in Nat /\ DOMAIN action.mods = 1 .. n
        /\ Len(Events(action)) = (n + c) + n
        /\ \A i \in 1 .. n : Events(action)[i] = Press(action.mods[i])
        /\ \A i \in 1 .. n : Events(action)[n + c + i] = Release(action.mods[n + 1 - i])
    BY <2>2 DEF EventsAre
  <2>8. k \in Nat /\ k < (n + c) + n
    BY <2>5, <2>6, <2>7
  <2>0. \A m : Press(m) # Click /\ Release(m) # Click
    <3>1. \A m : Press(m).op # Click.op /\ Release(m).op # Click.op
      BY DEF Press, Release, Click
    <3>. QED BY <3>1
  <2>9. n <= k /\ k <= n + c
    <3>1. CASE k < n
      <4>1. k + 1 \in 1 .. n
        BY <2>7, <2>8, <3>1
      <4>. QED BY <2>0, <2>6, <2>7, <4>1
    <3>2. CASE k >= n + c
      <4>1. PICK i \in 1 .. n : k + 1 = n + c + i
        <5>1. k + 1 - (n + c) \in 1 .. n /\ k + 1 = n + c + (k + 1 - (n + c))
          BY <2>7, <2>8, <3>2
        <5>. QED BY <5>1
      <4>. QED BY <2>0, <2>6, <2>7, <4>1
    <3>. QED BY <2>7, <2>8, <3>1, <3>2
  <2>10. \A i \in 1 .. n : i <= k
    BY <2>7, <2>8, <2>9
  <2>11. \A m \in Modifiers : m \in down <=> m \in left \/ \E i \in 1 .. n : m = action.mods[i]
    BY <2>3, <2>4, <2>9, <2>10
  <2>12. Range(action.mods) = {action.mods[i] : i \in 1 .. n} /\ Range(action.mods) \subseteq Modifiers
    BY <2>7 DEF Range
  <2>. QED BY <2>1, <2>11, <2>12
<1>. QED BY <1>1, HandInvariant, PTL

(***************************************************************************)
(* An action that reports success has let go of all its modifiers, for     *)
(* every combination, also one that names a modifier twice, and whatever   *)
(* the failures of earlier actions have left down.                         *)
(***************************************************************************)
THEOREM OkReleasesHolds == Spec => []OkReleases
<1>1. HandInv => OkReleases
  BY DEF HandInv
<1>. QED BY <1>1, HandInvariant, PTL

-----------------------------------------------------------------------------
(* The files *)

(***************************************************************************)
(* As long as the operation runs the user's file, unless deleted, is still *)
(* the source; a copy under way reads it, and the removal that ends a move *)
(* is reached only when the destination is the same.                       *)
(***************************************************************************)
KeptInv ==
  /\ pc \in Calls \cup {"copying", "returned"}
  /\ result = "none" <=> pc # "returned"
  /\ pc \in {"rename", "copy", "copying"} => kind # "delete"
  /\ pc # "returned" => wanted \subseteq {src}
  /\ pc = "copying" => wanted \subseteq {reading}
  /\ pc = "remove" /\ kind # "delete" => wanted \subseteq {dst}
  /\ NotLost

LEMMA InitKept == InscribeInit => KeptInv
BY DEF InscribeInit, KeptInv, Calls, NotLost, First

\* The calls that leave both files as they are.
LEMMA WaitKept ==
  ASSUME KeptInv, kind \in Kinds, Exists \/ Retry
  PROVE  KeptInv'
BY InscribeConstantsOK
   DEF KeptInv, Calls, NotLost, Exists, Retry, FirstCall, Returns, userVars

LEMMA RenameKept ==
  ASSUME KeptInv, Rename
  PROVE  KeptInv'
BY DEF KeptInv, Calls, NotLost, Rename, Returns, userVars

LEMMA CopyKept ==
  ASSUME KeptInv, CopyBegins \/ CopyEnds
  PROVE  KeptInv'
BY DEF KeptInv, Calls, NotLost, CopyBegins, CopyEnds, Fails, Returns, userVars

LEMMA RemoveKept ==
  ASSUME KeptInv, RemoveSource
  PROVE  KeptInv'
BY DEF KeptInv, Calls, NotLost, RemoveSource, Fails, Returns, userVars

\* What the user has deleted is no longer wanted.
LEMMA UserKept ==
  ASSUME KeptInv, User, "write" \notin UserMay
  PROVE  KeptInv'
BY DEF KeptInv, Calls, NotLost, User

\* What the runner does with Inscribe is what InscribeSpec allows.
LEMMA RunsInscribe == Spec => InscribeSpec
<1>1. Init => InscribeInit
  BY DEF Init
<1>2. [Next]_vars => [Operation \/ User]_inscribeVars
  <2>. SUFFICES ASSUME [Next]_vars
                PROVE  [Operation \/ User]_inscribeVars
    OBVIOUS
  <2>1. CASE InscribeBegins \/ InscribeGoesOn \/ UserChanges
    BY <2>1 DEF InscribeBegins, InscribeGoesOn, UserChanges, Operation
  <2>2. CASE HandBegins \/ HandGoesOn \/ ShellBegins \/ ChildExits \/ BridgeDrops
    BY <2>2 DEF HandBegins, HandGoesOn, ShellBegins, ChildExits, BridgeDrops
  <2>3. CASE UNCHANGED vars
    BY <2>3 DEF vars
  <2>. QED BY <2>1, <2>2, <2>3 DEF Next, RunnerSteps, Rest
<1>. QED BY <1>1, <1>2, PTL DEF Spec, InscribeSpec

(***************************************************************************)
(* Unless the user writes the source while it is being moved or copied, no *)
(* failure of a call and no retry loses the user's file, and an error has  *)
(* not taken the source away.                                              *)
(***************************************************************************)
THEOREM NotLostHolds ==
  ASSUME "write" \notin UserMay
  PROVE  Spec => []NotLost
<1>1. InscribeInit => KeptInv /\ kind \in Kinds
  BY InitKept DEF InscribeInit
<1>2. KeptInv /\ kind \in Kinds /\ [Operation \/ User]_inscribeVars
        => KeptInv' /\ (kind \in Kinds)'
  <2>. SUFFICES ASSUME KeptInv, kind \in Kinds, [Operation \/ User]_inscribeVars
                PROVE  KeptInv' /\ (kind \in Kinds)'
    OBVIOUS
  <2>1. KeptInv'
    <3>1. CASE Operation
      BY <3>1, WaitKept, RenameKept, CopyKept, RemoveKept DEF Operation
    <3>2. CASE User
      BY <3>2, UserKept
    <3>3. CASE UNCHANGED inscribeVars
      BY <3>3 DEF KeptInv, NotLost, inscribeVars, userVars
    <3>. QED BY <3>1, <3>2, <3>3
  <2>2. UNCHANGED kind
    BY DEF Operation, Exists, Retry, Rename, CopyBegins, CopyEnds, RemoveSource,
           User, inscribeVars
  <2>. QED BY <2>1, <2>2
<1>3. KeptInv => NotLost
  BY DEF KeptInv
<1>. QED BY <1>1, <1>2, <1>3, RunsInscribe, PTL DEF InscribeSpec

(***************************************************************************)
(* OkIsDone needs more: a copy under way reads a version of the source, a  *)
(* removal that ends a move is reached only after a whole copy, and a      *)
(* call belongs to its kind of operation.                                  *)
(***************************************************************************)
DoneInv ==
  /\ src \in {None} \cup Versions /\ users \in Nat /\ kind \in Kinds
  /\ pc = "rename" => kind = "move"
  /\ pc \in {"copy", "copying"} => kind # "delete"
  /\ pc = "remove" => kind # "copy"
  /\ pc = "copying" => reading \in Versions
  /\ pc = "remove" /\ kind # "delete" => dst \in Versions
  /\ result = "none" <=> pc # "returned"

LEMMA DoneInvariant == InscribeSpec => []DoneInv
<1>1. InscribeInit => DoneInv
  BY InscribeConstantsOK DEF InscribeInit, DoneInv, Versions, First
<1>2. DoneInv /\ [Operation \/ User]_inscribeVars => DoneInv'
  <2>. SUFFICES ASSUME DoneInv, [Operation \/ User]_inscribeVars
                PROVE  DoneInv'
    OBVIOUS
  <2>1. CASE Exists \/ Retry
    BY <2>1, InscribeConstantsOK DEF DoneInv, Exists, Retry, FirstCall, Returns, userVars
  <2>2. CASE Rename
    BY <2>2 DEF DoneInv, Rename, Returns, userVars
  <2>3. CASE CopyBegins \/ CopyEnds
    BY <2>3, InscribeConstantsOK DEF DoneInv, CopyBegins, CopyEnds, Fails, Returns, userVars
  <2>4. CASE RemoveSource
    BY <2>4 DEF DoneInv, RemoveSource, Fails, Returns, userVars
  <2>5. CASE User
    <3>1. First + users' \in Versions /\ users' \in Nat
      BY <2>5, InscribeConstantsOK DEF DoneInv, User, Versions, First
    <3>. QED BY <2>5, <3>1 DEF DoneInv, User
  <2>6. CASE UNCHANGED inscribeVars
    BY <2>6 DEF DoneInv, inscribeVars, userVars
  <2>. QED BY <2>1, <2>2, <2>3, <2>4, <2>5, <2>6 DEF Operation
<1>. QED BY <1>1, <1>2, PTL DEF InscribeSpec

(***************************************************************************)
(* An operation that reports success has done it all, also when the user   *)
(* deletes or writes the source between its calls, and after any retries.  *)
(***************************************************************************)
THEOREM OkIsDoneHolds == Spec => OkIsDone
<1>1. DoneInv /\ [Operation \/ User]_inscribeVars
        => [result = "none" /\ result' = "ok" =>
              /\ kind # "copy" => src' = None
              /\ kind # "delete" => dst' \in Versions]_inscribeVars
  <2>. SUFFICES ASSUME DoneInv, Operation \/ User, result = "none", result' = "ok"
                PROVE  /\ kind # "copy" => src' = None
                       /\ kind # "delete" => dst' \in Versions
    OBVIOUS
  <2>1. CASE Rename
    BY <2>1 DEF DoneInv, Rename, Returns
  <2>2. CASE CopyBegins \/ CopyEnds
    BY <2>2, InscribeConstantsOK DEF DoneInv, CopyBegins, CopyEnds, Fails, Returns
  <2>3. CASE RemoveSource
    BY <2>3 DEF DoneInv, RemoveSource, Fails, Returns
  <2>4. CASE Exists \/ Retry \/ User
    BY <2>4 DEF Exists, Retry, User, Returns
  <2>. QED BY <2>1, <2>2, <2>3, <2>4 DEF Operation
<1>. QED BY <1>1, DoneInvariant, RunsInscribe, PTL DEF InscribeSpec, OkIsDone
=============================================================================
