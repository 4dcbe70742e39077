------------------------ MODULE BlizzardConfigProofs ------------------------
(***************************************************************************)
(* Proofs about BlizzardConfig, for any tasks that change settings, any    *)
(* entries, reasons and number of power failures: type correctness, that a *)
(* device that will not open its portal has a name and a password that     *)
(* belong together, and that a call that has returned is remembered.       *)
(***************************************************************************)
EXTENDS BlizzardConfig, SequenceTheorems, TLAPS

-----------------------------------------------------------------------------
(* Calls as sequences of statements.                                       *)

\* One statement, and the statements of a call.
Stm(d, k, v) == [do |-> d, key |-> k, val |-> v]
Said(s)      == {s[i] : i \in 1 .. Len(s)}

\* The settings Remembered is about.
Kept == {"DHCP", "SSID", "PASS", "MODE", "WIFI"}

\* The rest of a call: what is written has a value of its kind, a write to flash is
\* committed next, and a kept setting is written to memory and at once to flash.
Proper(s) ==
  /\ s \in Seq(Statement)
  /\ \A i \in 1 .. Len(s) :
       /\ s[i].do \in {"ram", "set", "adapter"} => s[i].val # Absent
       /\ s[i].do = "set" => /\ s[i].val \notin {Zero, "lease"}
                             /\ i < Len(s) /\ s[i + 1].do = "commit"
       /\ s[i].do = "ram" /\ s[i].key \in Kept =>
            i < Len(s) /\ s[i + 1] = Stm("set", s[i].key, s[i].val)
       /\ s[i].do = "set" /\ s[i].key \in Kept /\ i > 1 =>
            s[i - 1] = Stm("ram", s[i].key, s[i].val)

\* It can be put behind another call: it does not begin with a kept setting's write
\* to flash.
Opens(s) == s # << >> => ~(s[1].do = "set" /\ s[1].key \in Kept)

\* Short tuples joined.
LEMMA TwoJoined == \A a, b : <<a>> \o <<b>> = <<a, b>>
<1> SUFFICES ASSUME NEW a, NEW b PROVE <<a>> \o <<b>> = <<a, b>>
  OBVIOUS
<1> DEFINE z == <<a>> \o <<b>>
<1>1. <<a>> \in Seq({a, b}) /\ <<b>> \in Seq({a, b}) /\ <<a, b>> \in Seq({a, b}) /\ Len(<<a, b>>) = 2
  OBVIOUS
<1>2. z \in Seq({a, b}) /\ Len(z) = 2 /\ z[1] = a /\ z[2] = b
  BY <1>1
<1>3. \A i \in 1 .. 2 : z[i] = <<a, b>>[i]
  BY <1>2
<1> HIDE DEF z
<1> QED BY <1>1, <1>2, <1>3, SeqEqual DEF z

\* One and a pair.
LEMMA OneAndTwo == \A a, b, c : <<a>> \o <<b, c>> = <<a, b, c>>
<1> SUFFICES ASSUME NEW a, NEW b, NEW c PROVE <<a>> \o <<b, c>> = <<a, b, c>>
  OBVIOUS
<1> DEFINE z == <<a>> \o <<b, c>>
<1>1. <<a>> \in Seq({a, b, c}) /\ <<b, c>> \in Seq({a, b, c}) /\ <<a, b, c>> \in Seq({a, b, c}) /\ Len(<<a, b, c>>) = 3
  OBVIOUS
<1>2. z \in Seq({a, b, c}) /\ Len(z) = 3 /\ z[1] = a /\ z[2] = b /\ z[3] = c
  BY <1>1
<1>3. \A i \in 1 .. 3 : z[i] = <<a, b, c>>[i]
  BY <1>2
<1> HIDE DEF z
<1> QED BY <1>1, <1>2, <1>3, SeqEqual DEF z

\* A pair and one.
LEMMA TwoAndOne == \A a, b, c : <<a, b>> \o <<c>> = <<a, b, c>>
<1> SUFFICES ASSUME NEW a, NEW b, NEW c PROVE <<a, b>> \o <<c>> = <<a, b, c>>
  OBVIOUS
<1> DEFINE z == <<a, b>> \o <<c>>
<1>1. <<a, b>> \in Seq({a, b, c}) /\ <<c>> \in Seq({a, b, c}) /\ <<a, b, c>> \in Seq({a, b, c}) /\ Len(<<a, b, c>>) = 3
  OBVIOUS
<1>2. z \in Seq({a, b, c}) /\ Len(z) = 3 /\ z[1] = a /\ z[2] = b /\ z[3] = c
  BY <1>1
<1>3. \A i \in 1 .. 3 : z[i] = <<a, b, c>>[i]
  BY <1>2
<1> HIDE DEF z
<1> QED BY <1>1, <1>2, <1>3, SeqEqual DEF z

\* A triple and one.
LEMMA ThreeAndOne == \A a, b, c, d : <<a, b, c>> \o <<d>> = <<a, b, c, d>>
<1> SUFFICES ASSUME NEW a, NEW b, NEW c, NEW d PROVE <<a, b, c>> \o <<d>> = <<a, b, c, d>>
  OBVIOUS
<1> DEFINE z == <<a, b, c>> \o <<d>>
<1>1. <<a, b, c>> \in Seq({a, b, c, d}) /\ <<d>> \in Seq({a, b, c, d}) /\ <<a, b, c, d>> \in Seq({a, b, c, d}) /\ Len(<<a, b, c, d>>) = 4
  OBVIOUS
<1>2. z \in Seq({a, b, c, d}) /\ Len(z) = 4 /\ z[1] = a /\ z[2] = b /\ z[3] = c /\ z[4] = d
  BY <1>1
<1>3. \A i \in 1 .. 4 : z[i] = <<a, b, c, d>>[i]
  BY <1>2
<1> HIDE DEF z
<1> QED BY <1>1, <1>2, <1>3, SeqEqual DEF z

\* The calls spelt out.
LEMMA UpdateIs == \A k, v : Update(k, v) = <<Stm("set", k, v), Stm("commit", k, v)>>
  BY TwoJoined DEF Update, St, Stm

\* A setter that stores writes memory, then flash; setMac the other way round.
LEMMA SetterIs ==
  ASSUME NEW k \in Keys, NEW v
  PROVE  /\ k \in Saved => Setter(k, v) = <<Stm("ram", k, v), Stm("set", k, v), Stm("commit", k, v)>>
         /\ k = "MAC" => Setter(k, v) = <<Stm("set", k, v), Stm("commit", k, v), Stm("ram", k, v)>>
         /\ k \in {"IP", "GATEWAY"} /\ initDone =>
              Setter(k, v) = <<Stm("adapter", k, v), Stm("set", k, v), Stm("commit", k, v), Stm("ram", k, v)>>
         /\ k \in {"IP", "GATEWAY"} /\ ~initDone => Setter(k, v) = <<Stm("ram", k, v)>>
         /\ k = "SLOTS" => Setter(k, v) = <<Stm("ram", k, v)>>
<1> DEFINE r == Stm("ram", k, v)
           s == Stm("set", k, v)
           c == Stm("commit", k, v)
           d == Stm("adapter", k, v)
<1>0. Update(k, v) = <<s, c>> /\ St("ram", k, v) = <<r>> /\ St("adapter", k, v) = <<d>>
  BY UpdateIs DEF St, Stm
<1> HIDE DEF r, s, c, d
<1>1. CASE k \in Saved
  <2>1. Setter(k, v) = St("ram", k, v) \o Update(k, v)
    BY <1>1 DEF Setter, Saved
  <2> QED BY <1>0, <1>1, <2>1, OneAndTwo DEF Saved, r, s, c
<1>2. CASE k = "MAC"
  <2>1. Setter(k, v) = Update(k, v) \o St("ram", k, v)
    BY <1>2 DEF Setter, Saved
  <2> QED BY <1>0, <1>2, <2>1, TwoAndOne DEF Saved, r, s, c
<1>3. CASE k \in {"IP", "GATEWAY"} /\ initDone
  <2>1. Setter(k, v) = St("adapter", k, v) \o Update(k, v) \o St("ram", k, v)
    BY <1>3 DEF Setter, Saved
  <2>2. Setter(k, v) = <<d, s, c, r>>
    <3>1. Setter(k, v) = (<<d>> \o <<s, c>>) \o <<r>>
      BY <1>0, <2>1
    <3>2. <<d>> \o <<s, c>> = <<d, s, c>> /\ <<d, s, c>> \o <<r>> = <<d, s, c, r>>
      BY OneAndTwo, ThreeAndOne
    <3> QED BY <3>1, <3>2
  <2> QED BY <1>3, <2>2 DEF Saved, r, s, c, d
<1>4. CASE k \in {"IP", "GATEWAY"} /\ ~initDone
  BY <1>4 DEF Setter, St, Saved, Stm
<1>5. CASE k = "SLOTS"
  BY <1>5 DEF Setter, St, Saved, Stm
<1> QED BY <1>1, <1>2, <1>3, <1>4, <1>5 DEF Saved

\* Only the empty call has no statements.
LEMMA EmptyLen ==
  ASSUME NEW s \in Seq(Statement)
  PROVE  Len(s) \in Nat /\ (s = << >> <=> Len(s) = 0)
  OBVIOUS

\* The statements of what is left of a call, and of two calls in a row.
LEMMA SaidTail ==
  ASSUME NEW s \in Seq(Statement), s # << >>
  PROVE  /\ Head(s) \in Said(s) /\ Said(Tail(s)) \subseteq Said(s)
         /\ Said(s) = {Head(s)} \cup Said(Tail(s))
         /\ Head(s) = s[1] /\ Tail(s) \in Seq(Statement) /\ Len(Tail(s)) = Len(s) - 1
         /\ \A i \in 1 .. Len(s) - 1 : Tail(s)[i] = s[i + 1]
<1>1. /\ Len(s) \in Nat /\ Len(s) > 0 /\ Head(s) = s[1]
      /\ Tail(s) \in Seq(Statement) /\ Len(Tail(s)) = Len(s) - 1
      /\ \A i \in 1 .. Len(s) - 1 : Tail(s)[i] = s[i + 1]
  BY EmptyLen
<1>2. Head(s) \in Said(s) /\ Said(Tail(s)) \subseteq Said(s)
  BY <1>1 DEF Said
<1>3. ASSUME NEW i \in 1 .. Len(s) PROVE s[i] \in {Head(s)} \cup Said(Tail(s))
  <2>1. CASE i = 1
    BY <1>1, <2>1
  <2>2. CASE i # 1
    <3>1. i - 1 \in 1 .. Len(Tail(s)) /\ (i - 1) + 1 = i
      BY <1>1, <2>2
    <3>2. Tail(s)[i - 1] = s[i]
      BY <1>1, <3>1
    <3> QED BY <3>1, <3>2 DEF Said
  <2> QED BY <2>1, <2>2
<1> QED BY <1>1, <1>2, <1>3 DEF Said

\* Two calls in a row.
LEMMA SaidJoin ==
  ASSUME NEW r \in Seq(Statement), NEW s \in Seq(Statement)
  PROVE  /\ r \o s \in Seq(Statement) /\ Len(r \o s) = Len(r) + Len(s)
         /\ \A i \in 1 .. Len(r) : (r \o s)[i] = r[i]
         /\ \A i \in 1 .. Len(s) : (r \o s)[Len(r) + i] = s[i]
         /\ \A i \in 1 .. Len(r) + Len(s) : i > Len(r) =>
              i - Len(r) \in 1 .. Len(s) /\ (r \o s)[i] = s[i - Len(r)]
         /\ Said(r \o s) = Said(r) \cup Said(s)
<1>1. r \o s \in Seq(Statement) /\ Len(r \o s) = Len(r) + Len(s) /\ Len(r) \in Nat /\ Len(s) \in Nat
  OBVIOUS
<1>2. ASSUME NEW i \in 1 .. Len(r) PROVE (r \o s)[i] = r[i]
  OBVIOUS
<1>3. ASSUME NEW i \in 1 .. Len(s) PROVE (r \o s)[Len(r) + i] = s[i]
  <2>1. Len(r) + i \in 1 .. Len(r) + Len(s) /\ Len(r) + i > Len(r) /\ (Len(r) + i) - Len(r) = i
    BY <1>1
  <2> QED BY <2>1
<1>4. ASSUME NEW i \in 1 .. Len(r) + Len(s), i > Len(r)
      PROVE  i - Len(r) \in 1 .. Len(s) /\ (r \o s)[i] = s[i - Len(r)]
  BY <1>1, <1>4
<1>5. Said(r \o s) = Said(r) \cup Said(s)
  <2>1. ASSUME NEW i \in 1 .. Len(r) + Len(s) PROVE (r \o s)[i] \in Said(r) \cup Said(s)
    BY <1>1, <1>2, <1>4 DEF Said
  <2>2. ASSUME NEW i \in 1 .. Len(r) PROVE r[i] \in Said(r \o s)
    <3>1. i \in 1 .. Len(r \o s) /\ (r \o s)[i] = r[i]
      BY <1>1, <1>2
    <3> QED BY <3>1 DEF Said
  <2>3. ASSUME NEW i \in 1 .. Len(s) PROVE s[i] \in Said(r \o s)
    <3>1. Len(r) + i \in 1 .. Len(r \o s) /\ (r \o s)[Len(r) + i] = s[i]
      BY <1>1, <1>3
    <3> QED BY <3>1 DEF Said
  <2> QED BY <1>1, <2>1, <2>2, <2>3 DEF Said
<1> QED BY <1>1, <1>2, <1>3, <1>4, <1>5

\* What is left of a proper call is proper; behind a write of a kept setting to memory
\* comes its write to flash, and such a write to flash comes from nowhere else.
LEMMA ProperTail ==
  ASSUME NEW s, Proper(s), s # << >>
  PROVE  /\ Proper(Tail(s))
         /\ Head(s).do = "ram" /\ Head(s).key \in Kept =>
              Tail(s) # << >> /\ Head(Tail(s)) = Stm("set", Head(s).key, Head(s).val)
         /\ Head(s).do = "set" => \E x \in Said(Tail(s)) : x.do = "commit"
         /\ ~Opens(Tail(s)) => Head(s) = Stm("ram", Tail(s)[1].key, Tail(s)[1].val)
<1> DEFINE t == Tail(s)
<1>1. /\ s \in Seq(Statement) /\ t \in Seq(Statement) /\ Head(s) = s[1] /\ Len(t) = Len(s) - 1
      /\ \A i \in 1 .. Len(s) - 1 : t[i] = s[i + 1]
      /\ Len(s) \in Nat /\ Len(s) > 0
  BY SaidTail, EmptyLen DEF Proper
<1> HIDE DEF t
<1>2. t # << >> <=> Len(s) > 1
  BY <1>1, EmptyLen
<1>3. ASSUME NEW i \in 1 .. Len(t)
      PROVE  /\ t[i].do \in {"ram", "set", "adapter"} => t[i].val # Absent
             /\ t[i].do = "set" => /\ t[i].val \notin {Zero, "lease"}
                                   /\ i < Len(t) /\ t[i + 1].do = "commit"
             /\ t[i].do = "ram" /\ t[i].key \in Kept =>
                  i < Len(t) /\ t[i + 1] = Stm("set", t[i].key, t[i].val)
             /\ t[i].do = "set" /\ t[i].key \in Kept /\ i > 1 =>
                  t[i - 1] = Stm("ram", t[i].key, t[i].val)
  <2>1. /\ i \in Nat /\ i + 1 \in 1 .. Len(s) /\ i + 1 > 1 /\ t[i] = s[i + 1]
        /\ (i + 1 < Len(s) => i < Len(t) /\ t[i + 1] = s[(i + 1) + 1])
        /\ (i > 1 => t[i - 1] = s[(i + 1) - 1])
    BY <1>1
  <2> DEFINE m == i + 1
  <2>2. m \in 1 .. Len(s) /\ m > 1 /\ t[i] = s[m]
        /\ (m < Len(s) => i < Len(t) /\ t[i + 1] = s[m + 1]) /\ (i > 1 => t[i - 1] = s[m - 1])
    BY <2>1
  <2> HIDE DEF m
  <2> QED BY <2>2 DEF Proper
<1>4. Proper(t)
  BY <1>1, <1>3 DEF Proper
<1>5. 1 \in 1 .. Len(s) /\ (Len(s) > 1 => 2 \in 1 .. Len(s) /\ t[1] = s[2] /\ 1 \in 1 .. Len(t))
  BY <1>1
<1>6. Head(s).do = "ram" /\ Head(s).key \in Kept =>
        t # << >> /\ Head(t) = Stm("set", Head(s).key, Head(s).val)
  <2>1. SUFFICES ASSUME Head(s).do = "ram", Head(s).key \in Kept
                 PROVE  t # << >> /\ Head(t) = Stm("set", Head(s).key, Head(s).val)
    OBVIOUS
  <2>2. 1 < Len(s) /\ s[1 + 1] = Stm("set", s[1].key, s[1].val)
    BY <1>1, <1>5, <2>1 DEF Proper
  <2> QED BY <1>1, <1>2, <1>5, <2>2
<1>7. Head(s).do = "set" => \E x \in Said(t) : x.do = "commit"
  <2>1. SUFFICES ASSUME Head(s).do = "set" PROVE \E x \in Said(t) : x.do = "commit"
    OBVIOUS
  <2>2. 1 < Len(s) /\ s[1 + 1].do = "commit"
    BY <1>1, <1>5, <2>1 DEF Proper
  <2>3. t[1] \in Said(t)
    BY <1>5, <2>2 DEF Said
  <2> QED BY <1>5, <2>2, <2>3
<1>8. ~Opens(t) => Head(s) = Stm("ram", t[1].key, t[1].val)
  <2>1. SUFFICES ASSUME ~Opens(t) PROVE Head(s) = Stm("ram", t[1].key, t[1].val)
    OBVIOUS
  <2>2. t # << >> /\ t[1].do = "set" /\ t[1].key \in Kept
    BY <2>1 DEF Opens
  <2>3. 2 \in 1 .. Len(s) /\ s[2].do = "set" /\ s[2].key \in Kept /\ t[1] = s[2]
    BY <1>2, <1>5, <2>2
  <2>4. s[2 - 1] = Stm("ram", s[2].key, s[2].val)
    BY <2>3 DEF Proper
  <2> QED BY <1>1, <2>3, <2>4
<1> QED BY <1>4, <1>6, <1>7, <1>8 DEF t

\* Two proper calls in a row are one.
LEMMA ProperJoin ==
  ASSUME NEW r, NEW s, Proper(r), Proper(s), Opens(s)
  PROVE  Proper(r \o s) /\ (Opens(r) => Opens(r \o s))
<1> DEFINE t == r \o s
           n == Len(r)
<1>1. /\ r \in Seq(Statement) /\ s \in Seq(Statement) /\ t \in Seq(Statement)
      /\ n \in Nat /\ Len(s) \in Nat /\ Len(t) = n + Len(s)
      /\ \A i \in 1 .. n : t[i] = r[i]
      /\ \A i \in 1 .. n + Len(s) : i > n => i - n \in 1 .. Len(s) /\ t[i] = s[i - n]
  BY SaidJoin, EmptyLen DEF Proper
<1> HIDE DEF t, n
<1>2. ASSUME NEW i \in 1 .. Len(t)
      PROVE  /\ t[i].do \in {"ram", "set", "adapter"} => t[i].val # Absent
             /\ t[i].do = "set" => /\ t[i].val \notin {Zero, "lease"}
                                   /\ i < Len(t) /\ t[i + 1].do = "commit"
             /\ t[i].do = "ram" /\ t[i].key \in Kept =>
                  i < Len(t) /\ t[i + 1] = Stm("set", t[i].key, t[i].val)
             /\ t[i].do = "set" /\ t[i].key \in Kept /\ i > 1 =>
                  t[i - 1] = Stm("ram", t[i].key, t[i].val)
  <2>1. CASE i <= n
    <3>1. /\ i \in 1 .. n /\ t[i] = r[i] /\ (i < n => i < Len(t) /\ t[i + 1] = r[i + 1])
          /\ (i > 1 => t[i - 1] = r[i - 1])
      BY <1>1, <2>1
    <3>2. i \in 1 .. Len(r) /\ n = Len(r)
      BY <3>1 DEF n
    <3> QED BY <3>1, <3>2 DEF Proper
  <2>2. CASE i > n
    <3> DEFINE m == i - n
    <3>1. /\ m \in 1 .. Len(s) /\ t[i] = s[m] /\ (m < Len(s) => i < Len(t) /\ t[i + 1] = s[m + 1])
          /\ (m > 1 => t[i - 1] = s[m - 1])
      <4>1. m \in 1 .. Len(s) /\ t[i] = s[m]
        BY <1>1, <2>2
      <4>2. m < Len(s) => i < Len(t) /\ t[i + 1] = s[m + 1]
        <5>1. SUFFICES ASSUME m < Len(s) PROVE i < Len(t) /\ t[i + 1] = s[m + 1]
          OBVIOUS
        <5>2. i + 1 \in 1 .. n + Len(s) /\ i + 1 > n /\ (i + 1) - n = m + 1 /\ i < Len(t)
          BY <1>1, <2>2, <5>1
        <5> QED BY <1>1, <5>2
      <4>3. m > 1 => t[i - 1] = s[m - 1]
        <5>1. SUFFICES ASSUME m > 1 PROVE t[i - 1] = s[m - 1]
          OBVIOUS
        <5>2. i - 1 \in 1 .. n + Len(s) /\ i - 1 > n /\ (i - 1) - n = m - 1
          BY <1>1, <2>2, <5>1
        <5> QED BY <1>1, <5>2
      <4> QED BY <4>1, <4>2, <4>3
    <3>2. m = 1 => ~(t[i].do = "set" /\ t[i].key \in Kept)
      <4>1. m = 1 => s # << >>
        BY <1>1, <3>1, EmptyLen
      <4> QED BY <3>1, <4>1 DEF Opens
    <3>3. m \in Nat /\ (m = 1 \/ m > 1)
      BY <1>1, <3>1
    <3> HIDE DEF m
    <3> QED BY <3>1, <3>2, <3>3 DEF Proper
  <2> QED BY <1>1, <2>1, <2>2
<1>3. Proper(t)
  BY <1>1, <1>2 DEF Proper
<1>4. Opens(r) => Opens(t)
  <2>1. CASE n = 0
    <3>1. Len(s) > 0 => t[1] = s[1]
      BY <1>1, <2>1
    <3>2. (t = << >> <=> Len(t) = 0) /\ (s = << >> <=> Len(s) = 0)
      BY <1>1, EmptyLen
    <3> QED BY <1>1, <2>1, <3>1, <3>2 DEF Opens
  <2>2. CASE n > 0
    <3>1. t[1] = r[1] /\ r # << >>
      BY <1>1, <2>2, EmptyLen DEF n
    <3> QED BY <3>1 DEF Opens
  <2> QED BY <1>1, <2>1, <2>2
<1> QED BY <1>3, <1>4 DEF t

\* A value that flash may hold.
Storable == Values \ {Absent, Zero, "lease"}

\* The statements of short calls.
LEMMA SaidShort ==
  /\ Said(<< >>) = {}
  /\ \A a : Said(<<a>>) = {a}
  /\ \A a, b : Said(<<a, b>>) = {a, b}
  /\ \A a, b, c : Said(<<a, b, c>>) = {a, b, c}
  /\ \A a, b, c, d : Said(<<a, b, c, d>>) = {a, b, c, d}
<1>1. 1 .. 0 = {} /\ 1 .. 1 = {1} /\ 1 .. 2 = {1, 2} /\ 1 .. 3 = {1, 2, 3} /\ 1 .. 4 = {1, 2, 3, 4}
  OBVIOUS
<1> QED BY <1>1 DEF Said

\* A write of one setting to flash, and nothing, are proper calls.
LEMMA ProperUpdate ==
  ASSUME NEW k \in Keys, NEW v \in Storable
  PROVE  /\ Proper(Update(k, v)) /\ Update(k, v) # << >>
         /\ Said(Update(k, v)) = {Stm("set", k, v), Stm("commit", k, v)}
         /\ Head(Update(k, v)) = Stm("set", k, v)
<1>1. Update(k, v) = <<Stm("set", k, v), Stm("commit", k, v)>>
  BY UpdateIs
<1>2. Stm("set", k, v) \in Statement /\ Stm("commit", k, v) \in Statement
  BY DEF Stm, Statement, Storable
<1>3. Proper(Update(k, v))
  BY <1>1, <1>2 DEF Proper, Stm, Storable
<1> QED BY <1>1, <1>3, SaidShort

\* What a setter does is a proper call, of one key and one value.
LEMMA ProperSetter ==
  ASSUME NEW k \in Keys, NEW v \in Values \ {Absent},
         k = "SLOTS" \/ (k \in {"IP", "GATEWAY"} /\ ~initDone) \/ v \in Storable
  PROVE  /\ Proper(Setter(k, v)) /\ Opens(Setter(k, v)) /\ Setter(k, v) # << >>
         /\ \A x \in Said(Setter(k, v)) : x.key = k /\ x.val = v
         /\ k \in {"IP", "GATEWAY"} /\ ~initDone => \A x \in Said(Setter(k, v)) : x.do = "ram"
         /\ k \in Saved => /\ Setter(k, v) = <<Stm("ram", k, v), Stm("set", k, v), Stm("commit", k, v)>>
                           /\ Stm("set", k, v) \in Said(Setter(k, v))
                           /\ Head(Setter(k, v)) = Stm("ram", k, v)
         /\ ~(Head(Setter(k, v)).do = "set" /\ Head(Setter(k, v)).key \in Kept)
<1>1. \A d \in {"ram", "set", "commit", "adapter"} :
        /\ Stm(d, k, v) \in Statement /\ Stm(d, k, v).do = d /\ Stm(d, k, v).key = k /\ Stm(d, k, v).val = v
  BY DEF Stm, Statement
<1>2. CASE k \in Saved
  <2>1. Setter(k, v) = <<Stm("ram", k, v), Stm("set", k, v), Stm("commit", k, v)>> /\ v \in Storable
    BY <1>2, SetterIs DEF Saved
  <2>2. Proper(Setter(k, v))
    BY <1>1, <2>1 DEF Proper, Storable
  <2>3. Said(Setter(k, v)) = {Stm("ram", k, v), Stm("set", k, v), Stm("commit", k, v)}
    BY <2>1, SaidShort
  <2> QED BY <1>1, <1>2, <2>1, <2>2, <2>3 DEF Opens, Saved
<1>3. CASE k = "MAC"
  <2>1. Setter(k, v) = <<Stm("set", k, v), Stm("commit", k, v), Stm("ram", k, v)>> /\ v \in Storable
    BY <1>3, SetterIs DEF Saved
  <2>2. Proper(Setter(k, v))
    <3> DEFINE s == Setter(k, v)
    <3>1. /\ s \in Seq(Statement) /\ Len(s) = 3
          /\ s[1] = Stm("set", k, v) /\ s[2] = Stm("commit", k, v) /\ s[3] = Stm("ram", k, v)
      BY <1>1, <2>1
    <3>2. k \notin Kept /\ v # Absent /\ v \notin {Zero, "lease"}
      BY <1>3, <2>1 DEF Kept, Storable
    <3> HIDE DEF s
    <3>3. \A i \in 1 .. Len(s) : i = 1 \/ i = 2 \/ i = 3
      BY <3>1
    <3>4. Proper(s)
      BY <1>1, <3>1, <3>2, <3>3 DEF Proper
    <3> QED BY <3>4 DEF s
  <2>3. Said(Setter(k, v)) = {Stm("ram", k, v), Stm("set", k, v), Stm("commit", k, v)}
    BY <2>1, SaidShort
  <2> QED BY <1>1, <1>3, <2>1, <2>2, <2>3 DEF Opens, Saved, Kept
<1>4. CASE k \in {"IP", "GATEWAY"} /\ initDone
  <2>1. /\ Setter(k, v) = <<Stm("adapter", k, v), Stm("set", k, v), Stm("commit", k, v), Stm("ram", k, v)>>
        /\ v \in Storable
    BY <1>4, SetterIs DEF Saved
  <2>2. Proper(Setter(k, v))
    BY <1>1, <1>4, <2>1 DEF Proper, Storable, Kept
  <2>3. Said(Setter(k, v)) = {Stm("adapter", k, v), Stm("ram", k, v), Stm("set", k, v), Stm("commit", k, v)}
    BY <2>1, SaidShort
  <2> QED BY <1>1, <1>4, <2>1, <2>2, <2>3 DEF Opens, Saved, Kept
<1>5. CASE k = "SLOTS" \/ (k \in {"IP", "GATEWAY"} /\ ~initDone)
  <2>1. Setter(k, v) = <<Stm("ram", k, v)>>
    BY <1>5, SetterIs DEF Saved
  <2>2. Proper(Setter(k, v))
    BY <1>1, <1>5, <2>1 DEF Proper, Kept
  <2>3. Said(Setter(k, v)) = {Stm("ram", k, v)}
    BY <2>1, SaidShort
  <2> QED BY <1>1, <1>5, <2>1, <2>2, <2>3 DEF Opens, Saved, Kept
<1> QED BY <1>2, <1>3, <1>4, <1>5 DEF Keys, Saved

\* The restart, and nothing.
LEMMA ProperRestart ==
  /\ Proper(Restart) /\ Opens(Restart) /\ Said(Restart) = {Stm("restart", "WIFI", Zero)} /\ Restart # << >>
  /\ Proper(<< >>) /\ Opens(<< >>) /\ Said(<< >>) = {}
<1>1. Restart = <<Stm("restart", "WIFI", Zero)>> /\ Stm("restart", "WIFI", Zero) \in Statement
  BY DEF Restart, St, Stm, Statement, Keys, Values
<1>2. Proper(Restart) /\ Opens(Restart)
  BY <1>1 DEF Proper, Opens, Stm
<1>3. Proper(<< >>) /\ Opens(<< >>)
  BY DEF Proper, Opens
<1> QED BY <1>1, <1>2, <1>3, SaidShort

-----------------------------------------------------------------------------
(* Type correctness.                                                       *)

\* What the steps count on beyond the types.
Proceeds == /\ TypeOK /\ adapter # Absent /\ \A t \in Tasks : Proper(todo[t])
            /\ initDone <=> phase = "running"

\* What may be entered, and the defaults, can be stored.
LEMMA StorableValues ==
  /\ Entries \subseteq Storable
  /\ {"factory", "on", "off", "chosen"} \subseteq Storable
  /\ Storable \subseteq Values \ {Absent} /\ Zero \in Values \ {Absent}
  /\ \A k \in Keys : Default(k) \in Storable
  BY ConfigAssumption DEF Storable, Values, Absent, Zero, Default

\* Main and the event task are tasks, and no client is one of them.
LEMMA TaskNames ==
  /\ "main" \in Tasks /\ "event" \in Tasks /\ Clients \subseteq Tasks
  /\ "main" \notin Clients /\ "event" \notin Clients
  /\ \A t \in Tasks : t = "main" \/ t = "event" \/ t \in Clients
  BY ConfigAssumption DEF Tasks

\* A task begins a proper call.
LEMMA CallsLaws ==
  ASSUME Proceeds, NEW t \in Tasks, NEW ss, Proper(ss), Calls(t, ss)
  PROVE  /\ todo' \in [Tasks -> Seq(Statement)] /\ todo'[t] = ss
         /\ \A u \in Tasks : u # t => todo'[u] = todo[u]
         /\ \A u \in Tasks : Proper(todo'[u])
<1>1. ss \in Seq(Statement)
  BY DEF Proper
<1>2. /\ todo' \in [Tasks -> Seq(Statement)] /\ todo'[t] = ss
      /\ \A u \in Tasks : u # t => todo'[u] = todo[u]
  BY <1>1 DEF Calls, Proceeds, TypeOK
<1> QED BY <1>2 DEF Proceeds

\* A task executes the next statement of its call.
LEMMA RestLaws ==
  ASSUME Proceeds, NEW t \in Tasks, NEW d, Does(t, d), todo' = Rest(t)
  PROVE  /\ todo' \in [Tasks -> Seq(Statement)] /\ todo[t] # << >> /\ todo'[t] = Tail(todo[t])
         /\ \A u \in Tasks : u # t => todo'[u] = todo[u]
         /\ \A u \in Tasks : Proper(todo'[u])
         /\ Now(t) \in Statement /\ Now(t) = Head(todo[t]) /\ Now(t).do = d
         /\ Now(t) \in Said(todo[t]) /\ Said(todo[t]) = {Now(t)} \cup Said(todo'[t])
         /\ d \in {"ram", "set", "adapter"} => Now(t).val # Absent
         /\ d = "set" => Now(t).val \in Storable
<1>1. todo[t] \in Seq(Statement) /\ todo[t] # << >> /\ Proper(todo[t])
  BY DEF Does, Proceeds, TypeOK
<1>2. /\ Tail(todo[t]) \in Seq(Statement) /\ Proper(Tail(todo[t])) /\ Head(todo[t]) = todo[t][1]
      /\ Head(todo[t]) \in Said(todo[t]) /\ Said(todo[t]) = {Head(todo[t])} \cup Said(Tail(todo[t]))
  BY <1>1, SaidTail, ProperTail
<1>3. todo' = [todo EXCEPT ![t] = Tail(todo[t])]
  BY DEF Rest
<1>4. /\ todo' \in [Tasks -> Seq(Statement)] /\ todo'[t] = Tail(todo[t])
      /\ \A u \in Tasks : u # t => todo'[u] = todo[u]
  BY <1>2, <1>3 DEF Proceeds, TypeOK
<1>5. \A u \in Tasks : Proper(todo'[u])
  BY <1>2, <1>4 DEF Proceeds
<1>6. 1 \in 1 .. Len(todo[t]) /\ todo[t][1] \in Statement
  BY <1>1, EmptyLen
<1>7. /\ Now(t) \in Statement /\ Now(t) = todo[t][1] /\ Now(t).do = d
  BY <1>2, <1>6 DEF Now, Does
<1>8. /\ d \in {"ram", "set", "adapter"} => Now(t).val # Absent
      /\ d = "set" => Now(t).val \notin {Zero, "lease"}
  BY <1>1, <1>6, <1>7 DEF Proper
<1>9. Now(t).val \in Values
  BY <1>7 DEF Statement
<1> QED BY <1>1, <1>2, <1>4, <1>5, <1>7, <1>8, <1>9 DEF Now, Storable

\* What the boot leaves.
LEMMA BootLaws ==
  ASSUME Boot
  PROVE  /\ ram' \in [Keys -> Values \ {Absent}] /\ nvsUp' \in BOOLEAN /\ initDone' = FALSE /\ bit' = FALSE
         /\ adapter' = Zero /\ at' = 1 /\ phase' = "load" /\ link' = "idle" /\ event' = "none"
         /\ todo' \in [Tasks -> Seq(Statement)] /\ \A t \in Tasks : Proper(todo'[t])
         /\ todo'["main"] = Update("MAC", "factory") /\ \A t \in Tasks : t # "main" => todo'[t] = << >>
<1>1. Proper(Update("MAC", "factory")) /\ Update("MAC", "factory") \in Seq(Statement)
  BY ProperUpdate, StorableValues DEF Keys, Proper
<1>2. /\ todo'["main"] = Update("MAC", "factory") /\ \A t \in Tasks : t # "main" => todo'[t] = << >>
      /\ todo' \in [Tasks -> Seq(Statement)]
  BY <1>1, TaskNames DEF Boot
<1>3. \A t \in Tasks : Proper(todo'[t])
  BY <1>1, <1>2, ProperRestart
<1>4. ram' \in [Keys -> Values \ {Absent}]
  BY StorableValues DEF Boot
<1> QED BY <1>2, <1>3, <1>4 DEF Boot

\* The calls of the portal, of the event handler and of a client.
LEMMA PortalProper ==
  ASSUME NEW e \in Entries
  PROVE  Proper(PortalDone(e)) /\ Opens(PortalDone(e))
<1>1. e \in Storable /\ e \in Values \ {Absent} /\ "off" \in Storable /\ "off" \in Values \ {Absent}
  BY StorableValues
<1>2. /\ Proper(Setter("SSID", e)) /\ Opens(Setter("SSID", e))
      /\ Proper(Setter("PASS", e)) /\ Opens(Setter("PASS", e))
      /\ Proper(Setter("WIFI", "off")) /\ Opens(Setter("WIFI", "off"))
  BY <1>1, ProperSetter DEF Keys
<1>3. Proper(setPass(e)) /\ Opens(setPass(e))
  BY <1>2, ProperRestart DEF setPass
<1>4. /\ Proper(Setter("SSID", e) \o setPass(e)) /\ Opens(Setter("SSID", e) \o setPass(e))
  BY <1>2, <1>3, ProperJoin
<1>5. /\ Proper(Setter("SSID", e) \o setPass(e) \o Setter("WIFI", "off"))
      /\ Opens(Setter("SSID", e) \o setPass(e) \o Setter("WIFI", "off"))
  BY <1>2, <1>4, ProperJoin
<1> QED BY <1>5, ProperJoin, ProperRestart DEF PortalDone

\* After a refusal the portal is switched on, and the device restarts.
LEMMA GiveUpProper ==
  ASSUME NEW e
  PROVE  /\ Proper(GiveUp(e)) /\ Opens(GiveUp(e))
         /\ \A x \in Said(GiveUp(e)) : x.do \in {"ram", "set"} => x.key = "WIFI" /\ x.val = "on"
<1>1. /\ Proper(Setter("WIFI", "on")) /\ Opens(Setter("WIFI", "on"))
      /\ \A x \in Said(Setter("WIFI", "on")) : x.key = "WIFI" /\ x.val = "on"
  BY StorableValues, ProperSetter DEF Keys
<1>2. /\ Proper(Setter("WIFI", "on") \o Restart) /\ Opens(Setter("WIFI", "on") \o Restart)
  BY <1>1, ProperJoin, ProperRestart
<1>3. Said(Setter("WIFI", "on") \o Restart) = Said(Setter("WIFI", "on")) \cup {Stm("restart", "WIFI", Zero)}
  BY <1>1, SaidJoin, ProperRestart DEF Proper
<1>4. \A x \in Said(Setter("WIFI", "on") \o Restart) : x.do \in {"ram", "set"} => x.key = "WIFI" /\ x.val = "on"
  BY <1>1, <1>3 DEF Stm
<1> QED BY <1>2, <1>4, ProperRestart DEF GiveUp

\* A client changes neither name nor password, and switches the portal on only.
LEMMA ChangeProper ==
  ASSUME NEW ss \in Change
  PROVE  /\ Proper(ss) /\ Opens(ss)
         /\ \A x \in Said(ss) : x.key \notin {"SSID", "PASS"} /\ (x.key = "WIFI" => x.val = "on")
<1>1. \A k \in Keys, v \in {"factory", "chosen", "on", "off"} :
        /\ Proper(Setter(k, v)) /\ Opens(Setter(k, v)) /\ \A x \in Said(Setter(k, v)) : x.key = k /\ x.val = v
  BY StorableValues, ProperSetter
<1>2. CASE \E k \in Keys \ {"SSID", "PASS"}, v \in {"factory", "chosen", "on", "off"} :
             ss = Setter(k, v) /\ (k = "WIFI" => v = "on")
  BY <1>1, <1>2
<1>3. CASE ss = Setter("IP", "chosen") \o Setter("DHCP", "off")
  <2>1. /\ Proper(Setter("IP", "chosen")) /\ Proper(Setter("DHCP", "off"))
        /\ Opens(Setter("IP", "chosen")) /\ Opens(Setter("DHCP", "off"))
        /\ \A x \in Said(Setter("IP", "chosen")) : x.key = "IP"
        /\ \A x \in Said(Setter("DHCP", "off")) : x.key = "DHCP"
    BY <1>1 DEF Keys
  <2>2. Said(ss) = Said(Setter("IP", "chosen")) \cup Said(Setter("DHCP", "off"))
    BY <1>3, <2>1, SaidJoin DEF Proper
  <2> QED BY <1>3, <2>1, <2>2, ProperJoin
<1>4. CASE ss = Update("NAME", "chosen")
  <2>1. /\ Proper(ss) /\ Said(ss) = {Stm("set", "NAME", "chosen"), Stm("commit", "NAME", "chosen")}
    BY <1>4, ProperUpdate, StorableValues DEF Keys
  <2>2. Opens(ss)
    BY <1>4, UpdateIs DEF Opens, Stm, Kept
  <2> QED BY <2>1, <2>2 DEF Stm
<1> QED BY <1>2, <1>3, <1>4 DEF Change, Keys

\* The loader's list.
LEMMA LoadOrderLaws ==
  /\ Len(LoadOrder) = 10
  /\ LoadOrder[1] = "DHCP" /\ LoadOrder[2] = "NAME" /\ LoadOrder[3] = "SSID" /\ LoadOrder[4] = "PASS"
  /\ LoadOrder[5] = "MODE" /\ LoadOrder[6] = "IP" /\ LoadOrder[7] = "SLOTS" /\ LoadOrder[8] = "WIFI"
  /\ LoadOrder[9] = "MAC" /\ LoadOrder[10] = "GATEWAY"
  /\ \A i \in 1 .. 10 : LoadOrder[i] \in Keys
<1>1. /\ Len(LoadOrder) = 10
      /\ LoadOrder[1] = "DHCP" /\ LoadOrder[2] = "NAME" /\ LoadOrder[3] = "SSID" /\ LoadOrder[4] = "PASS"
      /\ LoadOrder[5] = "MODE" /\ LoadOrder[6] = "IP" /\ LoadOrder[7] = "SLOTS" /\ LoadOrder[8] = "WIFI"
      /\ LoadOrder[9] = "MAC" /\ LoadOrder[10] = "GATEWAY"
  BY DEF LoadOrder
<1>2. \A i \in 1 .. 10 : i = 1 \/ i = 2 \/ i = 3 \/ i = 4 \/ i = 5 \/ i = 6 \/ i = 7 \/ i = 8 \/ i = 9 \/ i = 10
  OBVIOUS
<1> QED BY <1>1, <1>2 DEF Keys

\* What the loader does with the key it has come to: its default goes to flash, or what
\* was read goes to its setter, or the setter refuses it.
LEMMA LoadLaws ==
  ASSUME Proceeds, Load
  PROVE  /\ phase = "load" /\ phase' = "load" /\ todo["main"] = << >> /\ at \in 1 .. 10
         /\ LoadOrder[at] \in Keys
         /\ \/ /\ at' = at /\ nvsUp /\ flash[LoadOrder[at]] = Absent
               /\ Calls("main", Update(LoadOrder[at], Default(LoadOrder[at])))
            \/ /\ at' = at + 1
               /\ \E v \in Values \ {Absent} :
                    /\ LoadOrder[at] = "SLOTS" \/ v \in Storable
                    /\ nvsUp => v = flash[LoadOrder[at]]
                    /\ Calls("main", Setter(Target(LoadOrder[at]), v))
            \/ at' = at + 1 /\ ~nvsUp /\ Calls("main", << >>)
<1> DEFINE k   == LoadOrder[at]
           got == IF nvsUp THEN flash[k] ELSE Scratch(k)
<1>1. phase = "load" /\ phase' = "load" /\ todo["main"] = << >> /\ at \in 1 .. 10
  BY LoadOrderLaws DEF Load, Main, Proceeds, TypeOK
<1>2. k \in Keys
  BY <1>1, LoadOrderLaws
<1>3. \/ got = Absent /\ Calls("main", Update(k, Default(k))) /\ UNCHANGED at
      \/ /\ got # Absent /\ at' = at + 1
         /\ \/ Calls("main", Setter(Target(k), got))
            \/ ~nvsUp /\ Calls("main", << >>)
  BY DEF Load, NotFound
<1>4. /\ nvsUp => got = flash[k]
      /\ ~nvsUp => got # Absent
      /\ got \in Values /\ (k = "SLOTS" \/ got = Absent \/ got \in Storable)
  <2>1. CASE nvsUp
    BY <1>2, <2>1 DEF Proceeds, TypeOK, Storable
  <2>2. CASE ~nvsUp
    BY <2>2, StorableValues DEF Scratch, Storable, Absent, Zero
  <2> QED BY <2>1, <2>2
<1> HIDE DEF k, got
<1> QED BY <1>1, <1>2, <1>3, <1>4 DEF k

\* The device is new.
LEMMA ProceedsInit == Init => Proceeds
<1> SUFFICES ASSUME Init PROVE Proceeds
  OBVIOUS
<1>1. Proper(Update("MAC", "factory")) /\ Update("MAC", "factory") \in Seq(Statement)
  BY ProperUpdate, StorableValues DEF Keys, Proper
<1>2. /\ todo["main"] = Update("MAC", "factory") /\ \A t \in Tasks : t # "main" => todo[t] = << >>
      /\ todo \in [Tasks -> Seq(Statement)]
  BY <1>1, TaskNames DEF Init
<1>3. \A t \in Tasks : Proper(todo[t])
  BY <1>1, <1>2, ProperRestart
<1>4. flash \in [Keys -> Values \ {Zero, "lease"}] /\ durable = flash /\ ram \in [Keys -> Values \ {Absent}]
  BY DEF Init, Values, Absent, Zero
<1>5. TypeOK
  <2>1. at \in 1 .. Len(LoadOrder) + 1 /\ cuts \in 0 .. MaxCuts
    BY LoadOrderLaws, ConfigAssumption DEF Init
  <2>2. {nvsUp, initDone, bit} \subseteq BOOLEAN /\ adapter \in Values
    BY StorableValues DEF Init
  <2>3. /\ phase \in {"load", "portal", "joining", "apply", "running"}
        /\ link \in {"idle", "trying", "up"}
        /\ event \in {"none", "GOT_IP", "NO_AP_FOUND", "OTHER", "AUTH_EXPIRE", "AUTH_FAIL"}
    BY DEF Init
  <2> QED BY ONLY <1>2, <1>4, <2>1, <2>2, <2>3 DEF TypeOK
<1> QED BY <1>3, <1>5, StorableValues DEF Init, Proceeds, Absent, Zero

\* A statement of a call is executed.
LEMMA ProceedsExec ==
  ASSUME Proceeds, NEW t \in Tasks, Exec(t)
  PROVE  Proceeds'
<1> USE DEF bootVars, netVars
<1>1. CASE WriteRam(t)
  <2>1. todo' \in [Tasks -> Seq(Statement)] /\ \A u \in Tasks : Proper(todo'[u])
    BY <1>1, RestLaws DEF WriteRam
  <2>2. Now(t).key \in Keys /\ Now(t).val \in Values \ {Absent}
    BY <1>1, RestLaws DEF WriteRam, Statement
  <2>3. ram' \in [Keys -> Values \ {Absent}]
    BY <1>1, <2>2 DEF WriteRam, Proceeds, TypeOK
  <2> QED BY <1>1, <2>1, <2>3 DEF WriteRam, Proceeds, TypeOK
<1>2. CASE nvs_set(t)
  <2>1. todo' \in [Tasks -> Seq(Statement)] /\ \A u \in Tasks : Proper(todo'[u])
    BY <1>2, RestLaws DEF nvs_set
  <2>2. Now(t).key \in Keys /\ Now(t).val \in Values \ {Zero, "lease"}
    BY <1>2, RestLaws DEF nvs_set, Statement, Storable
  <2>3. flash' \in [Keys -> Values \ {Zero, "lease"}] /\ durable' = durable
    BY <1>2, <2>2 DEF nvs_set, Proceeds, TypeOK
  <2> QED BY <1>2, <2>1, <2>3 DEF nvs_set, Proceeds, TypeOK
<1>3. CASE nvs_commit(t)
  <2>1. todo' \in [Tasks -> Seq(Statement)] /\ \A u \in Tasks : Proper(todo'[u])
    BY <1>3, RestLaws DEF nvs_commit
  <2> QED BY <1>3, <2>1 DEF nvs_commit, Proceeds, TypeOK
<1>4. CASE SetAdapter(t)
  <2>1. todo' \in [Tasks -> Seq(Statement)] /\ \A u \in Tasks : Proper(todo'[u])
    BY <1>4, RestLaws DEF SetAdapter
  <2>2. adapter' \in Values /\ adapter' # Absent
    BY <1>4, RestLaws DEF SetAdapter, Statement
  <2> QED BY <1>4, <2>1, <2>2 DEF SetAdapter, Proceeds, TypeOK
<1>5. CASE esp_restart(t)
  BY <1>5, BootLaws, LoadOrderLaws, StorableValues DEF esp_restart, Proceeds, TypeOK
<1> QED BY <1>1, <1>2, <1>3, <1>4, <1>5 DEF Exec

\* What a power failure leaves in flash is what was set or what was committed.
LEMMA CutLaws ==
  ASSUME Proceeds, PowerFails
  PROVE  /\ flash' \in [Keys -> Values \ {Zero, "lease"}] /\ durable' = flash' /\ Boot
         /\ \A k \in Keys : flash'[k] \in {flash[k], durable[k]}
  BY DEF PowerFails, Proceeds, TypeOK

\* Everything else.
LEMMA ProceedsOther ==
  ASSUME Proceeds,
         \/ PowerFails \/ MainStep \/ EventStep \/ Joined \/ Refused \/ Dropped
         \/ \E c \in Clients : client_call(c) \/ getIP(c)
  PROVE  Proceeds'
<1> USE DEF bootVars, netVars
<1>1. CASE PowerFails
  <2>1. cuts' \in 0 .. MaxCuts
    BY <1>1, ConfigAssumption DEF PowerFails, Proceeds, TypeOK
  <2>2. {flash, durable}' \subseteq [Keys -> Values \ {Zero, "lease"}] /\ Boot
    BY <1>1, CutLaws
  <2> QED BY <2>1, <2>2, BootLaws, LoadOrderLaws, StorableValues DEF Proceeds, TypeOK
<1>2. CASE Load
  <2>1. todo' \in [Tasks -> Seq(Statement)] /\ (\A t \in Tasks : Proper(todo'[t])) /\ at' \in 1 .. 11
    <3>1. Target(LoadOrder[at]) \in Keys /\ (Target(LoadOrder[at]) = "SLOTS" <=> LoadOrder[at] = "SLOTS")
      BY <1>2, LoadLaws DEF Target, Keys
    <3>2. \E ss : Proper(ss) /\ Calls("main", ss)
      BY <1>2, <3>1, LoadLaws, ProperSetter, ProperUpdate, ProperRestart, StorableValues
    <3> QED BY <1>2, <3>2, LoadLaws, CallsLaws, TaskNames
  <2> QED BY <1>2, <2>1, LoadLaws, LoadOrderLaws DEF Load, Main, Proceeds, TypeOK
<1>3. CASE start_connection_manager
  BY <1>3 DEF start_connection_manager, Main, Proceeds, TypeOK
<1>4. CASE start_wifi_manager
  <2>1. \E ss : Proper(ss) /\ Calls("main", ss)
    BY <1>4, PortalProper, ProperRestart DEF start_wifi_manager
  <2>2. todo' \in [Tasks -> Seq(Statement)] /\ \A t \in Tasks : Proper(todo'[t])
    BY <2>1, CallsLaws, TaskNames
  <2> QED BY <1>4, <2>2 DEF start_wifi_manager, Main, Proceeds, TypeOK
<1>5. CASE start_blizzard_wifi
  <2>1. phase = "joining" /\ phase' = "apply" /\ ~initDone
    BY <1>5 DEF start_blizzard_wifi, Main, Proceeds
  <2>2. /\ Proper(Setter("IP", ram["IP"])) /\ Proper(Setter("GATEWAY", ram["GATEWAY"]))
        /\ Opens(Setter("GATEWAY", ram["GATEWAY"]))
    BY <2>1, ProperSetter DEF Keys, Proceeds, TypeOK
  <2>3. Proper(Setter("IP", ram["IP"]) \o Setter("GATEWAY", ram["GATEWAY"]))
    BY <2>2, ProperJoin
  <2>4. \E ss : Proper(ss) /\ Calls("main", ss)
    BY <1>5, <2>3, ProperRestart DEF start_blizzard_wifi
  <2>5. todo' \in [Tasks -> Seq(Statement)] /\ \A t \in Tasks : Proper(todo'[t])
    BY <2>4, CallsLaws, TaskNames
  <2> QED BY <1>5, <2>1, <2>5 DEF start_blizzard_wifi, Proceeds, TypeOK
<1>6. CASE init_done
  BY <1>6 DEF init_done, Main, Proceeds, TypeOK
<1>7. CASE on_got_ip \/ on_disconnected
  <2>1. CASE on_got_ip
    BY <2>1 DEF on_got_ip, Handler, Proceeds, TypeOK
  <2>2. CASE on_disconnected
    BY <2>2 DEF on_disconnected, Handler, Proceeds, TypeOK
  <2> QED BY <1>7, <2>1, <2>2
<1>8. CASE on_give_up
  <2>1. \E ss : Proper(ss) /\ Calls("event", ss)
    BY <1>8, GiveUpProper DEF on_give_up
  <2>2. todo' \in [Tasks -> Seq(Statement)] /\ \A t \in Tasks : Proper(todo'[t])
    BY <2>1, CallsLaws, TaskNames
  <2> QED BY <1>8, <2>2 DEF on_give_up, Handler, Proceeds, TypeOK
<1>9. CASE Joined
  BY <1>9 DEF Joined, Post, Proceeds, TypeOK, Values, Absent
<1>10. CASE Refused \/ Dropped
  BY <1>10, ConfigAssumption DEF Refused, Dropped, Post, Proceeds, TypeOK
<1>11. ASSUME NEW c \in Clients, client_call(c) PROVE Proceeds'
  <2>1. \E ss : Proper(ss) /\ Calls(c, ss)
    BY <1>11, ChangeProper DEF client_call
  <2>2. todo' \in [Tasks -> Seq(Statement)] /\ \A t \in Tasks : Proper(todo'[t])
    BY <2>1, CallsLaws, TaskNames
  <2> QED BY <1>11, <2>2 DEF client_call, Proceeds, TypeOK
<1>12. ASSUME NEW c \in Clients, getIP(c) PROVE Proceeds'
  <2>1. ram' \in [Keys -> Values \ {Absent}]
    BY <1>12 DEF getIP, Proceeds, TypeOK
  <2> QED BY <1>12, <2>1 DEF getIP, Proceeds, TypeOK
<1> QED BY <1>1, <1>2, <1>3, <1>4, <1>5, <1>6, <1>7, <1>8, <1>9, <1>10, <1>11, <1>12 DEF MainStep, EventStep

\* Every step keeps the types.
LEMMA ProceedsNext == Proceeds /\ [Next]_vars => Proceeds'
<1> SUFFICES ASSUME Proceeds, [Next]_vars PROVE Proceeds'
  OBVIOUS
<1>1. CASE UNCHANGED vars
  BY <1>1 DEF vars, bootVars, netVars, Proceeds, TypeOK
<1>2. CASE Next
  BY <1>2, ProceedsExec, ProceedsOther DEF Next
<1> QED BY <1>1, <1>2

\* BlizzardConfig.TypeOK: memory never holds "absent", flash never holds a lease or
\* memory nobody wrote, and every call is made of statements, whoever makes it.
THEOREM ConfigTypeCorrect == Spec => []TypeOK
<1>1. Spec => []Proceeds
  BY ProceedsInit, ProceedsNext, PTL DEF Spec
<1>2. Proceeds => TypeOK
  BY DEF Proceeds
<1> QED BY <1>1, <1>2, PTL


-----------------------------------------------------------------------------
(* Who does what, and what is in step with what.                           *)

\* The writes that a task has still to make, and those to flash.
Writes(t) == {x \in Said(todo[t]) : x.do \in {"ram", "set"}}
Sets(t)   == {x \in Said(todo[t]) : x.do = "set"}

\* Who has something to do, and what, in each phase.
Jobs ==
  /\ phase # "load" => at = 11
  /\ phase \in {"load", "portal"} => link = "idle" /\ event = "none" /\ todo["event"] = << >>
  /\ phase \in {"joining", "apply"} => \A x \in Said(todo["main"]) : x.do = "ram" /\ x.key \notin Kept
  /\ phase = "running" => todo["main"] = << >>
  /\ phase # "running" => \A c \in Clients : todo[c] = << >>
  /\ \A x \in Writes("event") : x.key = "WIFI" /\ x.val = "on"
  /\ \A c \in Clients : \A x \in Writes(c) :
       x.key \notin {"SSID", "PASS"} /\ (x.key = "WIFI" => x.val = "on")

\* The loader works on one key at a time and writes back what it has read, or the
\* default of a key that is not there.
LoadsOne ==
  phase = "load" =>
    /\ \A x, y \in Said(todo["main"]) : x.key = y.key /\ x.val = y.val
    /\ \A x \in Sets("main") :
         nvsUp /\ x.key \in {"SSID", "PASS", "WIFI"} =>
           x.val = flash[x.key] \/ (flash[x.key] = Absent /\ x.val # "off")

\* What is not committed will be.
Commits == flash = durable \/ \E t \in Tasks : \E x \in Said(todo[t]) : x.do = "commit"

Loaded(k) == \E j \in 1 .. at - 1 : LoadOrder[j] = k
Solo      == \A c, d \in Clients : c = d

\* The next statement writes k to flash.
Setting(t, k) == todo[t] # << >> /\ Now(t).do = "set" /\ Now(t).key = k

\* A kept setting that was read is in memory as in flash, unless it is still to be set
\* there, and then it is set to what is in memory.
InStep ==
  nvsUp /\ (phase = "load" \/ Solo) =>
    \A k \in Kept : Loaded(k) =>
      /\ (\A t \in Tasks : \A x \in Sets(t) : x.key # k) => ram[k] = flash[k]
      /\ \A t \in Tasks : Setting(t, k) => Now(t).val = ram[k]

\* A statement other than a restart leaves the phase, and less to do.
Works(t) == WriteRam(t) \/ nvs_set(t) \/ nvs_commit(t) \/ SetAdapter(t)

\* What such a statement does to the calls: the next statement of a kept setting's write
\* to flash shows up only behind its write to memory.
LEMMA WorksLaws ==
  ASSUME Proceeds, NEW t \in Tasks, Works(t)
  PROVE  /\ UNCHANGED <<nvsUp, at, phase, initDone, bit, link, event, cuts>>
         /\ todo[t] # << >> /\ Now(t) \in Statement /\ Now(t) \in Said(todo[t])
         /\ Said(todo[t]) = {Now(t)} \cup Said(todo'[t])
         /\ \A u \in Tasks : u # t => todo'[u] = todo[u]
         /\ \A u \in Tasks : Said(todo'[u]) \subseteq Said(todo[u])
         /\ \A u \in Tasks : todo[u] = << >> => todo'[u] = << >>
         /\ todo'[t] = Tail(todo[t])
         /\ \A k \in Kept : Setting(t, k)' => Now(t).do = "ram" /\ Now(t).key = k /\ Now(t).val = Now(t)'.val
         /\ Now(t).do = "ram" /\ Now(t).key \in Kept =>
              Now(t)' \in Said(todo'[t]) /\ Now(t)'.do = "set" /\ Now(t)'.key = Now(t).key
         /\ Now(t).do = "set" => \E x \in Said(todo'[t]) : x.do = "commit"
<1>1. UNCHANGED <<nvsUp, at, phase, initDone, bit, link, event, cuts>>
  BY DEF Works, WriteRam, nvs_set, nvs_commit, SetAdapter, bootVars, netVars
<1>2. \E d : Does(t, d) /\ todo' = Rest(t)
  BY DEF Works, WriteRam, nvs_set, nvs_commit, SetAdapter
<1>3. /\ todo' \in [Tasks -> Seq(Statement)] /\ todo[t] # << >> /\ todo'[t] = Tail(todo[t])
      /\ \A u \in Tasks : u # t => todo'[u] = todo[u]
      /\ Now(t) \in Statement /\ Now(t) = Head(todo[t])
      /\ Now(t) \in Said(todo[t]) /\ Said(todo[t]) = {Now(t)} \cup Said(todo'[t])
  BY <1>2, RestLaws
<1>4. Proper(todo[t])
  BY DEF Proceeds
<1>5. /\ Now(t).do = "ram" /\ Now(t).key \in Kept =>
           todo'[t] # << >> /\ Head(todo'[t]) = Stm("set", Now(t).key, Now(t).val)
      /\ Now(t).do = "set" => \E x \in Said(todo'[t]) : x.do = "commit"
      /\ ~Opens(todo'[t]) => Now(t) = Stm("ram", todo'[t][1].key, todo'[t][1].val)
  BY <1>3, <1>4, ProperTail
<1>6. todo'[t] # << >> => Head(todo'[t]) = todo'[t][1] /\ Head(todo'[t]) \in Said(todo'[t])
  BY <1>3, SaidTail
<1>7. ASSUME NEW k \in Kept, Setting(t, k)'
      PROVE  Now(t).do = "ram" /\ Now(t).key = k /\ Now(t).val = Now(t)'.val
  <2>1. todo'[t] # << >> /\ Head(todo'[t]).do = "set" /\ Head(todo'[t]).key = k
    BY <1>7 DEF Setting, Now
  <2>2. ~Opens(todo'[t]) /\ Head(todo'[t]) = todo'[t][1]
    BY <1>6, <2>1 DEF Opens
  <2> QED BY <1>5, <2>1, <2>2 DEF Stm, Now
<1>8. Now(t).do = "ram" /\ Now(t).key \in Kept =>
        Now(t)' \in Said(todo'[t]) /\ Now(t)'.do = "set" /\ Now(t)'.key = Now(t).key
  BY <1>5, <1>6 DEF Now, Stm
<1>9. \A u \in Tasks : Said(todo'[u]) \subseteq Said(todo[u]) /\ (todo[u] = << >> => todo'[u] = << >>)
  BY <1>3
<1> QED BY <1>1, <1>3, <1>5, <1>7, <1>8, <1>9

\* After a boot main alone has something to do.
LEMMA BootJobs ==
  ASSUME Boot
  PROVE  /\ Jobs' /\ Said(todo'["main"]) = {Stm("set", "MAC", "factory"), Stm("commit", "MAC", "factory")}
         /\ \A t \in Tasks : t # "main" => todo'[t] = << >>
         /\ \A k \in Kept : ~Loaded(k)' /\ \A t \in Tasks : ~Setting(t, k)'
<1>1. /\ phase' = "load" /\ link' = "idle" /\ event' = "none" /\ at' = 1
      /\ todo'["main"] = Update("MAC", "factory") /\ \A t \in Tasks : t # "main" => todo'[t] = << >>
  BY BootLaws
<1>2. /\ Said(Update("MAC", "factory")) = {Stm("set", "MAC", "factory"), Stm("commit", "MAC", "factory")}
      /\ Head(Update("MAC", "factory")) = Stm("set", "MAC", "factory")
  BY ProperUpdate, StorableValues DEF Keys
<1>3. \A t \in Tasks : t # "main" => Said(todo'[t]) = {}
  BY <1>1, SaidShort
<1>4. Jobs'
  BY <1>1, <1>3, TaskNames DEF Jobs, Writes
<1>5. \A k \in Kept : ~Loaded(k)'
  BY <1>1 DEF Loaded
<1>6. \A k \in Kept, t \in Tasks : ~Setting(t, k)'
  BY <1>1, <1>2 DEF Setting, Now, Stm, Kept
<1> QED BY <1>1, <1>2, <1>4, <1>5, <1>6, TaskNames DEF Kept

\* A new device.
LEMMA JobsInit == Init => Jobs
  BY TaskNames, SaidShort DEF Init, Jobs, Writes

\* Doing what was to be done keeps the jobs.
LEMMA JobsWorks ==
  ASSUME Proceeds, Jobs, NEW t \in Tasks, Works(t)
  PROVE  Jobs'
<1>1. UNCHANGED <<at, phase, link, event>>
  BY WorksLaws
<1>2. \A u \in Tasks : Said(todo'[u]) \subseteq Said(todo[u]) /\ (todo[u] = << >> => todo'[u] = << >>)
  BY WorksLaws
<1> QED BY <1>1, <1>2, TaskNames DEF Jobs, Writes

\* A step that begins no call and leaves phase, place, link and event, or changes link
\* and event in a phase where that may happen.
LEMMA JobsSame ==
  ASSUME Jobs, UNCHANGED <<at, phase, todo>>,
         phase \in {"load", "portal"} => UNCHANGED <<link, event>>
  PROVE  Jobs'
  BY DEF Jobs, Writes

\* The steps of main.
LEMMA JobsMain ==
  ASSUME Proceeds, Jobs, MainStep
  PROVE  Jobs'
<1>1. CASE Load
  <2>1. /\ phase = "load" /\ phase' = "load" /\ UNCHANGED <<link, event>>
        /\ \A u \in Tasks : u # "main" => todo'[u] = todo[u]
    <3>1. \E ss : Calls("main", ss)
      BY <1>1, LoadLaws
    <3>2. \A u \in Tasks : u # "main" => todo'[u] = todo[u]
      BY <3>1 DEF Calls, Proceeds, TypeOK
    <3> QED BY <1>1, <3>2, LoadLaws DEF Load, netVars
  <2> QED BY <2>1, TaskNames DEF Jobs, Writes
<1>2. CASE start_connection_manager
  <2>1. /\ phase = "load" /\ phase' \in {"portal", "joining"} /\ todo["main"] = << >>
        /\ UNCHANGED <<at, todo, event>> /\ (phase' = "portal" => link' = link) /\ at > 10
    BY <1>2, LoadOrderLaws DEF start_connection_manager, Main
  <2>2. at = 11
    BY <2>1, LoadOrderLaws DEF Proceeds, TypeOK
  <2> QED BY <2>1, <2>2, SaidShort DEF Jobs, Writes
<1>3. CASE start_wifi_manager
  <2>1. /\ phase = "portal" /\ phase' = "portal" /\ UNCHANGED <<at, link, event>>
        /\ \A u \in Tasks : u # "main" => todo'[u] = todo[u]
    BY <1>3, TaskNames DEF start_wifi_manager, Main, Calls, Proceeds, TypeOK, netVars
  <2> QED BY <2>1, TaskNames DEF Jobs, Writes
<1>4. CASE start_blizzard_wifi
  <2>1. /\ phase = "joining" /\ phase' = "apply" /\ UNCHANGED <<at, link, event>> /\ ~initDone
        /\ \A u \in Tasks : u # "main" => todo'[u] = todo[u]
    BY <1>4, TaskNames DEF start_blizzard_wifi, Main, Calls, Proceeds, TypeOK, netVars
  <2>2. \A x \in Said(todo'["main"]) : x.do = "ram" /\ x.key \notin Kept
    <3>1. /\ Proper(Setter("IP", ram["IP"])) /\ Proper(Setter("GATEWAY", ram["GATEWAY"]))
          /\ \A x \in Said(Setter("IP", ram["IP"])) : x.do = "ram" /\ x.key = "IP"
          /\ \A x \in Said(Setter("GATEWAY", ram["GATEWAY"])) : x.do = "ram" /\ x.key = "GATEWAY"
      BY <2>1, ProperSetter DEF Keys, Proceeds, TypeOK
    <3>2. Said(Setter("IP", ram["IP"]) \o Setter("GATEWAY", ram["GATEWAY"]))
            = Said(Setter("IP", ram["IP"])) \cup Said(Setter("GATEWAY", ram["GATEWAY"]))
      BY <3>1, SaidJoin DEF Proper
    <3>3. todo'["main"] \in {Setter("IP", ram["IP"]) \o Setter("GATEWAY", ram["GATEWAY"]), << >>}
      BY <1>4, TaskNames DEF start_blizzard_wifi, Calls, Proceeds, TypeOK
    <3> QED BY <3>1, <3>2, <3>3, SaidShort DEF Kept
  <2> QED BY <2>1, <2>2, TaskNames DEF Jobs, Writes
<1>5. CASE init_done
  BY <1>5 DEF init_done, Main, Jobs, Writes, netVars
<1> QED BY <1>1, <1>2, <1>3, <1>4, <1>5 DEF MainStep

\* The steps of the event task, of the WiFi stack and of the clients.
LEMMA JobsOther ==
  ASSUME Proceeds, Jobs,
         \/ EventStep \/ Joined \/ Refused \/ Dropped
         \/ \E c \in Clients : client_call(c) \/ getIP(c)
  PROVE  Jobs'
<1> USE DEF bootVars, netVars
<1>1. CASE Joined \/ Refused \/ Dropped
  <2>1. UNCHANGED <<at, phase, todo>> /\ phase \notin {"load", "portal"}
    BY <1>1 DEF Joined, Refused, Dropped, Post, Jobs
  <2> QED BY <2>1, JobsSame
<1>2. CASE on_got_ip \/ on_disconnected
  <2>1. UNCHANGED <<at, phase, todo>> /\ phase \notin {"load", "portal"}
    BY <1>2 DEF on_got_ip, on_disconnected, Handler, Jobs
  <2> QED BY <2>1, JobsSame
<1>3. CASE on_give_up
  <2>1. \E e : Calls("event", GiveUp(e)) /\ event \in {"AUTH_EXPIRE", "AUTH_FAIL", "NO_AP_FOUND"}
    BY <1>3 DEF on_give_up, Handler
  <2>2. /\ \A x \in Said(todo'["event"]) : x.do \in {"ram", "set"} => x.key = "WIFI" /\ x.val = "on"
        /\ \A u \in Tasks : u # "event" => todo'[u] = todo[u]
    BY <2>1, CallsLaws, GiveUpProper, TaskNames
  <2>3. UNCHANGED <<at, phase>> /\ phase \notin {"load", "portal"}
    BY <1>3, <2>1 DEF on_give_up, Jobs
  <2> QED BY <2>2, <2>3, TaskNames DEF Jobs, Writes
<1>4. ASSUME NEW c \in Clients, client_call(c) PROVE Jobs'
  <2>1. \E ss \in Change : Calls(c, ss)
    BY <1>4 DEF client_call
  <2>2. /\ \A x \in Said(todo'[c]) : x.key \notin {"SSID", "PASS"} /\ (x.key = "WIFI" => x.val = "on")
        /\ \A u \in Tasks : u # c => todo'[u] = todo[u]
    BY <2>1, CallsLaws, ChangeProper, TaskNames
  <2>3. UNCHANGED <<at, phase, link, event>> /\ phase = "running"
    BY <1>4 DEF client_call
  <2> QED BY <2>2, <2>3, TaskNames DEF Jobs, Writes
<1>5. ASSUME NEW c \in Clients, getIP(c) PROVE Jobs'
  BY <1>5, JobsSame DEF getIP
<1> QED BY <1>1, <1>2, <1>3, <1>4, <1>5 DEF EventStep

\* Every step keeps the jobs.
LEMMA JobsNext == Proceeds /\ Jobs /\ [Next]_vars => Jobs'
<1> SUFFICES ASSUME Proceeds, Jobs, [Next]_vars PROVE Jobs'
  OBVIOUS
<1>1. CASE UNCHANGED vars
  BY <1>1, JobsSame DEF vars, bootVars, netVars
<1>2. ASSUME NEW t \in Tasks, Exec(t) PROVE Jobs'
  BY <1>2, JobsWorks, BootJobs DEF Exec, Works, esp_restart
<1>3. CASE PowerFails
  BY <1>3, BootJobs DEF PowerFails
<1> QED BY <1>1, <1>2, <1>3, JobsMain, JobsOther DEF Next

\* A step that begins a call, or none: flash and the kept settings stay, and only a task
\* with nothing to do gets a call.
LEMMA BeginLaws ==
  ASSUME Proceeds,
         \/ MainStep \/ EventStep \/ Joined \/ Refused \/ Dropped
         \/ \E c \in Clients : client_call(c) \/ getIP(c)
  PROVE  /\ UNCHANGED <<flash, durable, nvsUp>> /\ \A k \in Kept : ram'[k] = ram[k]
         /\ \A u \in Tasks : todo'[u] = todo[u] \/ (todo[u] = << >> /\ (Load \/ Opens(todo'[u])))
         /\ phase' = "load" => phase = "load"
         /\ phase' = "load" /\ ~Load => UNCHANGED todo \/ \E e : Calls("event", GiveUp(e))
         /\ ~Load => at' = at
<1> USE DEF bootVars, netVars
<1>0. \A k \in Kept : k \in Keys /\ k # "IP"
  BY DEF Kept, Keys
<1>1. CASE Load
  <2>1. todo["main"] = << >> /\ \E ss : Calls("main", ss)
    BY <1>1, LoadLaws
  <2>2. \A u \in Tasks : todo'[u] = todo[u] \/ todo[u] = << >>
    BY <2>1 DEF Calls, Proceeds, TypeOK
  <2> QED BY <1>1, <2>2, LoadLaws DEF Load
<1>2. CASE start_connection_manager \/ init_done
  BY <1>2 DEF start_connection_manager, init_done, Main
<1>3. CASE start_wifi_manager
  <2>1. \E ss : Proper(ss) /\ Opens(ss) /\ Calls("main", ss)
    BY <1>3, PortalProper, ProperRestart DEF start_wifi_manager
  <2>2. \A u \in Tasks : todo'[u] = todo[u] \/ (u = "main" /\ Opens(todo'[u]))
    BY <2>1, CallsLaws, TaskNames
  <2> QED BY <1>3, <2>2 DEF start_wifi_manager, Main
<1>4. CASE start_blizzard_wifi
  <2>1. phase = "joining" /\ phase' = "apply" /\ ~initDone
    BY <1>4 DEF start_blizzard_wifi, Main, Proceeds
  <2>2. /\ Proper(Setter("IP", ram["IP"])) /\ Proper(Setter("GATEWAY", ram["GATEWAY"]))
        /\ Opens(Setter("IP", ram["IP"])) /\ Opens(Setter("GATEWAY", ram["GATEWAY"]))
    BY <2>1, ProperSetter DEF Keys, Proceeds, TypeOK
  <2>3. \E ss : Proper(ss) /\ Opens(ss) /\ Calls("main", ss)
    BY <1>4, <2>2, ProperJoin, ProperRestart DEF start_blizzard_wifi
  <2>4. \A u \in Tasks : todo'[u] = todo[u] \/ (u = "main" /\ Opens(todo'[u]))
    BY <2>3, CallsLaws, TaskNames
  <2> QED BY <1>4, <2>1, <2>4 DEF start_blizzard_wifi, Main
<1>5. CASE on_got_ip \/ on_disconnected
  BY <1>5 DEF on_got_ip, on_disconnected
<1>6. CASE on_give_up
  <2>1. todo["event"] = << >> /\ \E e : Calls("event", GiveUp(e))
    BY <1>6 DEF on_give_up, Handler
  <2>2. \A u \in Tasks : todo'[u] = todo[u] \/ (u = "event" /\ Opens(todo'[u]))
    BY <2>1, CallsLaws, GiveUpProper, TaskNames
  <2> QED BY <1>6, <2>1, <2>2 DEF on_give_up
<1>7. CASE Joined \/ Refused \/ Dropped
  BY <1>7 DEF Joined, Refused, Dropped, Post
<1>8. ASSUME NEW c \in Clients, client_call(c)
      PROVE  \A u \in Tasks : todo'[u] = todo[u] \/ (u = c /\ Opens(todo'[u]))
  <2>1. \E ss : Proper(ss) /\ Opens(ss) /\ Calls(c, ss)
    BY <1>8, ChangeProper DEF client_call
  <2> QED BY <2>1, CallsLaws, TaskNames
<1>9. CASE \E c \in Clients : client_call(c)
  BY <1>8, <1>9 DEF client_call
<1>10. CASE \E c \in Clients : getIP(c)
  <2>1. ram' = [ram EXCEPT !["IP"] = adapter] /\ phase' = phase /\ todo' = todo
    BY <1>10 DEF getIP
  <2>2. \A k \in Kept : ram'[k] = ram[k]
    BY <1>0, <2>1 DEF Proceeds, TypeOK
  <2> QED BY <1>10, <2>1, <2>2 DEF getIP
<1> QED BY <1>1, <1>2, <1>3, <1>4, <1>5, <1>6, <1>7, <1>9, <1>10 DEF MainStep, EventStep

\* After a write to flash comes a commit, and a boot begins with one.
LEMMA CommitsNext == Proceeds /\ Commits /\ [Next]_vars => Commits'
<1> SUFFICES ASSUME Proceeds, Commits, [Next]_vars PROVE Commits'
  OBVIOUS
<1>1. CASE UNCHANGED vars
  BY <1>1 DEF vars, Commits
<1>2. CASE Boot
  <2>1. Said(todo'["main"]) = {Stm("set", "MAC", "factory"), Stm("commit", "MAC", "factory")}
    BY <1>2, BootJobs
  <2>2. Stm("commit", "MAC", "factory").do = "commit"
    BY DEF Stm
  <2> QED BY ONLY <2>1, <2>2, TaskNames DEF Commits
<1>3. ASSUME NEW t \in Tasks, Works(t) PROVE Commits'
  <2>0. /\ Said(todo[t]) = {Now(t)} \cup Said(todo'[t]) /\ \A u \in Tasks : u # t => todo'[u] = todo[u]
        /\ Now(t).do = "set" => \E x \in Said(todo'[t]) : x.do = "commit"
    BY <1>3, WorksLaws
  <2>1. CASE nvs_commit(t)
    BY <2>1 DEF nvs_commit, Commits
  <2>2. CASE nvs_set(t)
    <3>1. Now(t).do = "set"
      BY <2>2 DEF nvs_set, Does, Now
    <3> QED BY <2>0, <3>1 DEF Commits
  <2>3. CASE WriteRam(t) \/ SetAdapter(t)
    <3>1. UNCHANGED <<flash, durable>> /\ Now(t).do # "commit"
      BY <2>3 DEF WriteRam, SetAdapter, Does, Now
    <3>2. CASE flash = durable
      BY <3>1, <3>2 DEF Commits
    <3>3. ASSUME NEW u \in Tasks, NEW x \in Said(todo[u]), x.do = "commit" PROVE x \in Said(todo'[u])
      BY <2>0, <3>1, <3>3
    <3> QED BY <3>1, <3>2, <3>3 DEF Commits
  <2> QED BY <1>3, <2>1, <2>2, <2>3 DEF Works
<1>4. CASE \/ MainStep \/ EventStep \/ Joined \/ Refused \/ Dropped
           \/ \E c \in Clients : client_call(c) \/ getIP(c)
  <2>1. UNCHANGED <<flash, durable>>
    BY <1>4, BeginLaws
  <2>2. \A u \in Tasks : todo'[u] = todo[u] \/ todo[u] = << >>
    BY <1>4, BeginLaws
  <2>3. \A u \in Tasks : Said(todo[u]) = {} \/ todo'[u] = todo[u]
    BY <2>2, SaidShort
  <2> QED BY <2>1, <2>3 DEF Commits
<1> QED BY <1>1, <1>2, <1>3, <1>4 DEF Next, Exec, Works, esp_restart, PowerFails

\* The loader goes on one key at a time.
LEMMA LoadsOneNext == Proceeds /\ Jobs /\ LoadsOne /\ [Next]_vars => LoadsOne'
<1> SUFFICES ASSUME Proceeds, Jobs, LoadsOne, [Next]_vars, phase' = "load"
             PROVE  /\ \A x, y \in Said(todo'["main"]) : x.key = y.key /\ x.val = y.val
                    /\ \A x \in Said(todo'["main"]) :
                         x.do = "set" /\ nvsUp' /\ x.key \in {"SSID", "PASS", "WIFI"} =>
                           x.val = flash'[x.key] \/ (flash'[x.key] = Absent /\ x.val # "off")
  BY DEF LoadsOne, Sets
<1>1. CASE UNCHANGED <<flash, todo, nvsUp>> /\ phase = "load"
  BY <1>1 DEF LoadsOne, Sets
<1>2. CASE Boot
  <2>1. Said(todo'["main"]) = {Stm("set", "MAC", "factory"), Stm("commit", "MAC", "factory")}
    BY <1>2, BootJobs
  <2> QED BY <2>1 DEF Stm
<1>3. ASSUME NEW t \in Tasks, Works(t) PROVE LoadsOne'
  <2>1. /\ phase = "load" /\ UNCHANGED nvsUp /\ todo[t] # << >>
        /\ Said(todo[t]) = {Now(t)} \cup Said(todo'[t]) /\ Now(t) \in Statement
    BY <1>3, WorksLaws
  <2>2. t = "main"
    BY <2>1, TaskNames DEF Jobs
  <2>3. /\ \A x, y \in Said(todo["main"]) : x.key = y.key /\ x.val = y.val
        /\ \A x \in Said(todo["main"]) :
             x.do = "set" /\ nvsUp /\ x.key \in {"SSID", "PASS", "WIFI"} =>
               x.val = flash[x.key] \/ (flash[x.key] = Absent /\ x.val # "off")
    BY <2>1 DEF LoadsOne, Sets
  <2>4. flash' = flash \/ flash' = [flash EXCEPT ![Now(t).key] = Now(t).val]
    BY <1>3 DEF Works, WriteRam, nvs_set, nvs_commit, SetAdapter
  <2>5. flash' = flash \/ flash'[Now(t).key] = Now(t).val
    BY <2>1, <2>4 DEF Statement, Proceeds, TypeOK
  <2> QED BY <2>1, <2>2, <2>3, <2>5 DEF LoadsOne, Sets
<1>4. CASE Load
  <2> DEFINE k == LoadOrder[at]
  <2>0. k \in Keys /\ UNCHANGED <<flash, nvsUp>>
    BY <1>4, LoadLaws DEF Load
  <2>1. CASE nvsUp /\ flash[k] = Absent /\ Calls("main", Update(k, Default(k)))
    <3>1. todo'["main"] = Update(k, Default(k))
      BY <2>1, TaskNames DEF Calls, Proceeds, TypeOK
    <3>2. Said(todo'["main"]) = {Stm("set", k, Default(k)), Stm("commit", k, Default(k))}
      BY <2>0, <3>1, ProperUpdate, StorableValues
    <3> QED BY <2>0, <2>1, <3>2 DEF Stm, Default
  <2>2. ASSUME NEW v \in Values \ {Absent}, k = "SLOTS" \/ v \in Storable, nvsUp => v = flash[k],
               Calls("main", Setter(Target(k), v))
        PROVE  LoadsOne'
    <3>1. todo'["main"] = Setter(Target(k), v)
      BY <2>2, TaskNames DEF Calls, Proceeds, TypeOK
    <3>2. Target(k) \in Keys /\ (k = "SLOTS" => Target(k) = "SLOTS") /\ (Target(k) \in {"SSID", "PASS", "WIFI"} => Target(k) = k)
      BY <2>0 DEF Target, Keys
    <3>3. \A x \in Said(todo'["main"]) : x.key = Target(k) /\ x.val = v
      BY <2>2, <3>1, <3>2, ProperSetter
    <3> QED BY <2>0, <2>2, <3>2, <3>3 DEF LoadsOne, Sets
  <2>3. CASE Calls("main", << >>)
    <3>1. Said(todo'["main"]) = {}
      BY <2>3, TaskNames, SaidShort DEF Calls, Proceeds, TypeOK
    <3> QED BY <3>1
  <2> HIDE DEF k
  <2> QED BY <1>4, <2>1, <2>2, <2>3, LoadLaws DEF LoadsOne, Sets, k
<1>5. CASE ~Load /\ \/ MainStep \/ EventStep \/ Joined \/ Refused \/ Dropped
                    \/ \E c \in Clients : client_call(c) \/ getIP(c)
  <2>1. phase = "load" /\ UNCHANGED <<flash, nvsUp>> /\ (UNCHANGED todo \/ \E e : Calls("event", GiveUp(e)))
    BY <1>5, BeginLaws
  <2>2. todo'["main"] = todo["main"]
    BY <2>1, TaskNames DEF Calls, Proceeds, TypeOK
  <2> QED BY <2>1, <2>2 DEF LoadsOne, Sets
<1>6. CASE UNCHANGED vars
  BY <1>1, <1>6 DEF vars, bootVars
<1> QED BY <1>1, <1>2, <1>3, <1>4, <1>5, <1>6 DEF Next, Exec, Works, esp_restart, PowerFails, LoadsOne, Sets

\* The loader meets every key once.
LEMMA LoadedOnce ==
  ASSUME Proceeds, at \in 1 .. 10
  PROVE  ~Loaded(LoadOrder[at])
<1>1. \A i \in 1 .. 10, j \in 1 .. 10 : LoadOrder[i] = LoadOrder[j] => i = j
  BY LoadOrderLaws
<1>2. \A j \in 1 .. at - 1 : j \in 1 .. 10 /\ j # at
  OBVIOUS
<1> QED BY <1>1, <1>2 DEF Loaded

\* Two tasks that write the same kept setting write the same value to it, while the
\* loader is alone or one task changes settings.
LEMMA SameValue ==
  ASSUME Proceeds, Jobs, phase = "load" \/ Solo,
         NEW t \in Tasks, NEW u \in Tasks, NEW x \in Writes(t), NEW y \in Writes(u),
         x.key \in Kept, x.key = y.key, t # u
  PROVE  x.val = y.val
<1>1. \A v \in Tasks : todo[v] = << >> => Writes(v) = {}
  BY SaidShort DEF Writes
<1>2. phase \in {"load", "portal"} => t = "main" /\ u = "main"
  BY <1>1, TaskNames DEF Jobs
<1>3. phase \in {"joining", "apply", "running", "load", "portal"}
  BY DEF Proceeds, TypeOK
<1>4. Writes("main") \subseteq Said(todo["main"]) /\ \A z \in Writes("main") : z.do \in {"ram", "set"}
  BY DEF Writes
<1>5. t # "main" /\ u # "main"
  <2>1. CASE phase = "running"
    BY <1>1, <2>1 DEF Jobs
  <2>2. CASE phase \in {"joining", "apply"}
    <3>1. \A z \in Writes("main") : z.key \notin Kept
      BY <1>4, <2>2 DEF Jobs
    <3> QED BY <3>1
  <2> QED BY <1>2, <1>3, <2>1, <2>2
<1>6. Solo /\ ~(t \in Clients /\ u \in Clients)
  <2>1. Solo
    BY <1>2
  <2> QED BY <2>1 DEF Solo
<1>7. CASE t = "event" /\ u \in Clients
  BY <1>7 DEF Jobs
<1>8. CASE u = "event" /\ t \in Clients
  BY <1>8 DEF Jobs
<1> QED BY <1>5, <1>6, <1>7, <1>8, TaskNames

\* A write to memory.
LEMMA InStepRam ==
  ASSUME Proceeds, Jobs, InStep, NEW t \in Tasks, WriteRam(t)
  PROVE  InStep'
<1> DEFINE k0 == Now(t).key
           v0 == Now(t).val
<1>1. Works(t) /\ Now(t).do = "ram" /\ UNCHANGED flash /\ ram' = [ram EXCEPT ![k0] = v0]
  BY DEF Works, WriteRam, Does, Now
<1>2. /\ UNCHANGED <<nvsUp, at, phase>> /\ Now(t) \in Statement /\ Now(t) \in Said(todo[t])
      /\ Said(todo[t]) = {Now(t)} \cup Said(todo'[t])
      /\ \A u \in Tasks : u # t => todo'[u] = todo[u]
      /\ \A k \in Kept : Setting(t, k)' => k = k0 /\ Now(t)'.val = v0
      /\ k0 \in Kept => Now(t)' \in Said(todo'[t]) /\ Now(t)'.do = "set" /\ Now(t)'.key = k0
  BY <1>1, WorksLaws
<1>3. SUFFICES ASSUME nvsUp, phase = "load" \/ Solo, NEW k \in Kept, Loaded(k)
               PROVE  /\ (\A u \in Tasks : \A x \in Sets(u)' : x.key # k) => ram'[k] = flash[k]
                      /\ \A u \in Tasks : Setting(u, k)' => Now(u)'.val = ram'[k]
  BY <1>1, <1>2 DEF InStep, Loaded, Solo
<1>4. /\ (\A u \in Tasks : \A x \in Sets(u) : x.key # k) => ram[k] = flash[k]
      /\ \A u \in Tasks : Setting(u, k) => Now(u).val = ram[k]
  BY <1>3 DEF InStep
<1>5. k0 \in Keys /\ k \in Keys /\ (k = k0 => ram'[k] = v0) /\ (k # k0 => ram'[k] = ram[k])
  BY <1>1, <1>2 DEF Statement, Kept, Keys, Proceeds, TypeOK
<1> HIDE DEF k0, v0
<1>6. \A u \in Tasks : u # t => (Setting(u, k)' <=> Setting(u, k)) /\ Now(u)' = Now(u)
  BY <1>2 DEF Setting, Now
<1>7. CASE k = k0
  <2>1. \E x \in Sets(t)' : x.key = k
    BY <1>2, <1>7 DEF Sets
  <2>2. ASSUME NEW u \in Tasks, u # t, Setting(u, k) PROVE Now(u).val = v0
    <3>1. Now(u) \in Said(todo[u])
      BY <2>2, SaidTail DEF Setting, Now, Proceeds, TypeOK
    <3>2. Now(u) \in Writes(u) /\ Now(t) \in Writes(t) /\ Now(u).key = Now(t).key /\ Now(t).key \in Kept
      BY <1>1, <1>2, <1>7, <2>2, <3>1 DEF Writes, Setting, k0
    <3> QED BY <1>3, <2>2, <3>2, SameValue DEF v0
  <2> QED BY <1>2, <1>5, <1>6, <1>7, <2>1, <2>2
<1>8. CASE k # k0
  <2>1. \A u \in Tasks : Sets(u)' = Sets(u)
    BY <1>1, <1>2 DEF Sets
  <2> QED BY <1>2, <1>4, <1>5, <1>6, <1>8, <2>1
<1> QED BY <1>7, <1>8

\* A write to flash: it writes what is in memory.
LEMMA InStepSet ==
  ASSUME Proceeds, InStep, NEW t \in Tasks, nvs_set(t)
  PROVE  InStep'
<1> DEFINE k0 == Now(t).key
           v0 == Now(t).val
<1>1. /\ Works(t) /\ Now(t).do = "set" /\ UNCHANGED ram
      /\ flash' = IF nvsUp THEN [flash EXCEPT ![k0] = v0] ELSE flash
  BY DEF Works, nvs_set, Does, Now
<1>2. /\ UNCHANGED <<nvsUp, at, phase>> /\ Now(t) \in Statement
      /\ Said(todo[t]) = {Now(t)} \cup Said(todo'[t]) /\ todo[t] # << >>
      /\ \A u \in Tasks : u # t => todo'[u] = todo[u]
      /\ \A k \in Kept : Setting(t, k)' => Now(t).do = "ram"
  BY <1>1, WorksLaws
<1>3. SUFFICES ASSUME nvsUp, phase = "load" \/ Solo, NEW k \in Kept, Loaded(k)
               PROVE  /\ (\A u \in Tasks : \A x \in Sets(u)' : x.key # k) => ram[k] = flash'[k]
                      /\ \A u \in Tasks : Setting(u, k)' => Now(u)'.val = ram[k]
  BY <1>1, <1>2 DEF InStep, Loaded, Solo
<1>4. /\ (\A u \in Tasks : \A x \in Sets(u) : x.key # k) => ram[k] = flash[k]
      /\ \A u \in Tasks : Setting(u, k) => Now(u).val = ram[k]
  BY <1>3 DEF InStep
<1>5. k0 \in Keys /\ k \in Keys /\ (k = k0 => flash'[k] = v0) /\ (k # k0 => flash'[k] = flash[k])
  BY <1>1, <1>2, <1>3 DEF Statement, Kept, Keys, Proceeds, TypeOK
<1>6. \A u \in Tasks : u # t => (Setting(u, k)' <=> Setting(u, k)) /\ Now(u)' = Now(u)
  BY <1>2 DEF Setting, Now
<1>7. ~Setting(t, k)'
  BY <1>1, <1>2
<1>8. Setting(t, k0)
  BY <1>1, <1>2 DEF Setting
<1>9. k # k0 => ((\A u \in Tasks : \A x \in Sets(u)' : x.key # k) => \A u \in Tasks : \A x \in Sets(u) : x.key # k)
  BY <1>2 DEF Sets
<1> HIDE DEF k0, v0
<1>10. k = k0 => v0 = ram[k]
  BY <1>4, <1>8 DEF v0
<1> QED BY <1>4, <1>5, <1>6, <1>7, <1>9, <1>10

\* A commit, or a change of the interface.
LEMMA InStepRest ==
  ASSUME Proceeds, InStep, NEW t \in Tasks, nvs_commit(t) \/ SetAdapter(t)
  PROVE  InStep'
<1>1. /\ Works(t) /\ Now(t).do \notin {"set", "ram"} /\ UNCHANGED <<flash, ram>>
  BY DEF Works, nvs_commit, SetAdapter, Does, Now
<1>2. /\ UNCHANGED <<nvsUp, at, phase>>
      /\ Said(todo[t]) = {Now(t)} \cup Said(todo'[t])
      /\ \A u \in Tasks : u # t => todo'[u] = todo[u]
      /\ \A k \in Kept : Setting(t, k)' => Now(t).do = "ram"
  BY <1>1, WorksLaws
<1>3. \A u \in Tasks : Sets(u)' = Sets(u)
  BY <1>1, <1>2 DEF Sets
<1>4. \A k \in Kept, u \in Tasks : Setting(u, k)' => Setting(u, k) /\ Now(u)' = Now(u)
  BY <1>1, <1>2 DEF Setting, Now
<1> QED BY <1>1, <1>2, <1>3, <1>4 DEF InStep, Loaded, Solo

\* The beginning of a call that opens with something else, or of none.
LEMMA InStepBegin ==
  ASSUME Proceeds, InStep, ~Load,
         \/ MainStep \/ EventStep \/ Joined \/ Refused \/ Dropped
         \/ \E c \in Clients : client_call(c) \/ getIP(c)
  PROVE  InStep'
<1>1. /\ UNCHANGED <<flash, nvsUp, at>> /\ (\A k \in Kept : ram'[k] = ram[k]) /\ (phase' = "load" => phase = "load")
      /\ \A u \in Tasks : todo'[u] = todo[u] \/ (todo[u] = << >> /\ Opens(todo'[u]))
  BY BeginLaws
<1>2. \A u \in Tasks : Sets(u) \subseteq Sets(u)'
  BY <1>1, SaidShort DEF Sets
<1>3. todo' \in [Tasks -> Seq(Statement)]
  BY ProceedsOther DEF Proceeds, TypeOK
<1>4. ASSUME NEW k \in Kept, NEW u \in Tasks, Setting(u, k)'
      PROVE  Setting(u, k) /\ Now(u)' = Now(u)
  <2>1. todo'[u] # << >> /\ Head(todo'[u]).do = "set" /\ Head(todo'[u]).key = k /\ Head(todo'[u]) = todo'[u][1]
    BY <1>3, <1>4 DEF Setting, Now
  <2>2. ~Opens(todo'[u])
    BY <2>1 DEF Opens
  <2> QED BY <1>1, <1>4, <2>2 DEF Setting, Now
<1> QED BY <1>1, <1>2, <1>4 DEF InStep, Loaded, Solo

\* The loader takes up a key.
LEMMA InStepLoad ==
  ASSUME Proceeds, Jobs, InStep, Load
  PROVE  InStep'
<1> DEFINE k0 == LoadOrder[at]
<1>1. /\ phase = "load" /\ at \in 1 .. 10 /\ k0 \in Keys /\ todo["main"] = << >>
      /\ UNCHANGED <<flash, ram, nvsUp>> /\ ~Loaded(k0)
  BY LoadLaws, LoadedOnce DEF Load
<1>2. SUFFICES ASSUME nvsUp, NEW k \in Kept, Loaded(k)'
               PROVE  /\ (\A u \in Tasks : \A x \in Sets(u)' : x.key # k) => ram[k] = flash[k]
                      /\ \A u \in Tasks : Setting(u, k)' => Now(u)'.val = ram[k]
  BY <1>1 DEF InStep
<1>3. \A u \in Tasks : todo[u] = << >>
  BY <1>1, TaskNames DEF Jobs
<1>4. Loaded(k) => ram[k] = flash[k]
  <2>1. \A u \in Tasks : Sets(u) = {}
    BY <1>3, SaidShort DEF Sets
  <2> QED BY <1>1, <1>2, <2>1 DEF InStep
<1>5. Loaded(k) => k # k0
  BY <1>1
<1>6. CASE at' = at /\ Calls("main", Update(k0, Default(k0)))
  <2>1. todo'["main"] = Update(k0, Default(k0)) /\ \A u \in Tasks : u # "main" => todo'[u] = << >>
    BY <1>3, <1>6, TaskNames DEF Calls, Proceeds, TypeOK
  <2>2. Head(Update(k0, Default(k0))) = Stm("set", k0, Default(k0))
    BY <1>1, ProperUpdate, StorableValues
  <2>3. Loaded(k)
    BY <1>2, <1>6 DEF Loaded
  <2>4. \A u \in Tasks : ~Setting(u, k)'
    BY <1>5, <2>1, <2>2, <2>3 DEF Setting, Now, Stm
  <2> QED BY <1>4, <2>3, <2>4
<1>7. ASSUME at' = at + 1, NEW v \in Values \ {Absent}, k0 = "SLOTS" \/ v \in Storable,
             Calls("main", Setter(Target(k0), v))
      PROVE  /\ (\A u \in Tasks : \A x \in Sets(u)' : x.key # k) => ram[k] = flash[k]
             /\ \A u \in Tasks : Setting(u, k)' => Now(u)'.val = ram[k]
  <2>1. todo'["main"] = Setter(Target(k0), v) /\ \A u \in Tasks : u # "main" => todo'[u] = << >>
    BY <1>3, <1>7, TaskNames DEF Calls, Proceeds, TypeOK
  <2>2. Target(k0) \in Keys /\ (k0 = "SLOTS" => Target(k0) = "SLOTS") /\ (k0 \in Kept => Target(k0) = k0 /\ k0 \in Saved)
    BY <1>1 DEF Target, Keys, Kept, Saved
  <2>3. /\ ~(Head(Setter(Target(k0), v)).do = "set" /\ Head(Setter(Target(k0), v)).key \in Kept)
        /\ k0 \in Kept => Stm("set", k0, v) \in Said(Setter(Target(k0), v))
    BY <1>7, <2>2, ProperSetter
  <2>4. \A u \in Tasks : ~Setting(u, k)'
    BY <2>1, <2>3 DEF Setting, Now
  <2>5. CASE Loaded(k)
    BY <1>4, <2>4, <2>5
  <2>6. CASE ~Loaded(k)
    <3>1. k = k0
      <4>1. PICK j \in 1 .. at : LoadOrder[j] = k
        BY <1>1, <1>2, <1>7 DEF Loaded
      <4>2. j \notin 1 .. at - 1
        BY <2>6, <4>1 DEF Loaded
      <4>3. j = at
        BY <1>1, <4>2
      <4> QED BY <4>1, <4>3
    <3>2. Stm("set", k0, v) \in Sets("main")'
      BY <2>1, <2>3, <3>1 DEF Sets, Stm
    <3> QED BY <2>4, <3>1, <3>2, TaskNames DEF Stm
  <2> QED BY <2>5, <2>6
<1> HIDE DEF k0
<1> QED BY <1>2, <1>6, <1>7, LoadLaws DEF k0

\* What was read is in memory as in flash, or about to be.
LEMMA InStepNext == Proceeds /\ Jobs /\ InStep /\ [Next]_vars => InStep'
<1> SUFFICES ASSUME Proceeds, Jobs, InStep, [Next]_vars PROVE InStep'
  OBVIOUS
<1>1. CASE UNCHANGED vars
  BY <1>1 DEF vars, bootVars, InStep, Loaded, Solo, Sets, Setting, Now
<1>2. CASE Boot
  BY <1>2, BootJobs DEF InStep
<1>3. ASSUME NEW t \in Tasks, Exec(t) PROVE InStep'
  BY <1>2, <1>3, InStepRam, InStepSet, InStepRest DEF Exec, esp_restart
<1> QED BY <1>1, <1>2, <1>3, InStepBegin, InStepLoad DEF Next, PowerFails

-----------------------------------------------------------------------------
(* A call that has returned is remembered.                                 *)

\* The device in all phases.
ConfigInv == Proceeds /\ Jobs /\ LoadsOne /\ Commits /\ InStep

\* A new device.
LEMMA ConfigInit == Init => ConfigInv
<1> SUFFICES ASSUME Init PROVE ConfigInv
  OBVIOUS
<1>1. /\ todo["main"] = Update("MAC", "factory") /\ \A t \in Tasks : t # "main" => todo[t] = << >>
      /\ at = 1 /\ flash = durable /\ \A k \in Keys : flash[k] = Absent
  BY TaskNames DEF Init
<1>2. Said(todo["main"]) = {Stm("set", "MAC", "factory"), Stm("commit", "MAC", "factory")}
  BY <1>1, ProperUpdate, StorableValues DEF Keys
<1>3. LoadsOne
  BY <1>2 DEF LoadsOne, Sets, Stm
<1>4. Commits
  BY <1>1 DEF Commits
<1>5. InStep
  BY <1>1 DEF InStep, Loaded
<1> QED BY <1>3, <1>4, <1>5, ProceedsInit, JobsInit DEF ConfigInv

\* Every step keeps all of it.
LEMMA ConfigNext == ConfigInv /\ [Next]_vars => ConfigInv'
  BY ProceedsNext, JobsNext, LoadsOneNext, CommitsNext, InStepNext DEF ConfigInv

\* When nobody has anything to do, memory and flash agree, and flash is committed.
LEMMA QuietLaws ==
  ASSUME ConfigInv, phase = "load" \/ Solo, nvsUp, at = 11, \A t \in Tasks : todo[t] = << >>
  PROVE  flash = durable /\ \A k \in Kept : ram[k] = flash[k]
<1>1. \A t \in Tasks : Said(todo[t]) = {} /\ Sets(t) = {}
  BY SaidShort DEF Sets
<1>2. ASSUME NEW k \in Kept PROVE Loaded(k)
  <2>1. \E j \in 1 .. 10 : LoadOrder[j] = k
    BY LoadOrderLaws DEF Kept
  <2> QED BY <2>1 DEF Loaded
<1> QED BY <1>1, <1>2 DEF ConfigInv, Commits, InStep

\* BlizzardConfig.Remembered: with at most one task that changes settings, memory,
\* flash and what survives a power failure agree on every setting whenever no call is
\* left unfinished, through boots, portal sessions and power failures.
THEOREM CallsRemembered ==
  ASSUME \A c, d \in Clients : c = d
  PROVE  Spec => []Remembered
<1>1. Spec => []ConfigInv
  BY ConfigInit, ConfigNext, PTL DEF Spec
<1>2. ConfigInv => Remembered
  <2>1. SUFFICES ASSUME ConfigInv, Quiet
                 PROVE  \A k \in {"DHCP", "SSID", "PASS", "MODE", "WIFI"} : ram[k] = flash[k] /\ flash[k] = durable[k]
    BY DEF Remembered
  <2>2. at = 11 /\ Solo /\ nvsUp /\ \A t \in Tasks : todo[t] = << >>
    BY <2>1 DEF ConfigInv, Jobs, Quiet, Solo
  <2> QED BY <2>1, <2>2, QuietLaws DEF Kept
<1> QED BY <1>1, <1>2, PTL

-----------------------------------------------------------------------------
(* A name and its password.                                                *)

\* The portal's call is ten statements, if the password fits.
PortalCall(e) ==
  <<Stm("ram", "SSID", e), Stm("set", "SSID", e), Stm("commit", "SSID", e),
    Stm("ram", "PASS", e), Stm("set", "PASS", e), Stm("commit", "PASS", e),
    Stm("ram", "WIFI", "off"), Stm("set", "WIFI", "off"), Stm("commit", "WIFI", "off"),
    Stm("restart", "WIFI", Zero)>>

\* Where that call stands: j - 1 of its statements are done.
PortalAt(e, j) ==
  /\ Len(todo["main"]) = 11 - j
  /\ \A i \in 1 .. 11 - j : todo["main"][i] = PortalCall(e)[j - 1 + i]
  /\ j <= 8 => flash["WIFI"] = "on" /\ durable["WIFI"] = "on"
  /\ j > 2 => flash["SSID"] = e
  /\ j > 3 => durable["SSID"] = e
  /\ j > 5 => flash["PASS"] = e
  /\ j > 6 => durable["PASS"] = e

PortalInv ==
  phase = "portal" =>
    /\ todo["main"] = << >> /\ nvsUp => flash["WIFI"] = "on" /\ durable["WIFI"] = "on"
    /\ todo["main"] \in {<< >>, Restart} \/ ~nvsUp \/ \E e \in Entries, j \in 1 .. 10 : PortalAt(e, j)

\* Whatever of a power failure keeps: a device that will not open its portal has a
\* name and a password that were entered together, in flash and committed.
Paired ==
  flash["WIFI"] = "off" \/ durable["WIFI"] = "off" =>
    \E e \in Values \ {Absent} : /\ flash["SSID"] = e /\ flash["PASS"] = e
                                 /\ durable["SSID"] = e /\ durable["PASS"] = e

\* The portal's call spelt out.
LEMMA PortalCallIs ==
  ASSUME "long" \notin Entries, NEW e \in Entries
  PROVE  /\ PortalDone(e) \in Seq(Statement) /\ Len(PortalDone(e)) = 10
         /\ \A i \in 1 .. 10 : PortalDone(e)[i] = PortalCall(e)[i]
<1> DEFINE a == Setter("SSID", e)
           b == Setter("PASS", e)
           c == Setter("WIFI", "off")
<1>1. e \in Storable /\ e \in Values \ {Absent} /\ "off" \in Storable /\ "off" \in Values \ {Absent}
  BY StorableValues
<1>2. /\ a = <<Stm("ram", "SSID", e), Stm("set", "SSID", e), Stm("commit", "SSID", e)>>
      /\ b = <<Stm("ram", "PASS", e), Stm("set", "PASS", e), Stm("commit", "PASS", e)>>
      /\ c = <<Stm("ram", "WIFI", "off"), Stm("set", "WIFI", "off"), Stm("commit", "WIFI", "off")>>
      /\ a \in Seq(Statement) /\ b \in Seq(Statement) /\ c \in Seq(Statement)
  BY <1>1, ProperSetter DEF Keys, Saved, Proper
<1>3. Restart = <<Stm("restart", "WIFI", Zero)>> /\ Restart \in Seq(Statement)
  BY ProperRestart DEF Restart, St, Stm, Proper
<1>4. PortalDone(e) = a \o b \o c \o Restart
  BY DEF PortalDone, setPass
<1>5. /\ Len(a) = 3 /\ a[1] = Stm("ram", "SSID", e) /\ a[2] = Stm("set", "SSID", e) /\ a[3] = Stm("commit", "SSID", e)
      /\ Len(b) = 3 /\ b[1] = Stm("ram", "PASS", e) /\ b[2] = Stm("set", "PASS", e) /\ b[3] = Stm("commit", "PASS", e)
      /\ Len(c) = 3 /\ c[1] = Stm("ram", "WIFI", "off") /\ c[2] = Stm("set", "WIFI", "off") /\ c[3] = Stm("commit", "WIFI", "off")
      /\ Len(Restart) = 1 /\ Restart[1] = Stm("restart", "WIFI", Zero)
  BY <1>2, <1>3
<1> HIDE DEF a, b, c
<1> DEFINE p == a \o b
           q == p \o c
           r == q \o Restart
<1>6. p \in Seq(Statement) /\ Len(p) = 6 /\ \A i \in 1 .. 3 : p[i] = a[i] /\ p[3 + i] = b[i]
  BY <1>2, <1>5, SaidJoin
<1> HIDE DEF p
<1>7. q \in Seq(Statement) /\ Len(q) = 9 /\ (\A i \in 1 .. 6 : q[i] = p[i]) /\ \A i \in 1 .. 3 : q[6 + i] = c[i]
  <2>1. /\ q \in Seq(Statement) /\ Len(q) = Len(p) + Len(c)
        /\ \A i \in 1 .. Len(p) : q[i] = p[i]
        /\ \A i \in 1 .. Len(c) : q[Len(p) + i] = c[i]
    <3>1. p \in Seq(Statement) /\ c \in Seq(Statement)
      BY <1>2, <1>6
    <3> QED BY ONLY <3>1, SaidJoin
  <2> HIDE DEF q
  <2> QED BY ONLY <1>5, <1>6, <2>1
<1> HIDE DEF q
<1>8. r \in Seq(Statement) /\ Len(r) = 10 /\ (\A i \in 1 .. 9 : r[i] = q[i]) /\ \A i \in 1 .. 1 : r[9 + i] = Restart[i]
  <2>1. /\ r \in Seq(Statement) /\ Len(r) = Len(q) + Len(Restart)
        /\ \A i \in 1 .. Len(q) : r[i] = q[i]
        /\ \A i \in 1 .. Len(Restart) : r[Len(q) + i] = Restart[i]
    BY <1>3, <1>7, SaidJoin
  <2> HIDE DEF r
  <2> QED BY ONLY <1>5, <1>7, <2>1
<1> HIDE DEF r
<1>9. /\ r[1] = a[1] /\ r[2] = a[2] /\ r[3] = a[3] /\ r[4] = b[1] /\ r[5] = b[2] /\ r[6] = b[3]
      /\ r[7] = c[1] /\ r[8] = c[2] /\ r[9] = c[3] /\ r[10] = Restart[1]
  BY <1>6, <1>7, <1>8
<1>10. /\ PortalCall(e)[1] = a[1] /\ PortalCall(e)[2] = a[2] /\ PortalCall(e)[3] = a[3]
       /\ PortalCall(e)[4] = b[1] /\ PortalCall(e)[5] = b[2] /\ PortalCall(e)[6] = b[3]
       /\ PortalCall(e)[7] = c[1] /\ PortalCall(e)[8] = c[2] /\ PortalCall(e)[9] = c[3]
       /\ PortalCall(e)[10] = Restart[1]
  BY <1>5 DEF PortalCall
<1>11. \A i \in 1 .. 10 : i = 1 \/ i = 2 \/ i = 3 \/ i = 4 \/ i = 5 \/ i = 6 \/ i = 7 \/ i = 8 \/ i = 9 \/ i = 10
  OBVIOUS
<1>12. \A i \in 1 .. 10 : r[i] = PortalCall(e)[i]
  BY <1>9, <1>10, <1>11
<1>13. r = PortalDone(e)
  BY <1>4 DEF p, q, r
<1> QED BY <1>8, <1>12, <1>13

\* The statements of the portal's call, one by one.
LEMMA PortalStatement ==
  ASSUME NEW e, NEW j \in 1 .. 10
  PROVE  /\ j = 1 => PortalCall(e)[j] = Stm("ram", "SSID", e)
         /\ j = 2 => PortalCall(e)[j] = Stm("set", "SSID", e)
         /\ j = 3 => PortalCall(e)[j] = Stm("commit", "SSID", e)
         /\ j = 4 => PortalCall(e)[j] = Stm("ram", "PASS", e)
         /\ j = 5 => PortalCall(e)[j] = Stm("set", "PASS", e)
         /\ j = 6 => PortalCall(e)[j] = Stm("commit", "PASS", e)
         /\ j = 7 => PortalCall(e)[j] = Stm("ram", "WIFI", "off")
         /\ j = 8 => PortalCall(e)[j] = Stm("set", "WIFI", "off")
         /\ j = 9 => PortalCall(e)[j] = Stm("commit", "WIFI", "off")
         /\ j = 10 => PortalCall(e)[j] = Stm("restart", "WIFI", Zero)
  BY DEF PortalCall

\* What a statement does to flash.
LEMMA FlashLaws ==
  ASSUME Proceeds, NEW t \in Tasks, Works(t)
  PROVE  /\ Now(t).do = "ram" => UNCHANGED <<flash, durable>>
         /\ Now(t).do = "adapter" => UNCHANGED <<flash, durable>>
         /\ Now(t).do = "commit" => UNCHANGED flash /\ durable' = flash
         /\ Now(t).do = "set" => /\ UNCHANGED durable /\ (~nvsUp => UNCHANGED flash)
                                 /\ nvsUp => /\ flash'[Now(t).key] = Now(t).val
                                             /\ \A k \in Keys : k # Now(t).key => flash'[k] = flash[k]
         /\ Now(t).do \in {"ram", "adapter", "commit", "set"}
<1>1. CASE WriteRam(t)
  BY <1>1 DEF WriteRam, Does, Now
<1>2. CASE SetAdapter(t)
  BY <1>2 DEF SetAdapter, Does, Now
<1>3. CASE nvs_commit(t)
  BY <1>3 DEF nvs_commit, Does, Now
<1>4. CASE nvs_set(t)
  <2>1. /\ Now(t).do = "set" /\ durable' = durable /\ Now(t).key \in Keys
        /\ flash' = IF nvsUp THEN [flash EXCEPT ![Now(t).key] = Now(t).val] ELSE flash
    BY <1>4, WorksLaws DEF nvs_set, Does, Now, Statement
  <2> QED BY <2>1 DEF Proceeds, TypeOK
<1> QED BY <1>1, <1>2, <1>3, <1>4 DEF Works

\* The portal's call goes on by one statement.
LEMMA PortalStep ==
  ASSUME Proceeds, nvsUp, NEW e \in Entries, NEW j \in 1 .. 10, PortalAt(e, j), Works("main")
  PROVE  j + 1 \in 1 .. 10 /\ PortalAt(e, j + 1)'
<1> DEFINE s == todo["main"]
<1>1. s \in Seq(Statement) /\ Len(s) = 11 - j /\ s # << >>
  BY TaskNames, WorksLaws DEF PortalAt, Proceeds, TypeOK
<1>2. /\ Now("main") = s[1] /\ todo'["main"] = Tail(s)
      /\ Len(Tail(s)) = Len(s) - 1 /\ \A i \in 1 .. Len(s) - 1 : Tail(s)[i] = s[i + 1]
  BY <1>1, TaskNames, WorksLaws, SaidTail DEF Now
<1>3. \A i \in 1 .. 11 - j : s[i] = PortalCall(e)[j - 1 + i]
  BY DEF PortalAt
<1> HIDE DEF s
<1>4. Now("main") = PortalCall(e)[j]
  BY <1>2, <1>3
<1>5. /\ Len(todo'["main"]) = 11 - (j + 1)
      /\ \A i \in 1 .. 11 - (j + 1) : todo'["main"][i] = PortalCall(e)[(j + 1) - 1 + i]
  <2>1. ASSUME NEW i \in 1 .. 11 - (j + 1) PROVE todo'["main"][i] = PortalCall(e)[(j + 1) - 1 + i]
    <3>1. i \in 1 .. Len(s) - 1 /\ i + 1 \in 1 .. 11 - j /\ j - 1 + (i + 1) = (j + 1) - 1 + i
      BY <1>1
    <3> QED BY <1>2, <1>3, <3>1
  <2> QED BY <1>1, <1>2, <2>1
<1>6. "main" \in Tasks /\ {"SSID", "PASS", "WIFI"} \subseteq Keys
  BY TaskNames DEF Keys
<1>7. \A d, k, v : Stm(d, k, v).do = d /\ Stm(d, k, v).key = k /\ Stm(d, k, v).val = v
  BY DEF Stm
<1>8. j # 10
  BY <1>4, <1>6, <1>7, PortalStatement, FlashLaws
<1>9. j + 1 \in 1 .. 10 /\ j \in Nat
  BY <1>8
<1> DEFINE d == Now("main").do
           k == Now("main").key
           v == Now("main").val
<1>10. /\ d = "ram" => UNCHANGED <<flash, durable>>
       /\ d = "commit" => UNCHANGED flash /\ durable' = flash
       /\ d = "set" => UNCHANGED durable /\ flash'[k] = v /\ \A n \in Keys : n # k => flash'[n] = flash[n]
  BY <1>6, FlashLaws
<1>11. /\ j \in {1, 4, 7} => d = "ram"
       /\ j \in {3, 6, 9} => d = "commit"
       /\ j = 2 => d = "set" /\ k = "SSID" /\ v = e
       /\ j = 5 => d = "set" /\ k = "PASS" /\ v = e
       /\ j = 8 => d = "set" /\ k = "WIFI" /\ v = "off"
  BY <1>4, <1>7, PortalStatement
<1> HIDE DEF d, k, v
<1>12. /\ j <= 8 => flash["WIFI"] = "on" /\ durable["WIFI"] = "on"
       /\ j > 2 => flash["SSID"] = e
       /\ j > 3 => durable["SSID"] = e
       /\ j > 5 => flash["PASS"] = e
       /\ j > 6 => durable["PASS"] = e
  BY DEF PortalAt
<1>13. j = 1 \/ j = 2 \/ j = 3 \/ j = 4 \/ j = 5 \/ j = 6 \/ j = 7 \/ j = 8 \/ j = 9
  BY <1>8
<1>14. /\ j + 1 <= 8 => flash'["WIFI"] = "on" /\ durable'["WIFI"] = "on"
       /\ j + 1 > 2 => flash'["SSID"] = e
       /\ j + 1 > 3 => durable'["SSID"] = e
       /\ j + 1 > 5 => flash'["PASS"] = e
       /\ j + 1 > 6 => durable'["PASS"] = e
  BY ONLY <1>6, <1>10, <1>11, <1>12, <1>13
<1> QED BY <1>5, <1>9, <1>14 DEF PortalAt

\* The portal opens with its flag set, runs its call, and restarts.
LEMMA PortalNext ==
  ASSUME "long" \notin Entries, ConfigInv, PortalInv, [Next]_vars
  PROVE  PortalInv'
<1>0. Proceeds /\ Jobs
  BY DEF ConfigInv
<1>1. CASE UNCHANGED vars
  BY <1>1 DEF vars, bootVars, PortalInv, PortalAt
<1>2. CASE Boot
  BY <1>2, BootLaws DEF PortalInv
<1>3. ASSUME NEW t \in Tasks, Works(t) PROVE PortalInv'
  <2>1. SUFFICES ASSUME phase = "portal" PROVE PortalInv'
    BY <1>0, <1>3, WorksLaws DEF PortalInv
  <2>2. t = "main" /\ todo["main"] # << >> /\ UNCHANGED nvsUp
    BY <1>0, <1>3, <2>1, WorksLaws, TaskNames DEF Jobs
  <2>3. todo["main"] # Restart
    <3>1. SUFFICES ASSUME todo["main"] = Restart PROVE FALSE
      OBVIOUS
    <3>2. Now("main").do = "restart"
      BY <3>1 DEF Now, Restart, St
    <3> QED BY <1>0, <1>3, <2>2, <3>2, FlashLaws
  <2>4. CASE ~nvsUp
    BY <2>2, <2>4 DEF PortalInv
  <2>5. CASE nvsUp
    <3>1. PICK e \in Entries, j \in 1 .. 10 : PortalAt(e, j)
      BY <2>1, <2>2, <2>3, <2>5 DEF PortalInv
    <3>2. j + 1 \in 1 .. 10 /\ PortalAt(e, j + 1)'
      BY <1>0, <1>3, <2>2, <2>5, <3>1, PortalStep
    <3>3. todo'["main"] # << >>
      <4>1. todo'["main"] \in Seq(Statement) /\ Len(todo'["main"]) = 11 - (j + 1)
        BY <1>0, <1>3, <3>2, TaskNames, ProceedsExec DEF PortalAt, Proceeds, TypeOK, Exec, Works
      <4> QED BY <3>2, <4>1, EmptyLen
    <3> QED BY <3>2, <3>3 DEF PortalInv
  <2> QED BY <2>4, <2>5
<1>4. CASE Load
  BY <1>0, <1>4, LoadLaws DEF PortalInv
<1>5. CASE start_connection_manager
  <2>1. SUFFICES ASSUME phase' = "portal", nvsUp
                 PROVE  flash["WIFI"] = "on" /\ durable["WIFI"] = "on"
    BY <1>5 DEF start_connection_manager, Main, PortalInv
  <2>2. ram["WIFI"] = "on" /\ phase = "load" /\ todo["main"] = << >> /\ at > 10
    BY <1>5, <2>1, LoadOrderLaws DEF start_connection_manager, Main
  <2>3. at = 11
    BY <1>0, <2>2, LoadOrderLaws DEF Proceeds, TypeOK
  <2>4. \A t \in Tasks : todo[t] = << >>
    BY <1>0, <2>2, TaskNames DEF Jobs
  <2> QED BY <2>1, <2>2, <2>3, <2>4, QuietLaws DEF Kept
<1>6. CASE start_wifi_manager
  <2>1. phase = "portal" /\ todo["main"] = << >> /\ UNCHANGED <<flash, durable, nvsUp>>
    BY <1>6 DEF start_wifi_manager, Main
  <2>2. nvsUp => flash["WIFI"] = "on" /\ durable["WIFI"] = "on"
    BY <2>1 DEF PortalInv
  <2>3. CASE Calls("main", Restart)
    <3>1. todo'["main"] = Restart /\ Restart # << >>
      BY <1>0, <2>3, TaskNames, ProperRestart DEF Calls, Proceeds, TypeOK
    <3> QED BY <3>1 DEF PortalInv
  <2>4. ASSUME NEW e \in Entries, Calls("main", PortalDone(e)) PROVE PortalInv'
    <3>1. todo'["main"] = PortalDone(e)
      BY <1>0, <2>4, TaskNames DEF Calls, Proceeds, TypeOK
    <3>2. /\ PortalDone(e) \in Seq(Statement) /\ Len(PortalDone(e)) = 10
          /\ \A i \in 1 .. 10 : PortalDone(e)[i] = PortalCall(e)[i]
      BY PortalCallIs
    <3>3. todo'["main"] # << >>
      <4>1. PortalDone(e) # << >>
        <5>1. PortalDone(e) \in Seq(Statement) /\ Len(PortalDone(e)) # 0
          BY <3>2
        <5> QED BY ONLY <5>1, EmptyLen
      <4> QED BY <3>1, <4>1
    <3>4. CASE nvsUp
      <4>1. PortalAt(e, 1)'
        BY <2>1, <2>2, <3>1, <3>2, <3>4 DEF PortalAt
      <4> QED BY <3>3, <4>1 DEF PortalInv
    <3> QED BY <2>1, <3>3, <3>4 DEF PortalInv
  <2> QED BY <1>6, <2>3, <2>4 DEF start_wifi_manager
<1>7. CASE start_blizzard_wifi \/ init_done
  BY <1>7 DEF start_blizzard_wifi, init_done, Main, PortalInv
<1>8. CASE EventStep \/ Joined \/ Refused \/ Dropped \/ \E c \in Clients : client_call(c) \/ getIP(c)
  <2>1. phase # "portal" /\ phase' = phase
    <3>1. CASE EventStep
      BY <1>0, <3>1 DEF EventStep, on_got_ip, on_give_up, on_disconnected, Handler, Jobs, bootVars
    <3>2. CASE Joined \/ Refused \/ Dropped
      BY <1>0, <3>2 DEF Joined, Refused, Dropped, Post, Jobs, bootVars
    <3>3. CASE \E c \in Clients : client_call(c) \/ getIP(c)
      BY <3>3 DEF client_call, getIP, bootVars
    <3> QED BY <1>8, <3>1, <3>2, <3>3
  <2> QED BY <2>1 DEF PortalInv
<1> QED BY <1>1, <1>2, <1>3, <1>4, <1>5, <1>6, <1>7, <1>8 DEF Next, MainStep, Exec, Works, esp_restart, PowerFails

\* A write to flash keeps the pairs: the loader writes back what is there, main in the
\* portal ends with a pair, and nobody else touches a name, a password or "off".
LEMMA PairedSet ==
  ASSUME "long" \notin Entries, ConfigInv, PortalInv, Paired, NEW t \in Tasks, nvs_set(t), nvsUp
  PROVE  Paired'
<1> DEFINE k == Now(t).key
           v == Now(t).val
<1>0. Proceeds /\ Jobs /\ LoadsOne
  BY DEF ConfigInv
<1>1. /\ Works(t) /\ Now(t).do = "set" /\ durable' = durable /\ k \in Keys
      /\ flash'[k] = v /\ \A n \in Keys : n # k => flash'[n] = flash[n]
      /\ todo[t] # << >> /\ Now(t) \in Said(todo[t])
  <2>1. Works(t) /\ Now(t).do = "set"
    BY DEF Works, nvs_set, Does, Now
  <2>2. Now(t) \in Statement
    BY <1>0, <2>1, WorksLaws
  <2> QED BY <1>0, <2>1, <2>2, WorksLaws, FlashLaws DEF Statement
<1>2. {"SSID", "PASS", "WIFI"} \subseteq Keys
  BY DEF Keys
<1>3. Now(t) \in Writes(t) /\ Now(t) \in Sets(t)
  BY <1>1 DEF Writes, Sets
<1>4. CASE k \notin {"SSID", "PASS"} /\ (k = "WIFI" => v = "on")
  <2> HIDE DEF k, v
  <2> QED BY <1>1, <1>2, <1>4 DEF Paired
<1>5. CASE t # "main"
  <2>1. t = "event" \/ t \in Clients
    BY <1>5, TaskNames
  <2>2. k \notin {"SSID", "PASS"} /\ (k = "WIFI" => v = "on")
    BY <1>0, <1>3, <2>1 DEF Jobs
  <2> QED BY <1>4, <2>2
<1>6. CASE t = "main" /\ phase = "load" /\ k \in {"SSID", "PASS", "WIFI"}
  <2>1. v = flash[k] \/ (flash[k] = Absent /\ v # "off")
    BY <1>0, <1>3, <1>6 DEF LoadsOne
  <2> HIDE DEF k, v
  <2>2. CASE v = flash[k]
    BY <1>1, <1>2, <2>2 DEF Paired
  <2>3. CASE flash[k] = Absent /\ v # "off"
    <3>1. CASE k = "WIFI"
      BY <1>1, <1>2, <2>3, <3>1 DEF Paired
    <3>2. CASE k \in {"SSID", "PASS"}
      <4>1. flash["WIFI"] # "off" /\ durable["WIFI"] # "off"
        BY <2>3, <3>2 DEF Paired
      <4> QED BY <1>1, <1>2, <3>2, <4>1 DEF Paired
    <3> QED BY <1>6, <3>1, <3>2
  <2> QED BY <2>1, <2>2, <2>3
<1>7. CASE t = "main" /\ phase = "portal"
  <2>1. todo["main"] # Restart
    BY <1>1, <1>7 DEF Now, Restart, St
  <2>2. PICK e \in Entries, j \in 1 .. 10 : PortalAt(e, j)
    BY <1>1, <1>7, <2>1 DEF PortalInv
  <2>3. PortalAt(e, j + 1)' /\ j + 1 \in 1 .. 10
    BY <1>0, <1>1, <1>7, <2>2, PortalStep
  <2>4. e \in Values \ {Absent}
    BY StorableValues
  <2>5. CASE j <= 7
    BY <2>3, <2>5 DEF PortalAt, Paired
  <2>6. CASE j > 7
    <3>1. flash'["SSID"] = e /\ durable'["SSID"] = e /\ flash'["PASS"] = e /\ durable'["PASS"] = e
      BY <2>3, <2>6 DEF PortalAt
    <3> QED BY <2>4, <3>1 DEF Paired
  <2> QED BY <2>5, <2>6
<1>8. CASE t = "main" /\ phase \notin {"load", "portal"}
  <2>1. phase \in {"joining", "apply", "running"}
    BY <1>0, <1>8 DEF Proceeds, TypeOK
  <2> QED BY <1>0, <1>1, <1>8, <2>1 DEF Jobs
<1>9. CASE t = "main" /\ phase = "load" /\ k \notin {"SSID", "PASS", "WIFI"}
  BY <1>4, <1>9
<1> QED BY <1>5, <1>6, <1>7, <1>8, <1>9

\* Every step keeps them, the power failure included: of each key it keeps what was set
\* or what was committed, and both belong to the pair.
LEMMA PairedNext ==
  ASSUME "long" \notin Entries, ConfigInv, PortalInv, Paired, [Next]_vars
  PROVE  Paired'
<1>0. Proceeds /\ {"SSID", "PASS", "WIFI"} \subseteq Keys
  BY DEF ConfigInv, Keys
<1>1. CASE UNCHANGED <<flash, durable>>
  BY <1>1 DEF Paired
<1>2. CASE PowerFails
  <2>1. durable' = flash' /\ \A k \in Keys : flash'[k] \in {flash[k], durable[k]}
    BY <1>0, <1>2, CutLaws
  <2> QED BY <1>0, <2>1 DEF Paired
<1>3. ASSUME NEW t \in Tasks, Works(t) PROVE Paired'
  <2>1. CASE nvs_set(t)
    <3>1. CASE nvsUp
      BY <2>1, <3>1, PairedSet
    <3>2. CASE ~nvsUp
      BY <1>1, <2>1, <3>2 DEF nvs_set
    <3> QED BY <3>1, <3>2
  <2>2. CASE nvs_commit(t)
    BY <2>2 DEF nvs_commit, Paired
  <2>3. CASE WriteRam(t) \/ SetAdapter(t)
    BY <1>1, <2>3 DEF WriteRam, SetAdapter
  <2> QED BY <1>3, <2>1, <2>2, <2>3 DEF Works
<1>4. CASE \/ MainStep \/ EventStep \/ Joined \/ Refused \/ Dropped
           \/ \E c \in Clients : client_call(c) \/ getIP(c)
  BY <1>0, <1>1, <1>4, BeginLaws
<1>5. CASE \E t \in Tasks : esp_restart(t)
  BY <1>1, <1>5 DEF esp_restart
<1>6. CASE UNCHANGED vars
  BY <1>1, <1>6 DEF vars
<1> QED BY <1>2, <1>3, <1>4, <1>5, <1>6 DEF Next, Exec, Works

\* BlizzardConfig.PairedCredentials: whatever tasks change settings and whenever the
\* power fails, a device that boots without its portal has a name and a password that
\* were entered together, if the portal takes no password that setPass then refuses.
THEOREM CredentialsPaired ==
  ASSUME "long" \notin Entries
  PROVE  Spec => []PairedCredentials
<1>1. Init => ConfigInv /\ PortalInv /\ Paired
  <2>1. Init => PortalInv
    BY DEF Init, PortalInv
  <2>2. Init => Paired
    BY DEF Init, Paired, Keys, Absent
  <2> QED BY <2>1, <2>2, ConfigInit
<1>2. ConfigInv /\ PortalInv /\ Paired /\ [Next]_vars => ConfigInv' /\ PortalInv' /\ Paired'
  BY ConfigNext, PortalNext, PairedNext
<1>3. Paired => PairedCredentials
  BY DEF Paired, PairedCredentials
<1> QED BY <1>1, <1>2, <1>3, PTL DEF Spec

=============================================================================
