------------------------- MODULE ScreenInputProofs -------------------------
(***************************************************************************)
(* Proofs about remote control (ScreenInput.tla).  What the Mac's button   *)
(* and flags will be is read off the wire: the last message on it that     *)
(* touches them decides.  The wire changes only at its ends - a message is *)
(* appended by Send, the oldest is taken by Handle - so each part of the   *)
(* inductive invariant is proved once for each end, and then for every     *)
(* action by what it sends and what becomes of the gesture.                *)
(***************************************************************************)
EXTENDS ScreenInput, SequenceTheorems, TLAPS

\* SetThrough, the wire w an argument.
SetBy(w, n, now, on, off) ==
    \/ \E i \in 1..n : w[i] \in on /\ \A j \in (i + 1)..n : w[j] \notin off
    \/ now /\ \A j \in 1..n : w[j] \notin off

\* After the first n messages of w the button, now b, is surely down ...
Pressing(w, n, b) == SetBy(w, n, b, {Down}, {Up, Click, Double})
\* ... and surely up, also where the Mac drops the clicks among them.
Lifted(w, n, b) == SetBy(w, n, ~b, {Up}, {Down})
FlagsBy(w, n, f) ==
    {m \in Modifiers : SetBy(w, n, m \in f, {Mod(m, TRUE)}, {Mod(m, FALSE)})}

-----------------------------------------------------------------------------
(***************************************************************************)
(* The inductive invariant.                                                *)
(***************************************************************************)
\* The touch: between touches the record is clear, the timer runs only in
\* move mode, and nothing is pressed in scroll mode.
GestureSound ==
    /\ g.touches = 0 => g = Rest
    /\ g.armed => mode = "move"
    /\ g.held => mode # "scroll"
    /\ ~open => wire = <<>>

ButtonInv(w, b, held, crossed, l) ==
    "button" \notin l =>
        /\ ~held => Lifted(w, Len(w), b)
        /\ held /\ ~crossed => Pressing(w, Len(w), b)
        /\ \A i \in 1..Len(w) : w[i] = Scroll => Lifted(w, i - 1, b)

KeysInv(w, f, a, l) ==
    "modifiers" \notin l =>
        /\ FlagsBy(w, Len(w), f) = a
        /\ \A i \in 1..Len(w) :
             w[i].kind = "keyboard.key" => FlagsBy(w, i - 1, f) = w[i].shown

IInv ==
    /\ TypeOK
    /\ GestureSound
    /\ ButtonInv(wire, button, g.held, g.crossed, lost)
    /\ KeysInv(wire, flags, active, lost)

-----------------------------------------------------------------------------
(***************************************************************************)
(* Messages.                                                               *)
(***************************************************************************)
\* A message is known by its kind, and a modifier message by its key and
\* direction.
LEMMA Kinds ==
    ASSUME NEW x \in Message
    PROVE  /\ x = Down   <=> x.kind = "mouse.down"
           /\ x = Up     <=> x.kind = "mouse.up"
           /\ x = Click  <=> x.kind = "mouse.click"
           /\ x = Double <=> x.kind = "mouse.doubleClick"
           /\ x = Scroll <=> x.kind = "mouse.scroll"
           /\ \A k \in Modifiers, on \in BOOLEAN :
                x = Mod(k, on) <=> /\ x.kind = "keyboard.modifier"
                                   /\ x.modifier = k /\ x.down = on
           /\ x.kind = "keyboard.key" <=> \E s \in SUBSET Modifiers : x = Key(s)
           /\ x.kind = "keyboard.key" => x = Key(x.shown)
           /\ x.kind = "keyboard.modifier" =>
                x.modifier \in Modifiers /\ x.down \in BOOLEAN
<1>1. CASE x \in {Down, Up, Click, Double, Right, Scroll}
  BY <1>1 DEF Plain, Down, Up, Click, Double, Right, Scroll, Mod, Key
<1>2. CASE \E m \in Modifiers, on \in BOOLEAN : x = Mod(m, on)
  <2>1. PICK m \in Modifiers, on \in BOOLEAN : x = Mod(m, on)
    BY <1>2
  <2>2. x.kind = "keyboard.modifier" /\ x.modifier = m /\ x.down = on
    BY <2>1 DEF Mod
  <2>3. \A k \in Modifiers, o \in BOOLEAN :
          x = Mod(k, o) <=> /\ x.kind = "keyboard.modifier"
                            /\ x.modifier = k /\ x.down = o
    BY <2>1, <2>2 DEF Mod
  <2>4. /\ x \notin {Down, Up, Click, Double, Scroll}
        /\ \A s \in SUBSET Modifiers : x # Key(s)
    BY <2>2 DEF Plain, Down, Up, Click, Double, Scroll, Key
  <2> QED BY <2>2, <2>3, <2>4
<1>3. CASE \E s \in SUBSET Modifiers : x = Key(s)
  BY <1>3 DEF Plain, Down, Up, Click, Double, Right, Scroll, Mod, Key
<1> QED BY <1>1, <1>2, <1>3 DEF Message

\* The same of one key, direction by direction.
LEMMA ModifierKinds ==
    ASSUME NEW x \in Message, NEW k \in Modifiers
    PROVE  /\ x = Mod(k, TRUE)  => x.kind = "keyboard.modifier"
           /\ x = Mod(k, FALSE) => x.kind = "keyboard.modifier"
           /\ x.kind = "keyboard.modifier" =>
                /\ x.modifier \in Modifiers /\ x.down \in BOOLEAN
                /\ x = Mod(k, TRUE)  <=> x.modifier = k /\ x.down = TRUE
                /\ x = Mod(k, FALSE) <=> x.modifier = k /\ x.down = FALSE
<1>1. \A on \in BOOLEAN :
        x = Mod(k, on) <=> /\ x.kind = "keyboard.modifier"
                           /\ x.modifier = k /\ x.down = on
  BY Kinds, Zenon
<1>2. x.kind = "keyboard.modifier" => x.modifier \in Modifiers /\ x.down \in BOOLEAN
  BY Kinds, Zenon
<1>3. TRUE \in BOOLEAN /\ FALSE \in BOOLEAN
  OBVIOUS
<1> QED BY <1>1, <1>2, <1>3, Zenon

\* What ButtonAfter, FlagsAfter and Matters say of a message, by its name.
LEMMA Effects ==
    ASSUME NEW x \in Message
    PROVE  /\ \A b \in BOOLEAN :
                ButtonAfter(x, b) = (x = Down \/ (x \notin {Up, Click, Double} /\ b))
           /\ \A f \in SUBSET Modifiers, k \in Modifiers :
                /\ FlagsAfter(x, f) \in SUBSET Modifiers
                /\ k \in FlagsAfter(x, f) <=>
                     (x = Mod(k, TRUE) \/ (x # Mod(k, FALSE) /\ k \in f))
           /\ x \in {Down, Up} => "button" \in Matters(x)
           /\ \A k \in Modifiers, on \in BOOLEAN :
                x = Mod(k, on) => "modifiers" \in Matters(x)
           /\ Matters(x) \subseteq {"button", "modifiers"}
<1>1. ASSUME NEW b \in BOOLEAN
      PROVE  ButtonAfter(x, b) = (x = Down \/ (x \notin {Up, Click, Double} /\ b))
  <2>1. CASE x.kind = "mouse.down"
    BY <2>1, Kinds DEF ButtonAfter
  <2>2. CASE x \in {Up, Click, Double}
    BY <2>2, Kinds DEF ButtonAfter
  <2>3. CASE x.kind # "mouse.down" /\ x \notin {Up, Click, Double}
    BY <2>3, Kinds DEF ButtonAfter
  <2> QED BY <2>1, <2>2, <2>3
<1>2. ASSUME NEW f \in SUBSET Modifiers, NEW k \in Modifiers
      PROVE  /\ FlagsAfter(x, f) \in SUBSET Modifiers
             /\ k \in FlagsAfter(x, f) <=>
                  (x = Mod(k, TRUE) \/ (x # Mod(k, FALSE) /\ k \in f))
  <2>1. CASE x.kind # "keyboard.modifier"
    BY <2>1, ModifierKinds DEF FlagsAfter
  <2>2. CASE x.kind = "keyboard.modifier" /\ x.down
    <3>1. /\ FlagsAfter(x, f) = f \cup {x.modifier}
          /\ x.modifier \in Modifiers /\ x.down = TRUE
      BY <2>2, ModifierKinds DEF FlagsAfter
    <3>2. (x = Mod(k, TRUE) <=> x.modifier = k) /\ x # Mod(k, FALSE)
      BY <2>2, <3>1, ModifierKinds
    <3> QED BY <3>1, <3>2
  <2>3. CASE x.kind = "keyboard.modifier" /\ ~x.down
    <3>1. /\ FlagsAfter(x, f) = f \ {x.modifier}
          /\ x.modifier \in Modifiers /\ x.down = FALSE
      BY <2>3, ModifierKinds DEF FlagsAfter
    <3>2. (x = Mod(k, FALSE) <=> x.modifier = k) /\ x # Mod(k, TRUE)
      BY <2>3, <3>1, ModifierKinds
    <3> QED BY <3>1, <3>2
  <2> QED BY <2>1, <2>2, <2>3
<1>3. /\ x \in {Down, Up} => "button" \in Matters(x)
      /\ \A k \in Modifiers, on \in BOOLEAN :
           x = Mod(k, on) => "modifiers" \in Matters(x)
      /\ Matters(x) \subseteq {"button", "modifiers"}
  BY Kinds DEF Matters
<1> QED BY <1>1, <1>2, <1>3

\* The messages that are no modifier and no typed key.
LEMMA Names ==
    /\ {Down, Up, Click, Double, Right, Scroll} \subseteq Message
    /\ \A k \in Modifiers, on \in BOOLEAN : Mod(k, on) \in Message
    /\ \A s \in SUBSET Modifiers : Key(s) \in Message /\ Key(s).shown = s
    /\ Down # Up /\ Scroll \notin {Down, Up, Click, Double}
    /\ Down \notin {Click, Double} /\ Up \notin {Click, Double}
    /\ Right \notin {Down, Up, Click, Double, Scroll}
    /\ \A x \in {Down, Up, Click, Double, Right, Scroll} :
         /\ x.kind # "keyboard.key"
         /\ \A k \in Modifiers, on \in BOOLEAN : x # Mod(k, on)
    /\ \A s \in SUBSET Modifiers :
         /\ Key(s) \notin {Down, Up, Click, Double, Right, Scroll}
         /\ \A k \in Modifiers, on \in BOOLEAN : Key(s) # Mod(k, on)
    /\ \A k \in Modifiers, on \in BOOLEAN :
         /\ Mod(k, on) \notin {Down, Up, Click, Double, Right, Scroll}
         /\ Mod(k, on).kind # "keyboard.key"
         /\ \A k2 \in Modifiers, on2 \in BOOLEAN :
              Mod(k, on) = Mod(k2, on2) <=> k = k2 /\ on = on2
<1>1. /\ {Down, Up, Click, Double, Right, Scroll} \subseteq Message
      /\ \A k \in Modifiers, on \in BOOLEAN : Mod(k, on) \in Message
      /\ \A s \in SUBSET Modifiers : Key(s) \in Message /\ Key(s).shown = s
  BY DEF Message, Key
<1>2. /\ Down # Up /\ Scroll \notin {Down, Up, Click, Double}
      /\ Down \notin {Click, Double} /\ Up \notin {Click, Double}
      /\ Right \notin {Down, Up, Click, Double, Scroll}
  BY DEF Plain, Down, Up, Click, Double, Right, Scroll
<1>3. \A x \in {Down, Up, Click, Double, Right, Scroll} :
         /\ x.kind # "keyboard.key"
         /\ \A k \in Modifiers, on \in BOOLEAN : x # Mod(k, on)
  BY DEF Plain, Down, Up, Click, Double, Right, Scroll, Mod
<1>4. ASSUME NEW s \in SUBSET Modifiers
      PROVE  /\ Key(s) \notin {Down, Up, Click, Double, Right, Scroll}
             /\ \A k \in Modifiers, on \in BOOLEAN : Key(s) # Mod(k, on)
  BY DEF Plain, Down, Up, Click, Double, Right, Scroll, Mod, Key
<1>5. ASSUME NEW k \in Modifiers, NEW on \in BOOLEAN
      PROVE  /\ Mod(k, on) \notin {Down, Up, Click, Double, Right, Scroll}
             /\ Mod(k, on).kind # "keyboard.key"
             /\ \A k2 \in Modifiers, on2 \in BOOLEAN :
                  Mod(k, on) = Mod(k2, on2) <=> k = k2 /\ on = on2
  BY DEF Plain, Down, Up, Click, Double, Right, Scroll, Mod
<1> QED BY <1>1, <1>2, <1>3, <1>4, <1>5

-----------------------------------------------------------------------------
(***************************************************************************)
(* The wire.                                                               *)
(***************************************************************************)
\* Nothing on the wire: as it is now.
LEMMA SetAtZero ==
    ASSUME NEW w, NEW now \in BOOLEAN, NEW on, NEW off
    PROVE  SetBy(w, 0, now, on, off) <=> now
BY DEF SetBy

\* One message more: what the closed form says is what handling the messages
\* one after the other does.
LEMMA SetAtNext ==
    ASSUME NEW w, NEW n \in Nat, NEW now \in BOOLEAN, NEW on, NEW off
    PROVE  SetBy(w, n + 1, now, on, off) <=>
             (w[n + 1] \in on \/ (w[n + 1] \notin off /\ SetBy(w, n, now, on, off)))
<1>1. ASSUME w[n + 1] \in on
      PROVE  SetBy(w, n + 1, now, on, off)
  BY <1>1 DEF SetBy
<1>2. ASSUME w[n + 1] \notin off, SetBy(w, n, now, on, off)
      PROVE  SetBy(w, n + 1, now, on, off)
  <2>1. \A j \in 1..(n + 1) : j \in 1..n \/ j = n + 1
    OBVIOUS
  <2>2. CASE now /\ \A j \in 1..n : w[j] \notin off
    BY <1>2, <2>1, <2>2 DEF SetBy
  <2>3. CASE \E i \in 1..n : w[i] \in on /\ \A j \in (i + 1)..n : w[j] \notin off
    <3>1. PICK i \in 1..n : w[i] \in on /\ \A j \in (i + 1)..n : w[j] \notin off
      BY <2>3
    <3>2. i \in 1..(n + 1) /\ \A j \in (i + 1)..(n + 1) : w[j] \notin off
      <4>1. \A j \in (i + 1)..(n + 1) : j \in (i + 1)..n \/ j = n + 1
        OBVIOUS
      <4> QED BY <1>2, <3>1, <4>1
    <3> QED BY <3>1, <3>2 DEF SetBy
  <2> QED BY <1>2, <2>2, <2>3 DEF SetBy
<1>3. ASSUME SetBy(w, n + 1, now, on, off), w[n + 1] \notin on
      PROVE  w[n + 1] \notin off /\ SetBy(w, n, now, on, off)
  <2>1. CASE now /\ \A j \in 1..(n + 1) : w[j] \notin off
    BY <2>1 DEF SetBy
  <2>2. CASE \E i \in 1..(n + 1) : w[i] \in on /\ \A j \in (i + 1)..(n + 1) : w[j] \notin off
    <3>1. PICK i \in 1..(n + 1) :
             w[i] \in on /\ \A j \in (i + 1)..(n + 1) : w[j] \notin off
      BY <2>2
    <3>2. i \in 1..n /\ n + 1 \in (i + 1)..(n + 1)
      BY <1>3, <3>1
    <3>3. \A j \in (i + 1)..n : j \in (i + 1)..(n + 1)
      BY <3>2
    <3> QED BY <3>1, <3>2, <3>3 DEF SetBy
  <2> QED BY <1>3, <2>1, <2>2 DEF SetBy
<1> QED BY <1>1, <1>2, <1>3

\* What is appended later changes nothing for the messages before it.
LEMMA SetBefore ==
    ASSUME NEW w, NEW w2, NEW n \in Nat, NEW now \in BOOLEAN, NEW on, NEW off,
           \A i \in 1..n : w2[i] = w[i]
    PROVE  SetBy(w2, n, now, on, off) <=> SetBy(w, n, now, on, off)
<1>1. \A i \in 1..n : \A j \in (i + 1)..n : j \in 1..n
  OBVIOUS
<1> QED BY <1>1 DEF SetBy

\* The oldest message is taken: what was set stays so, if now2 keeps it ...
LEMMA SetStays ==
    ASSUME NEW w, NEW w2, NEW n \in Nat, NEW now \in BOOLEAN, NEW now2 \in BOOLEAN,
           NEW on, NEW off,
           \A i \in 1..n : w2[i] = w[i + 1],
           w[1] \in on \/ (w[1] \notin off /\ now) => now2,
           SetBy(w, n + 1, now, on, off)
    PROVE  SetBy(w2, n, now2, on, off)
<1>1. CASE now /\ \A j \in 1..(n + 1) : w[j] \notin off
  <2>1. now2
    BY <1>1
  <2>2. \A j \in 1..n : w2[j] \notin off
    BY <1>1
  <2> QED BY <2>1, <2>2 DEF SetBy
<1>2. CASE \E i \in 1..(n + 1) : w[i] \in on /\ \A j \in (i + 1)..(n + 1) : w[j] \notin off
  <2>1. PICK i \in 1..(n + 1) :
           w[i] \in on /\ \A j \in (i + 1)..(n + 1) : w[j] \notin off
    BY <1>2
  <2>2. CASE i = 1
    <3>1. now2
      BY <2>1, <2>2
    <3>2. \A j \in 1..n : w2[j] \notin off
      BY <2>1, <2>2
    <3> QED BY <3>1, <3>2 DEF SetBy
  <2>3. CASE i # 1
    <3> DEFINE k == i - 1
    <3>1. k \in 1..n /\ k + 1 = i
      BY <2>3
    <3>2. w2[k] \in on
      BY <2>1, <3>1
    <3>3. \A j \in (k + 1)..n : w2[j] \notin off
      <4> TAKE j \in (k + 1)..n
      <4>1. j \in 1..n /\ j + 1 \in (i + 1)..(n + 1)
        BY <3>1
      <4> QED BY <2>1, <4>1
    <3> QED BY <3>1, <3>2, <3>3 DEF SetBy
  <2> QED BY <2>2, <2>3
<1> QED BY <1>1, <1>2 DEF SetBy

\* ... and what is set was, if now2 adds nothing.
LEMMA SetWas ==
    ASSUME NEW w, NEW w2, NEW n \in Nat, NEW now \in BOOLEAN, NEW now2 \in BOOLEAN,
           NEW on, NEW off,
           \A i \in 1..n : w2[i] = w[i + 1],
           now2 => w[1] \in on \/ (w[1] \notin off /\ now),
           SetBy(w2, n, now2, on, off)
    PROVE  SetBy(w, n + 1, now, on, off)
<1>0. \A j \in 2..(n + 1) : j - 1 \in 1..n /\ (j - 1) + 1 = j /\ w[j] = w2[j - 1]
  OBVIOUS
<1>1. CASE now2 /\ \A j \in 1..n : w2[j] \notin off
  <2>1. \A j \in 2..(n + 1) : w[j] \notin off
    BY <1>0, <1>1
  <2>2. CASE w[1] \in on
    BY <2>1, <2>2 DEF SetBy
  <2>3. CASE w[1] \notin off /\ now
    <3>1. \A j \in 1..(n + 1) : j = 1 \/ j \in 2..(n + 1)
      OBVIOUS
    <3> QED BY <2>1, <2>3, <3>1 DEF SetBy
  <2> QED BY <1>1, <2>2, <2>3
<1>2. CASE \E i \in 1..n : w2[i] \in on /\ \A j \in (i + 1)..n : w2[j] \notin off
  <2>1. PICK i \in 1..n : w2[i] \in on /\ \A j \in (i + 1)..n : w2[j] \notin off
    BY <1>2
  <2> DEFINE k == i + 1
  <2>2. k \in 1..(n + 1) /\ w[k] \in on
    BY <2>1
  <2>3. \A j \in (k + 1)..(n + 1) : w[j] \notin off
    <3> TAKE j \in (k + 1)..(n + 1)
    <3>1. j \in 2..(n + 1) /\ j - 1 \in (i + 1)..n
      OBVIOUS
    <3> QED BY <1>0, <2>1, <3>1
  <2> QED BY <2>2, <2>3 DEF SetBy
<1> QED BY <1>1, <1>2 DEF SetBy

\* The properties' operators are these, of the wire as it is.
LEMMA ThroughIs ==
    /\ \A n : ButtonThrough(n) <=> Pressing(wire, n, button)
    /\ \A n : FlagsThrough(n) = FlagsBy(wire, n, flags)
BY DEF ButtonThrough, FlagsThrough, SetThrough, Pressing, FlagsBy, SetBy

\* A button that is surely up is not down.
LEMMA LiftedIsUp ==
    ASSUME NEW w, NEW n \in Nat, NEW b \in BOOLEAN, Lifted(w, n, b)
    PROVE  ~Pressing(w, n, b)
<1>1. CASE ~b /\ \A j \in 1..n : w[j] # Down
  BY <1>1 DEF Pressing, SetBy
<1>2. CASE \E u \in 1..n : w[u] = Up /\ \A j \in (u + 1)..n : w[j] # Down
  <2>1. PICK u \in 1..n : w[u] = Up /\ \A j \in (u + 1)..n : w[j] # Down
    BY <1>2
  <2>2. ASSUME NEW i \in 1..n, w[i] = Down,
               \A j \in (i + 1)..n : w[j] \notin {Up, Click, Double}
        PROVE  FALSE
    <3>1. CASE i < u
      <4>1. u \in (i + 1)..n
        BY <3>1
      <4> QED BY <2>1, <2>2, <4>1
    <3>2. CASE i = u
      BY <2>1, <2>2, <3>2, Names
    <3>3. CASE i > u
      <4>1. i \in (u + 1)..n
        BY <3>3
      <4> QED BY <2>1, <2>2, <4>1
    <3> QED BY <3>1, <3>2, <3>3
  <2> QED BY <2>1, <2>2 DEF Pressing, SetBy
<1> QED BY <1>1, <1>2 DEF Lifted, SetBy

\* A message added at the end, and the oldest taken away.
LEMMA Ends ==
    ASSUME NEW w \in Seq(Message)
    PROVE  /\ \A m \in Message :
                /\ w \o <<m>> \in Seq(Message) /\ Len(w \o <<m>>) = Len(w) + 1
                /\ (w \o <<m>>)[Len(w) + 1] = m
                /\ \A i \in 1..Len(w) : (w \o <<m>>)[i] = w[i]
           /\ w # <<>> =>
                /\ Tail(w) \in Seq(Message) /\ Len(w) = Len(Tail(w)) + 1
                /\ Head(w) = w[1] /\ w[1] \in Message
                /\ \A i \in 1..Len(Tail(w)) : Tail(w)[i] = w[i + 1]
           /\ \A i \in 1..Len(w) : w[i] \in Message
           /\ Len(w) \in Nat
BY HeadTailProperties, ConcatProperties

\* Every message of a sequence that is lost, and the one message of a send.
LEMMA LostOfIs ==
    /\ \A w \in Seq(Message) : \A i \in 1..Len(w) : Matters(w[i]) \subseteq LostOf(w)
    /\ \A m : LostOf(<<m>>) = Matters(m)
    /\ LostOf(<<>>) = {}
    /\ \A m, n : LostOf(<<m, n>>) = Matters(m) \cup Matters(n)
BY DEF LostOf, ToSet

-----------------------------------------------------------------------------
(***************************************************************************)
(* The button.                                                             *)
(***************************************************************************)
\* Nothing is sent: the gesture may let go only of what was let go of.
LEMMA ButtonKept ==
    ASSUME NEW w, NEW b, NEW h \in BOOLEAN, NEW c \in BOOLEAN, NEW l,
           NEW h2 \in BOOLEAN, NEW c2 \in BOOLEAN, NEW l2,
           ButtonInv(w, b, h, c, l), l \subseteq l2,
           "button" \notin l2 => (h => h2) /\ (h2 /\ ~c2 => h /\ ~c)
    PROVE  ButtonInv(w, b, h2, c2, l2)
BY DEF ButtonInv

\* The button's state after one message more.
LEMMA ButtonNext ==
    ASSUME NEW w, NEW n \in Nat, NEW b \in BOOLEAN
    PROVE  /\ Lifted(w, n + 1, b) <=>
                (w[n + 1] = Up \/ (w[n + 1] # Down /\ Lifted(w, n, b)))
           /\ Pressing(w, n + 1, b) <=>
                (w[n + 1] = Down \/ (w[n + 1] \notin {Up, Click, Double}
                                       /\ Pressing(w, n, b)))
<1>1. (~b) \in BOOLEAN
  OBVIOUS
<1>2. Lifted(w, n + 1, b) <=>
        (w[n + 1] \in {Up} \/ (w[n + 1] \notin {Down} /\ Lifted(w, n, b)))
  BY <1>1, SetAtNext DEF Lifted
<1>3. Pressing(w, n + 1, b) <=>
        (w[n + 1] \in {Down} \/ (w[n + 1] \notin {Up, Click, Double}
                                       /\ Pressing(w, n, b)))
  BY SetAtNext DEF Pressing
<1> QED BY <1>2, <1>3

\* A message is appended: the gesture that sends it says what it does to the
\* button, and nothing scrolls while it holds.
LEMMA ButtonSent ==
    ASSUME NEW w \in Seq(Message), NEW m \in Message, NEW b \in BOOLEAN,
           NEW h \in BOOLEAN, NEW c \in BOOLEAN, NEW l,
           NEW h2 \in BOOLEAN, NEW c2 \in BOOLEAN,
           ButtonInv(w, b, h, c, l),
           m = Scroll => ~h,
           ~h2 => m = Up \/ (~h /\ m # Down),
           h2 /\ ~c2 => m = Down \/ (h /\ ~c /\ m \notin {Up, Click, Double})
    PROVE  ButtonInv(w \o <<m>>, b, h2, c2, l)
<1> DEFINE w2 == w \o <<m>>
           n  == Len(w)
<1>1. /\ n \in Nat /\ Len(w2) = n + 1 /\ w2[n + 1] = m
      /\ \A i \in 1..n : w2[i] = w[i]
  BY Ends
<1> HIDE DEF w2
<1>2. \A k \in 0..n : Lifted(w2, k, b) <=> Lifted(w, k, b)
  <2> SUFFICES ASSUME NEW k \in 0..n PROVE Lifted(w2, k, b) <=> Lifted(w, k, b)
    OBVIOUS
  <2>1. k \in Nat /\ \A i \in 1..k : w2[i] = w[i]
    BY <1>1
  <2>2. (~b) \in BOOLEAN
    OBVIOUS
  <2> QED BY <2>1, <2>2, SetBefore, Zenon DEF Lifted
<1>3. Pressing(w2, n, b) <=> Pressing(w, n, b)
  BY <1>1, SetBefore, Zenon DEF Pressing
<1>4. SUFFICES ASSUME "button" \notin l
               PROVE  /\ ~h2 => Lifted(w2, n + 1, b)
                      /\ h2 /\ ~c2 => Pressing(w2, n + 1, b)
                      /\ \A i \in 1..(n + 1) : w2[i] = Scroll => Lifted(w2, i - 1, b)
  BY <1>1 DEF ButtonInv, w2
<1>5. /\ ~h => Lifted(w2, n, b)
      /\ h /\ ~c => Pressing(w2, n, b)
      /\ \A i \in 1..n : w[i] = Scroll => Lifted(w, i - 1, b)
  BY <1>1, <1>2, <1>3, <1>4 DEF ButtonInv
<1>6. /\ ~h2 => Lifted(w2, n + 1, b)
      /\ h2 /\ ~c2 => Pressing(w2, n + 1, b)
  BY <1>1, <1>5, ButtonNext
<1>7. ASSUME NEW i \in 1..(n + 1), w2[i] = Scroll
      PROVE  Lifted(w2, i - 1, b)
  <2>1. CASE i \in 1..n
    <3>1. i - 1 \in 0..n /\ w[i] = Scroll
      BY <1>1, <1>7, <2>1
    <3> QED BY <1>2, <1>5, <2>1, <3>1
  <2>2. CASE i = n + 1
    BY <1>1, <1>5, <1>7, <2>2
  <2> QED BY <1>1, <2>1, <2>2
<1> QED BY <1>6, <1>7

\* A send on a channel that is open or closed.
LEMMA ButtonSends ==
    ASSUME NEW w \in Seq(Message), NEW m \in Message, NEW b \in BOOLEAN,
           NEW h \in BOOLEAN, NEW c \in BOOLEAN, NEW l,
           NEW h2 \in BOOLEAN, NEW c2 \in BOOLEAN, NEW w2, NEW l2,
           ButtonInv(w, b, h, c, l),
           \/ w2 = w \o <<m>> /\ l2 = l
           \/ w2 = w /\ l2 = l \cup Matters(m),
           m = Scroll => ~h,
           ~h2 => m = Up \/ (~h /\ m # Down),
           h2 /\ ~c2 => m = Down \/ (h /\ ~c /\ m \notin {Up, Click, Double})
    PROVE  ButtonInv(w2, b, h2, c2, l2)
<1>1. CASE w2 = w \o <<m>> /\ l2 = l
  <2>1. ButtonInv(w \o <<m>>, b, h2, c2, l)
    BY ButtonSent
  <2> QED BY <1>1, <2>1
<1>2. CASE w2 = w /\ l2 = l \cup Matters(m)
  <2>1. "button" \notin l2 => m \notin {Down, Up}
    BY <1>2, Effects
  <2>2. "button" \notin l2 => (h => h2) /\ (h2 /\ ~c2 => h /\ ~c)
    BY <2>1
  <2>3. l \subseteq l2
    BY <1>2
  <2> QED BY <1>2, <2>2, <2>3, ButtonKept
<1> QED BY <1>1, <1>2

\* The Mac takes the oldest message, and obeys or drops it.
LEMMA ButtonHandled ==
    ASSUME NEW w \in Seq(Message), w # <<>>, NEW b \in BOOLEAN,
           NEW h \in BOOLEAN, NEW c \in BOOLEAN, NEW l, NEW b2, NEW l2,
           ButtonInv(w, b, h, c, l),
           \/ b2 = ButtonAfter(Head(w), b) /\ l2 = l
           \/ b2 = b /\ l2 = l \cup Matters(Head(w))
    PROVE  ButtonInv(Tail(w), b2, h, c, l2)
<1> DEFINE n == Len(Tail(w))
           x == w[1]
<1>1. /\ n \in Nat /\ Len(w) = n + 1 /\ Head(w) = x /\ x \in Message
      /\ \A i \in 1..n : Tail(w)[i] = w[i + 1]
      /\ Tail(w) \in Seq(Message)
  <2>1. Tail(w) \in Seq(Message)
    BY Ends
  <2> QED BY <2>1, Ends
<1> SUFFICES ASSUME "button" \notin l2
             PROVE  /\ ~h => Lifted(Tail(w), n, b2)
                    /\ h /\ ~c => Pressing(Tail(w), n, b2)
                    /\ \A i \in 1..n : Tail(w)[i] = Scroll => Lifted(Tail(w), i - 1, b2)
  BY DEF ButtonInv
<1>a. /\ ButtonAfter(x, b) = (x = Down \/ (x \notin {Up, Click, Double} /\ b))
      /\ x \in {Down, Up} => "button" \in Matters(x)
  <2> HIDE DEF x
  <2> QED BY <1>1, Effects, Zenon
<1>2. "button" \notin l /\ b2 \in BOOLEAN
  BY <1>1, <1>a
<1>3. /\ x = Up \/ (x # Down /\ ~b) => ~b2
      /\ x = Down \/ (x \notin {Up, Click, Double} /\ b) => b2
  <2>1. CASE b2 = ButtonAfter(Head(w), b) /\ l2 = l
    BY <1>1, <1>a, <2>1, Names
  <2>2. CASE b2 = b /\ l2 = l \cup Matters(Head(w))
    <3>1. x \notin {Down, Up}
      BY <1>1, <1>a, <2>2
    <3> QED BY <2>2, <3>1
  <2> QED BY <2>1, <2>2
<1> HIDE DEF x
<1>4. \A k \in 0..n : Lifted(w, k + 1, b) => Lifted(Tail(w), k, b2)
  <2> SUFFICES ASSUME NEW k \in 0..n, Lifted(w, k + 1, b) PROVE Lifted(Tail(w), k, b2)
    OBVIOUS
  <2>1. k \in Nat /\ \A i \in 1..k : Tail(w)[i] = w[i + 1]
    BY <1>1
  <2>2. (~b) \in BOOLEAN /\ (~b2) \in BOOLEAN
    BY <1>2
  <2>3. w[1] \in {Up} \/ (w[1] \notin {Down} /\ ~b) => ~b2
    BY <1>3 DEF x
  <2> QED BY <2>1, <2>2, <2>3, SetStays DEF Lifted
<1>5. Pressing(w, n + 1, b) => Pressing(Tail(w), n, b2)
  <2>1. w[1] \in {Down} \/ (w[1] \notin {Up, Click, Double} /\ b) => b2
    BY <1>3 DEF x
  <2>2. n \in Nat /\ \A i \in 1..n : Tail(w)[i] = w[i + 1]
    BY <1>1
  <2> DEFINE w2 == Tail(w)
             off == {Up, Click, Double}
  <2>3. /\ \A i \in 1..n : w2[i] = w[i + 1]
        /\ w[1] \in {Down} \/ (w[1] \notin off /\ b) => b2
    BY <2>1, <2>2
  <2> HIDE DEF n, w2, off
  <2>4. SetBy(w, n + 1, b, {Down}, off) => SetBy(w2, n, b2, {Down}, off)
    BY <1>2, <2>2, <2>3, SetStays
  <2> QED BY <2>4 DEF Pressing, w2, off
<1>6. ASSUME NEW i \in 1..n, Tail(w)[i] = Scroll
      PROVE  Lifted(Tail(w), i - 1, b2)
  <2>1. i + 1 \in 1..Len(w) /\ w[i + 1] = Scroll
    BY <1>1, <1>6
  <2>2. Lifted(w, (i + 1) - 1, b)
    BY <1>2, <2>1 DEF ButtonInv
  <2>3. (i + 1) - 1 = (i - 1) + 1 /\ i - 1 \in 0..n
    OBVIOUS
  <2>4. Lifted(w, (i - 1) + 1, b)
    BY <2>2, <2>3
  <2> QED BY <1>4, <2>3, <2>4
<1>7. n \in 0..n
  BY <1>1
<1> QED BY <1>1, <1>2, <1>4, <1>5, <1>6, <1>7 DEF ButtonInv

\* The messages in flight are gone.
LEMMA ButtonGone ==
    ASSUME NEW w \in Seq(Message), NEW b \in BOOLEAN,
           NEW h \in BOOLEAN, NEW c \in BOOLEAN, NEW l,
           ButtonInv(w, b, h, c, l)
    PROVE  ButtonInv(<<>>, b, h, c, l \cup LostOf(w))
<1> SUFFICES ASSUME "button" \notin l \cup LostOf(w)
             PROVE  /\ ~h => ~b
                    /\ h /\ ~c => b
  <2>1. Lifted(<<>>, 0, b) <=> ~b
    BY DEF Lifted, SetBy
  <2>2. Pressing(<<>>, 0, b) <=> b
    BY DEF Pressing, SetBy
  <2> QED BY <2>1, <2>2 DEF ButtonInv
<1>1. \A i \in 1..Len(w) : w[i] \notin {Down, Up}
  BY LostOfIs, Effects, Ends
<1>2. (~h => Lifted(w, Len(w), b)) /\ (h /\ ~c => Pressing(w, Len(w), b))
  BY DEF ButtonInv
<1>3. Lifted(w, Len(w), b) => ~b
  BY <1>1 DEF Lifted, SetBy
<1>4. Pressing(w, Len(w), b) => b
  BY <1>1 DEF Pressing, SetBy
<1> QED BY <1>2, <1>3, <1>4

-----------------------------------------------------------------------------
(***************************************************************************)
(* The keys.                                                               *)
(***************************************************************************)
\* The flags after no message, and after one more.
LEMMA FlagsNext ==
    ASSUME NEW w, NEW f \in SUBSET Modifiers
    PROVE  /\ FlagsBy(w, 0, f) = f
           /\ \A n \in Nat, k \in Modifiers :
                k \in FlagsBy(w, n + 1, f) <=>
                  (w[n + 1] = Mod(k, TRUE)
                     \/ (w[n + 1] # Mod(k, FALSE) /\ k \in FlagsBy(w, n, f)))
<1>1. FlagsBy(w, 0, f) = f
  <2>1. \A k \in Modifiers :
          SetBy(w, 0, k \in f, {Mod(k, TRUE)}, {Mod(k, FALSE)}) <=> k \in f
    BY DEF SetBy
  <2> QED BY <2>1 DEF FlagsBy
<1>2. ASSUME NEW n \in Nat, NEW k \in Modifiers
      PROVE  k \in FlagsBy(w, n + 1, f) <=>
               (w[n + 1] = Mod(k, TRUE)
                  \/ (w[n + 1] # Mod(k, FALSE) /\ k \in FlagsBy(w, n, f)))
  <2>1. ASSUME NEW now \in BOOLEAN
        PROVE  SetBy(w, n + 1, now, {Mod(k, TRUE)}, {Mod(k, FALSE)}) <=>
                 (w[n + 1] \in {Mod(k, TRUE)}
                    \/ (w[n + 1] \notin {Mod(k, FALSE)}
                          /\ SetBy(w, n, now, {Mod(k, TRUE)}, {Mod(k, FALSE)})))
    <3> DEFINE on == {Mod(k, TRUE)}
               off == {Mod(k, FALSE)}
    <3> HIDE DEF on, off
    <3>1. SetBy(w, n + 1, now, on, off) <=>
            (w[n + 1] \in on \/ (w[n + 1] \notin off /\ SetBy(w, n, now, on, off)))
      BY SetAtNext
    <3> QED BY <3>1 DEF on, off
  <2>2. (k \in f) \in BOOLEAN
    OBVIOUS
  <2> DEFINE now == k \in f
  <2>3. SetBy(w, n + 1, now, {Mod(k, TRUE)}, {Mod(k, FALSE)}) <=>
          (w[n + 1] \in {Mod(k, TRUE)}
             \/ (w[n + 1] \notin {Mod(k, FALSE)}
                   /\ SetBy(w, n, now, {Mod(k, TRUE)}, {Mod(k, FALSE)})))
    <3> HIDE DEF now
    <3>1. now \in BOOLEAN
      BY <2>2 DEF now
    <3> QED BY <2>1, <3>1
  <2> QED BY <2>3 DEF FlagsBy
<1> QED BY <1>1, <1>2

\* What is appended later changes no flags before it.
LEMMA FlagsBefore ==
    ASSUME NEW w, NEW w2, NEW n \in Nat, NEW f \in SUBSET Modifiers,
           \A i \in 1..n : w2[i] = w[i]
    PROVE  FlagsBy(w2, n, f) = FlagsBy(w, n, f)
<1>1. ASSUME NEW k \in Modifiers, NEW now \in BOOLEAN
      PROVE  SetBy(w2, n, now, {Mod(k, TRUE)}, {Mod(k, FALSE)})
               <=> SetBy(w, n, now, {Mod(k, TRUE)}, {Mod(k, FALSE)})
  BY SetBefore
<1>2. \A k \in Modifiers : (k \in f) \in BOOLEAN
  OBVIOUS
<1>3. \A k \in Modifiers :
        SetBy(w2, n, k \in f, {Mod(k, TRUE)}, {Mod(k, FALSE)})
          <=> SetBy(w, n, k \in f, {Mod(k, TRUE)}, {Mod(k, FALSE)})
  BY <1>1, <1>2, Zenon
<1> QED BY <1>3, Zenon DEF FlagsBy

\* The message x makes the flags f into f2.
Makes(x, f, f2) ==
    \A k \in Modifiers : k \in f2 <=> (x = Mod(k, TRUE) \/ (x # Mod(k, FALSE) /\ k \in f))

\* The oldest message is taken, and f2 is what it leaves.
LEMMA FlagsShifted ==
    ASSUME NEW w, NEW w2, NEW n \in Nat, NEW f \in SUBSET Modifiers,
           NEW f2 \in SUBSET Modifiers,
           \A i \in 1..n : w2[i] = w[i + 1],
           Makes(w[1], f, f2)
    PROVE  FlagsBy(w2, n, f2) = FlagsBy(w, n + 1, f)
<1>1. ASSUME NEW k \in Modifiers, NEW now \in BOOLEAN, NEW now2 \in BOOLEAN,
             now2 <=> (w[1] = Mod(k, TRUE) \/ (w[1] # Mod(k, FALSE) /\ now))
      PROVE  SetBy(w2, n, now2, {Mod(k, TRUE)}, {Mod(k, FALSE)})
               <=> SetBy(w, n + 1, now, {Mod(k, TRUE)}, {Mod(k, FALSE)})
  <2>1. now2 <=> (w[1] \in {Mod(k, TRUE)} \/ (w[1] \notin {Mod(k, FALSE)} /\ now))
    BY <1>1
  <2> DEFINE on == {Mod(k, TRUE)}
             off == {Mod(k, FALSE)}
  <2>2. now2 <=> (w[1] \in on \/ (w[1] \notin off /\ now))
    BY <2>1
  <2> HIDE DEF on, off
  <2>3. SetBy(w2, n, now2, on, off) <=> SetBy(w, n + 1, now, on, off)
    <3>1. SetBy(w, n + 1, now, on, off) => SetBy(w2, n, now2, on, off)
      BY <2>2, SetStays
    <3>2. SetBy(w2, n, now2, on, off) => SetBy(w, n + 1, now, on, off)
      BY <2>2, SetWas
    <3> QED BY <3>1, <3>2
  <2> QED BY <2>3 DEF on, off
<1>2. \A k \in Modifiers : (k \in f) \in BOOLEAN /\ (k \in f2) \in BOOLEAN
  OBVIOUS
<1>3. \A k \in Modifiers :
        SetBy(w2, n, k \in f2, {Mod(k, TRUE)}, {Mod(k, FALSE)})
          <=> SetBy(w, n + 1, k \in f, {Mod(k, TRUE)}, {Mod(k, FALSE)})
  BY <1>1, <1>2, Zenon DEF Makes
<1> QED BY <1>3, Zenon DEF FlagsBy

\* A message is appended: a modifier moves the toolbar too, a key carries it.
LEMMA KeysSent ==
    ASSUME NEW w \in Seq(Message), NEW m \in Message, NEW f \in SUBSET Modifiers,
           NEW a \in SUBSET Modifiers, NEW a2 \in SUBSET Modifiers, NEW l,
           KeysInv(w, f, a, l),
           m.kind = "keyboard.key" => m.shown = a,
           \A k \in Modifiers :
             k \in a2 <=> (m = Mod(k, TRUE) \/ (m # Mod(k, FALSE) /\ k \in a))
    PROVE  KeysInv(w \o <<m>>, f, a2, l)
<1> DEFINE w2 == w \o <<m>>
           n  == Len(w)
<1>1. /\ n \in Nat /\ Len(w2) = n + 1 /\ w2[n + 1] = m
      /\ \A i \in 1..n : w2[i] = w[i]
  BY Ends
<1> HIDE DEF w2
<1>2. \A k \in 0..n : FlagsBy(w2, k, f) = FlagsBy(w, k, f)
  <2> SUFFICES ASSUME NEW k \in 0..n PROVE FlagsBy(w2, k, f) = FlagsBy(w, k, f)
    OBVIOUS
  <2>1. k \in Nat /\ \A i \in 1..k : w2[i] = w[i]
    BY <1>1
  <2> QED BY <2>1, FlagsBefore
<1>3. SUFFICES ASSUME "modifiers" \notin l
               PROVE  /\ FlagsBy(w2, n + 1, f) = a2
                      /\ \A i \in 1..(n + 1) :
                           w2[i].kind = "keyboard.key" => FlagsBy(w2, i - 1, f) = w2[i].shown
  BY <1>1 DEF KeysInv, w2
<1>4. /\ FlagsBy(w2, n, f) = a
      /\ \A i \in 1..n :
           w[i].kind = "keyboard.key" => FlagsBy(w, i - 1, f) = w[i].shown
  BY <1>1, <1>2, <1>3 DEF KeysInv
<1>5. FlagsBy(w2, n + 1, f) = a2
  <2>1. \A k \in Modifiers :
          k \in FlagsBy(w2, n + 1, f) <=>
            (m = Mod(k, TRUE) \/ (m # Mod(k, FALSE) /\ k \in a))
    <3>1. \A k \in Modifiers :
            k \in FlagsBy(w2, n + 1, f) <=>
              (w2[n + 1] = Mod(k, TRUE)
                 \/ (w2[n + 1] # Mod(k, FALSE) /\ k \in FlagsBy(w2, n, f)))
      <4> HIDE DEF n
      <4> QED BY <1>1, FlagsNext
    <3> QED BY <1>1, <1>4, <3>1
  <2>2. FlagsBy(w2, n + 1, f) \subseteq Modifiers
    BY DEF FlagsBy
  <2> QED BY <2>1, <2>2
<1>6. ASSUME NEW i \in 1..(n + 1), w2[i].kind = "keyboard.key"
      PROVE  FlagsBy(w2, i - 1, f) = w2[i].shown
  <2>1. CASE i \in 1..n
    <3>1. i - 1 \in 0..n /\ w[i] = w2[i]
      BY <1>1, <2>1
    <3> QED BY <1>2, <1>4, <1>6, <2>1, <3>1
  <2>2. CASE i = n + 1
    BY <1>1, <1>4, <1>6, <2>2
  <2> QED BY <1>1, <2>1, <2>2
<1> QED BY <1>5, <1>6

\* A send on a channel that is open or closed.
LEMMA KeysSends ==
    ASSUME NEW w \in Seq(Message), NEW m \in Message, NEW f \in SUBSET Modifiers,
           NEW a \in SUBSET Modifiers, NEW a2 \in SUBSET Modifiers, NEW l,
           NEW w2, NEW l2,
           KeysInv(w, f, a, l),
           \/ w2 = w \o <<m>> /\ l2 = l
           \/ w2 = w /\ l2 = l \cup Matters(m),
           m.kind = "keyboard.key" => m.shown = a,
           \A k \in Modifiers :
             k \in a2 <=> (m = Mod(k, TRUE) \/ (m # Mod(k, FALSE) /\ k \in a))
    PROVE  KeysInv(w2, f, a2, l2)
<1>1. CASE w2 = w \o <<m>> /\ l2 = l
  <2>1. KeysInv(w \o <<m>>, f, a2, l)
    BY KeysSent
  <2> QED BY <1>1, <2>1
<1>2. CASE w2 = w /\ l2 = l \cup Matters(m)
  <2> SUFFICES ASSUME "modifiers" \notin l2 PROVE KeysInv(w, f, a2, l2)
    BY <1>2 DEF KeysInv
  <2>1. \A k \in Modifiers : m # Mod(k, TRUE) /\ m # Mod(k, FALSE)
    <3>1. TRUE \in BOOLEAN /\ FALSE \in BOOLEAN
      OBVIOUS
    <3>2. "modifiers" \notin Matters(m)
      BY <1>2
    <3> QED BY <3>1, <3>2, Effects, Zenon
  <2>2. a2 = a
    BY <2>1
  <2> QED BY <1>2, <2>2 DEF KeysInv
<1> QED BY <1>1, <1>2

\* The Mac takes the oldest message, and obeys or drops it.
LEMMA KeysHandled ==
    ASSUME NEW w \in Seq(Message), w # <<>>, NEW f \in SUBSET Modifiers,
           NEW a, NEW l, NEW f2, NEW l2,
           KeysInv(w, f, a, l),
           \/ f2 = FlagsAfter(Head(w), f) /\ l2 = l
           \/ f2 = f /\ l2 = l \cup Matters(Head(w))
    PROVE  KeysInv(Tail(w), f2, a, l2) /\ f2 \in SUBSET Modifiers
<1> DEFINE n == Len(Tail(w))
           x == w[1]
<1>1. /\ n \in Nat /\ Len(w) = n + 1 /\ Head(w) = x /\ x \in Message
      /\ \A i \in 1..n : Tail(w)[i] = w[i + 1]
  <2>1. Tail(w) \in Seq(Message)
    BY Ends
  <2> QED BY <2>1, Ends
<1>2. /\ FlagsAfter(x, f) \in SUBSET Modifiers
      /\ \A k \in Modifiers :
           /\ k \in FlagsAfter(x, f) <=>
                (x = Mod(k, TRUE) \/ (x # Mod(k, FALSE) /\ k \in f))
           /\ x = Mod(k, TRUE) \/ x = Mod(k, FALSE) => "modifiers" \in Matters(x)
  <2> HIDE DEF x
  <2>1. FlagsAfter(x, f) \in SUBSET Modifiers
    <3>1. CASE x.kind # "keyboard.modifier"
      BY <3>1 DEF FlagsAfter
    <3>2. CASE x.kind = "keyboard.modifier"
      <4>1. x.modifier \in Modifiers
        BY <1>1, <3>2, Kinds, Zenon
      <4> QED BY <4>1 DEF FlagsAfter
    <3> QED BY <3>1, <3>2
  <2>2. TRUE \in BOOLEAN /\ FALSE \in BOOLEAN
    OBVIOUS
  <2> QED BY <1>1, <2>1, <2>2, Effects, Zenon
<1> HIDE DEF x
<1>3. f2 \in SUBSET Modifiers
  BY <1>1, <1>2
<1> SUFFICES ASSUME "modifiers" \notin l2
             PROVE  /\ FlagsBy(Tail(w), n, f2) = a
                    /\ \A i \in 1..n : Tail(w)[i].kind = "keyboard.key"
                         => FlagsBy(Tail(w), i - 1, f2) = Tail(w)[i].shown
  BY <1>3 DEF KeysInv
<1>4. /\ "modifiers" \notin l
      /\ \A k \in Modifiers :
           k \in f2 <=> (x = Mod(k, TRUE) \/ (x # Mod(k, FALSE) /\ k \in f))
  BY <1>1, <1>2
<1>5. \A k \in 0..n : FlagsBy(Tail(w), k, f2) = FlagsBy(w, k + 1, f)
  <2> SUFFICES ASSUME NEW k \in 0..n
               PROVE  FlagsBy(Tail(w), k, f2) = FlagsBy(w, k + 1, f)
    OBVIOUS
  <2>1. k \in Nat /\ \A i \in 1..k : Tail(w)[i] = w[i + 1]
    BY <1>1
  <2>2. Makes(w[1], f, f2)
    BY <1>4 DEF x, Makes
  <2> DEFINE w2 == Tail(w)
  <2>3. k \in Nat /\ \A i \in 1..k : w2[i] = w[i + 1]
    BY <2>1
  <2> HIDE DEF w2, n
  <2>4. FlagsBy(w2, k, f2) = FlagsBy(w, k + 1, f)
    BY <1>3, <2>2, <2>3, FlagsShifted
  <2> QED BY <2>4 DEF w2, n
<1>6. FlagsBy(Tail(w), n, f2) = a
  BY <1>1, <1>4, <1>5 DEF KeysInv
<1>7. ASSUME NEW i \in 1..n, Tail(w)[i].kind = "keyboard.key"
      PROVE  FlagsBy(Tail(w), i - 1, f2) = Tail(w)[i].shown
  <2>1. i + 1 \in 1..Len(w) /\ w[i + 1] = Tail(w)[i]
    BY <1>1
  <2>2. FlagsBy(w, (i + 1) - 1, f) = w[i + 1].shown
    BY <1>4, <1>7, <2>1 DEF KeysInv
  <2>3. (i + 1) - 1 = (i - 1) + 1 /\ i - 1 \in 0..n
    OBVIOUS
  <2> QED BY <1>5, <2>1, <2>2, <2>3
<1> QED BY <1>6, <1>7

\* The messages in flight are gone.
LEMMA KeysGone ==
    ASSUME NEW w \in Seq(Message), NEW f \in SUBSET Modifiers, NEW a, NEW l,
           KeysInv(w, f, a, l)
    PROVE  KeysInv(<<>>, f, a, l \cup LostOf(w))
<1> SUFFICES ASSUME "modifiers" \notin l \cup LostOf(w)
             PROVE  f = a
  <2>1. FlagsBy(<<>>, 0, f) = f
    BY FlagsNext
  <2> QED BY <2>1 DEF KeysInv
<1>1. \A i \in 1..Len(w), k \in Modifiers : w[i] # Mod(k, TRUE) /\ w[i] # Mod(k, FALSE)
  <2> SUFFICES ASSUME NEW i \in 1..Len(w), NEW k \in Modifiers
               PROVE  w[i] # Mod(k, TRUE) /\ w[i] # Mod(k, FALSE)
    OBVIOUS
  <2>1. w[i] \in Message /\ "modifiers" \notin Matters(w[i])
    BY LostOfIs, Ends
  <2>2. TRUE \in BOOLEAN /\ FALSE \in BOOLEAN
    OBVIOUS
  <2> QED BY <2>1, <2>2, Effects, Zenon
<1>2. FlagsBy(w, Len(w), f) = a
  BY DEF KeysInv
<1>3. \A k \in Modifiers :
        SetBy(w, Len(w), k \in f, {Mod(k, TRUE)}, {Mod(k, FALSE)}) <=> k \in f
  BY <1>1 DEF SetBy
<1> QED BY <1>2, <1>3 DEF FlagsBy
\* The properties say what the button and the flags are after n messages in
\* closed form; it is what InputInjector.handle makes of them one by one.
THEOREM ThroughIsHandling ==
    ASSUME TypeOK
    PROVE  /\ ButtonThrough(0) <=> button
           /\ FlagsThrough(0) = flags
           /\ \A n \in 0..(Len(wire) - 1) :
                /\ ButtonThrough(n + 1) <=> ButtonAfter(wire[n + 1], ButtonThrough(n))
                /\ FlagsThrough(n + 1) = FlagsAfter(wire[n + 1], FlagsThrough(n))
<1>1. wire \in Seq(Message) /\ button \in BOOLEAN /\ flags \in SUBSET Modifiers
  BY DEF TypeOK
<1>2. ButtonThrough(0) <=> button
  BY <1>1 DEF ButtonThrough, SetThrough
<1>3. FlagsThrough(0) = flags
  BY <1>1, FlagsNext, ThroughIs
<1>4. ASSUME NEW n \in 0..(Len(wire) - 1)
      PROVE  /\ ButtonThrough(n + 1) <=> ButtonAfter(wire[n + 1], ButtonThrough(n))
             /\ FlagsThrough(n + 1) = FlagsAfter(wire[n + 1], FlagsThrough(n))
  <2> DEFINE x == wire[n + 1]
             b == ButtonThrough(n)
             f == FlagsThrough(n)
  <2>1. n \in Nat /\ x \in Message
    BY <1>1, Ends
  <2>2. b \in BOOLEAN /\ f \in SUBSET Modifiers
    BY DEF ButtonThrough, SetThrough, FlagsThrough
  <2>3. /\ ButtonThrough(n + 1) <=> (x = Down \/ (x \notin {Up, Click, Double} /\ b))
        /\ \A k \in Modifiers : k \in FlagsThrough(n + 1) <=>
             (x = Mod(k, TRUE) \/ (x # Mod(k, FALSE) /\ k \in f))
    <3>1. Pressing(wire, n + 1, button) <=>
            (wire[n + 1] = Down \/ (wire[n + 1] \notin {Up, Click, Double}
                                       /\ Pressing(wire, n, button)))
      BY <1>1, <2>1, ButtonNext
    <3>2. \A k \in Modifiers : k \in FlagsBy(wire, n + 1, flags) <=>
            (wire[n + 1] = Mod(k, TRUE)
               \/ (wire[n + 1] # Mod(k, FALSE) /\ k \in FlagsBy(wire, n, flags)))
      BY <1>1, <2>1, FlagsNext
    <3>3. /\ ButtonThrough(n + 1) <=> Pressing(wire, n + 1, button)
          /\ ButtonThrough(n) <=> Pressing(wire, n, button)
          /\ FlagsThrough(n + 1) = FlagsBy(wire, n + 1, flags)
          /\ FlagsThrough(n) = FlagsBy(wire, n, flags)
      BY ThroughIs
    <3> QED BY <3>1, <3>2, <3>3
  <2>4. FlagsThrough(n + 1) \subseteq Modifiers
    BY DEF FlagsThrough
  <2> HIDE DEF x, b, f
  <2>5. /\ ButtonAfter(x, b) = (x = Down \/ (x \notin {Up, Click, Double} /\ b))
        /\ FlagsAfter(x, f) \subseteq Modifiers
        /\ \A k \in Modifiers :
             k \in FlagsAfter(x, f) <=> (x = Mod(k, TRUE) \/ (x # Mod(k, FALSE) /\ k \in f))
    <3>1. ButtonAfter(x, b) = (x = Down \/ (x \notin {Up, Click, Double} /\ b))
      BY <2>1, <2>2, Effects, Zenon
    <3>2. \A k \in Modifiers :
            /\ FlagsAfter(x, f) \in SUBSET Modifiers
            /\ k \in FlagsAfter(x, f) <=> (x = Mod(k, TRUE) \/ (x # Mod(k, FALSE) /\ k \in f))
      BY <2>1, <2>2, Effects, Zenon
    <3>3. Modifiers = {} => FlagsAfter(x, f) \subseteq Modifiers
      <4> SUFFICES ASSUME Modifiers = {} PROVE FlagsAfter(x, f) \subseteq Modifiers
        OBVIOUS
      <4>1. x.kind # "keyboard.modifier"
        BY <2>1, Kinds
      <4> QED BY <2>2, <4>1 DEF FlagsAfter
    <3> QED BY <3>1, <3>2, <3>3
  <2>6. ButtonThrough(n + 1) <=> ButtonAfter(x, b)
    BY <2>3, <2>5
  <2>7. FlagsThrough(n + 1) = FlagsAfter(x, f)
    BY <2>3, <2>4, <2>5
  <2> QED BY <2>6, <2>7 DEF x, b, f
<1> QED BY <1>2, <1>3, <1>4

-----------------------------------------------------------------------------
(***************************************************************************)
(* Kinds of step: what an action of the phone sends, and what it must keep *)
(* for the invariant to hold.                                              *)
(***************************************************************************)
PhoneTypes ==
    /\ mounted \in BOOLEAN /\ mode \in Modes /\ direct \in BOOLEAN
    /\ g \in GestureRec
    /\ pending \in (0..DoubleTap) \cup {Off}
    /\ zoomed \in BOOLEAN /\ active \in SUBSET Modifiers
TouchSound ==
    /\ g.touches = 0 => g = Rest
    /\ g.armed => mode = "move"
    /\ g.held => mode # "scroll"

\* TypeOK and GestureSound, split by whose state they are about.
LEMMA Split ==
    /\ TypeOK <=>
         /\ PhoneTypes
         /\ open \in BOOLEAN /\ wire \in Seq(Message) /\ Len(wire) <= MaxWire
         /\ button \in BOOLEAN /\ trusted \in BOOLEAN /\ cached \in BOOLEAN
         /\ flags \in SUBSET Modifiers
         /\ lost \subseteq {"button", "modifiers"} /\ faults \in 0..MaxFaults
    /\ GestureSound <=> TouchSound /\ (~open => wire = <<>>)
BY DEF TypeOK, PhoneTypes, GestureSound, TouchSound

\* The gesture's fields are what their types say.
LEMMA Fields ==
    ASSUME g \in GestureRec
    PROVE  /\ g.touches \in 0..2 /\ g.age \in 0..LongPress
           /\ g.still \in BOOLEAN /\ g.held \in BOOLEAN /\ g.dragging \in BOOLEAN
           /\ g.single \in BOOLEAN /\ g.spread \in BOOLEAN
           /\ g.armed \in BOOLEAN /\ g.crossed \in BOOLEAN
BY DEF GestureRec

\* Send, of no message, of one, and of two.
LEMMA Sends ==
    ASSUME TypeOK
    PROVE  /\ Send(<<>>) => wire' = wire /\ lost' = lost
           /\ \A m \in Message : Send(<<m>>) =>
                /\ wire' \in Seq(Message) /\ Len(wire') <= MaxWire
                /\ lost' \subseteq {"button", "modifiers"}
                /\ \/ open /\ wire' = wire \o <<m>> /\ lost' = lost
                   \/ ~open /\ wire' = wire /\ lost' = lost \cup Matters(m)
           /\ \A m, n \in Message : Send(<<m>> \o <<n>>) =>
                /\ wire' \in Seq(Message) /\ Len(wire') <= MaxWire
                /\ lost' \subseteq {"button", "modifiers"}
                /\ \/ open /\ wire' = (wire \o <<m>>) \o <<n>> /\ lost' = lost
                   \/ /\ ~open /\ wire' = wire
                      /\ lost' = (lost \cup Matters(m)) \cup Matters(n)
<1>1. wire \in Seq(Message) /\ Len(wire) <= MaxWire /\ open \in BOOLEAN
      /\ lost \subseteq {"button", "modifiers"}
  BY DEF TypeOK
<1>2. Send(<<>>) => wire' = wire /\ lost' = lost
  BY <1>1, LostOfIs DEF Send
<1>3. ASSUME NEW m \in Message, Send(<<m>>)
      PROVE  /\ wire' \in Seq(Message) /\ Len(wire') <= MaxWire
             /\ lost' \subseteq {"button", "modifiers"}
             /\ \/ open /\ wire' = wire \o <<m>> /\ lost' = lost
                \/ ~open /\ wire' = wire /\ lost' = lost \cup Matters(m)
  <2>1. \/ open /\ wire' = wire \o <<m>> /\ lost' = lost
        \/ ~open /\ wire' = wire /\ lost' = lost \cup Matters(m)
    BY <1>1, <1>3, LostOfIs DEF Send
  <2>2. open => Len(wire) + 1 <= MaxWire
    BY <1>3 DEF Send
  <2>3. wire \o <<m>> \in Seq(Message) /\ Len(wire \o <<m>>) = Len(wire) + 1
    BY <1>1, Ends
  <2>4. Matters(m) \subseteq {"button", "modifiers"}
    BY Effects, Zenon
  <2> QED BY <1>1, <2>1, <2>2, <2>3, <2>4
<1>4. ASSUME NEW m \in Message, NEW n \in Message, Send(<<m>> \o <<n>>)
      PROVE  /\ wire' \in Seq(Message) /\ Len(wire') <= MaxWire
             /\ lost' \subseteq {"button", "modifiers"}
             /\ \/ open /\ wire' = (wire \o <<m>>) \o <<n>> /\ lost' = lost
                \/ /\ ~open /\ wire' = wire
                   /\ lost' = (lost \cup Matters(m)) \cup Matters(n)
  <2>1. /\ wire \o (<<m>> \o <<n>>) = (wire \o <<m>>) \o <<n>>
        /\ <<m>> \o <<n>> = <<m, n>> /\ Len(<<m>> \o <<n>>) = 2
    <3>1. <<m>> \in Seq(Message) /\ <<n>> \in Seq(Message) /\ <<m, n>> \in Seq(Message)
      OBVIOUS
    <3>2. <<m, n>> = <<m>> \o <<n>> /\ Len(<<m>> \o <<n>>) = 2
      <4>1. /\ <<m>> \o <<n>> \in Seq(Message) /\ Len(<<m>> \o <<n>>) = 2
            /\ (<<m>> \o <<n>>)[1] = m /\ (<<m>> \o <<n>>)[2] = n
        BY <3>1, Ends
      <4> DEFINE t == <<m>> \o <<n>>
                 u == <<m, n>>
      <4>2. Len(u) = 2 /\ u[1] = m /\ u[2] = n /\ u \in Seq(Message)
        BY <3>1
      <4>3. Len(t) = 2 /\ t[1] = m /\ t[2] = n /\ t \in Seq(Message)
        BY <4>1
      <4> HIDE DEF t, u
      <4>4. Len(u) = Len(t) /\ \A i \in 1..Len(u) : u[i] = t[i]
        BY <4>2, <4>3
      <4>5. u = t
        BY <4>2, <4>3, <4>4, SeqEqual
      <4> QED BY <4>3, <4>5 DEF t, u
    <3>3. wire \o (<<m>> \o <<n>>) = (wire \o <<m>>) \o <<n>>
      BY <1>1, <3>1, ConcatAssociative
    <3> QED BY <3>2, <3>3
  <2>2. \/ open /\ wire' = (wire \o <<m>>) \o <<n>> /\ lost' = lost
        \/ /\ ~open /\ wire' = wire
           /\ lost' = (lost \cup Matters(m)) \cup Matters(n)
    <3>1. LostOf(<<m>> \o <<n>>) = Matters(m) \cup Matters(n)
      BY <2>1, LostOfIs
    <3> QED BY <1>1, <1>4, <2>1, <3>1 DEF Send
  <2>3. open => Len(wire) + 2 <= MaxWire
    BY <1>4, <2>1 DEF Send
  <2>4. wire \o <<m>> \in Seq(Message) /\ Len(wire \o <<m>>) = Len(wire) + 1
    BY <1>1, Ends
  <2>5. /\ (wire \o <<m>>) \o <<n>> \in Seq(Message)
        /\ Len((wire \o <<m>>) \o <<n>>) = (Len(wire) + 1) + 1
    BY <2>4, Ends
  <2>6. Matters(m) \subseteq {"button", "modifiers"} /\ Matters(n) \subseteq {"button", "modifiers"}
    BY Effects, Zenon
  <2>7. Len(wire) \in Nat
    BY <1>1, Ends
  <2>8. /\ (open \/ ~open)
        /\ open => wire' = (wire \o <<m>>) \o <<n>> /\ lost' = lost
        /\ ~open => wire' = wire /\ lost' = (lost \cup Matters(m)) \cup Matters(n)
    BY <2>2
  <2>9. CASE open
    <3>1. Len(wire') = (Len(wire) + 1) + 1 /\ wire' \in Seq(Message)
      BY <2>5, <2>8, <2>9
    <3>2. Len(wire') <= MaxWire
      BY <2>3, <2>7, <2>9, <3>1
    <3> QED BY <1>1, <2>8, <2>9, <3>1, <3>2
  <2>10. CASE ~open
    BY <1>1, <2>6, <2>8, <2>10
  <2> QED BY <2>9, <2>10
<1> QED BY <1>2, <1>3, <1>4

\* A step that sends nothing lets go of no button, takes up none and leaves
\* the toolbar.
LEMMA NoneSent ==
    ASSUME IInv, UNCHANGED <<wire, lost, open, mac, faults, active>>,
           PhoneTypes', TouchSound',
           g.held => g'.held, g'.held /\ ~g'.crossed => g.held /\ ~g.crossed
    PROVE  IInv'
<1>1. TypeOK' /\ GestureSound'
  BY Split DEF IInv, mac, TypeOK, PhoneTypes, GestureSound, TouchSound
<1>2. ButtonInv(wire, button, g.held, g.crossed, lost)'
  BY DEF IInv, ButtonInv, mac, Lifted, Pressing, SetBy
<1>3. KeysInv(wire, flags, active, lost)'
  BY DEF IInv, KeysInv, mac, FlagsBy, SetBy
<1> QED BY <1>1, <1>2, <1>3 DEF IInv

\* A step that sends one message.
LEMMA OneSent ==
    ASSUME IInv, NEW m \in Message, Send(<<m>>), UNCHANGED <<open, mac, faults>>,
           PhoneTypes', TouchSound',
           m = Scroll => ~g.held,
           ~g'.held => m = Up \/ (~g.held /\ m # Down),
           g'.held /\ ~g'.crossed =>
             m = Down \/ (g.held /\ ~g.crossed /\ m \notin {Up, Click, Double}),
           m.kind = "keyboard.key" => m.shown = active,
           \A k \in Modifiers :
             k \in active' <=> (m = Mod(k, TRUE) \/ (m # Mod(k, FALSE) /\ k \in active))
    PROVE  IInv'
<1>1. /\ wire' \in Seq(Message) /\ Len(wire') <= MaxWire
      /\ lost' \subseteq {"button", "modifiers"}
      /\ \/ open /\ wire' = wire \o <<m>> /\ lost' = lost
         \/ ~open /\ wire' = wire /\ lost' = lost \cup Matters(m)
  BY Sends, Zenon DEF IInv
<1>2. /\ PhoneTypes /\ wire \in Seq(Message) /\ button \in BOOLEAN
      /\ flags \in SUBSET Modifiers
      /\ TouchSound /\ (~open => wire = <<>>)
  BY Split DEF IInv
<1>3. TypeOK' /\ GestureSound'
  BY <1>1, <1>2 DEF IInv, mac, TypeOK, PhoneTypes, GestureSound, TouchSound
<1>4. /\ g.held \in BOOLEAN /\ g.crossed \in BOOLEAN
      /\ g'.held \in BOOLEAN /\ g'.crossed \in BOOLEAN
  BY <1>2 DEF PhoneTypes, GestureRec
<1>5. ButtonInv(wire', button, g'.held, g'.crossed, lost')
  <2>1. ButtonInv(wire, button, g.held, g.crossed, lost)
    BY DEF IInv
  <2>2. \/ wire' = wire \o <<m>> /\ lost' = lost
        \/ wire' = wire /\ lost' = lost \cup Matters(m)
    BY <1>1
  <2> DEFINE h == g.held
             c == g.crossed
             h2 == g'.held
             c2 == g'.crossed
             w2 == wire'
             l2 == lost'
  <2>3. /\ h \in BOOLEAN /\ c \in BOOLEAN /\ h2 \in BOOLEAN /\ c2 \in BOOLEAN
        /\ ButtonInv(wire, button, h, c, lost)
        /\ \/ w2 = wire \o <<m>> /\ l2 = lost
           \/ w2 = wire /\ l2 = lost \cup Matters(m)
        /\ m = Scroll => ~h
        /\ ~h2 => m = Up \/ (~h /\ m # Down)
        /\ h2 /\ ~c2 => m = Down \/ (h /\ ~c /\ m \notin {Up, Click, Double})
    BY <1>4, <2>1, <2>2
  <2> HIDE DEF h, c, h2, c2, w2, l2
  <2>4. ButtonInv(w2, button, h2, c2, l2)
    BY <1>2, <2>3, ButtonSends
  <2> QED BY <2>4 DEF h2, c2, w2, l2
<1>6. KeysInv(wire', flags, active', lost')
  <2>1. KeysInv(wire, flags, active, lost)
    BY DEF IInv
  <2>2. \/ wire' = wire \o <<m>> /\ lost' = lost
        \/ wire' = wire /\ lost' = lost \cup Matters(m)
    BY <1>1
  <2>3. active \in SUBSET Modifiers /\ active' \in SUBSET Modifiers
    BY <1>2 DEF PhoneTypes
  <2> QED BY <1>2, <2>1, <2>2, <2>3, KeysSends
<1>7. button' = button /\ flags' = flags
  BY DEF mac
<1> QED BY <1>3, <1>5, <1>6, <1>7 DEF IInv

\* A step that sends one message which is no modifier and no key.
LEMMA OnePlain ==
    ASSUME IInv, NEW m \in {Down, Up, Click, Double, Right, Scroll}, Send(<<m>>),
           UNCHANGED <<open, mac, faults, active>>,
           PhoneTypes', TouchSound',
           m = Scroll => ~g.held,
           ~g'.held => m = Up \/ (~g.held /\ m # Down),
           g'.held /\ ~g'.crossed =>
             m = Down \/ (g.held /\ ~g.crossed /\ m \notin {Up, Click, Double})
    PROVE  IInv'
<1>1. m \in Message /\ m.kind # "keyboard.key"
  BY Names
<1>2. \A k \in Modifiers : m # Mod(k, TRUE) /\ m # Mod(k, FALSE)
  <2>1. \A k \in Modifiers, on \in BOOLEAN : m # Mod(k, on)
    BY Names, Zenon
  <2> QED BY <2>1
<1>3. \A k \in Modifiers :
        k \in active' <=> (m = Mod(k, TRUE) \/ (m # Mod(k, FALSE) /\ k \in active))
  BY <1>2
<1> QED BY <1>1, <1>3, OneSent

-----------------------------------------------------------------------------
(***************************************************************************)
(* The actions.                                                            *)
(***************************************************************************)
\* What the invariant says of the phone's state.
LEMMA PhoneFacts ==
    ASSUME IInv
    PROVE  /\ mounted \in BOOLEAN /\ mode \in Modes /\ direct \in BOOLEAN
           /\ g \in GestureRec /\ pending \in (0..DoubleTap) \cup {Off}
           /\ zoomed \in BOOLEAN /\ active \in SUBSET Modifiers
           /\ PhoneTypes /\ TouchSound
           /\ g.touches = 0 => g = Rest
           /\ g.armed => mode = "move"
           /\ g.held => mode # "scroll"
BY Split DEF IInv, PhoneTypes, TouchSound

\* A finger is put down.
LEMMA GrantStep ==
    ASSUME IInv, NEW n \in 1..2, Grant(n)
    PROVE  IInv'
<1>1. /\ g = Rest /\ mode \in Modes
      /\ g' = [Rest EXCEPT !.touches = n, !.single = (n = 1), !.spread = (n = 2),
                           !.held  = (n = 1 /\ Pressed(mode)),
                           !.armed = (n = 1 /\ mode = "move")]
  BY PhoneFacts DEF Grant, Idle
<1>2. /\ g' \in GestureRec /\ g'.touches = n /\ g'.held = (n = 1 /\ mode = "drag")
      /\ g'.armed = (n = 1 /\ mode = "move") /\ g'.crossed = FALSE
  <2> DEFINE h == n = 1 /\ mode = "drag"
             a == n = 1 /\ mode = "move"
             s == n = 1
             t == n = 2
  <2>1. g' = [touches |-> n, age |-> 0, still |-> TRUE, held |-> h, dragging |-> FALSE,
              single |-> s, spread |-> t, armed |-> a, crossed |-> FALSE]
    BY <1>1 DEF Rest, Pressed
  <2>2. /\ h \in BOOLEAN /\ a \in BOOLEAN /\ s \in BOOLEAN /\ t \in BOOLEAN
        /\ n \in 0..2 /\ 0 \in 0..LongPress
    BY TimingAssumption
  <2>3. g' \in GestureRec /\ g'.touches = n /\ g'.held = h /\ g'.armed = a /\ g'.crossed = FALSE
    <3> HIDE DEF h, a, s, t
    <3> QED BY <2>1, <2>2 DEF GestureRec
  <2> QED BY <2>3
<1>3. ~g.held /\ ~g.crossed
  BY <1>1 DEF Rest
<1>4. PhoneTypes' /\ TouchSound'
  <2>1. PhoneTypes'
    BY <1>2, PhoneFacts DEF Grant, PhoneTypes
  <2>2. mode' = mode /\ g'.touches # 0
    BY <1>2 DEF Grant
  <2>3. (g'.armed => mode = "move") /\ (g'.held => mode = "drag")
    BY <1>2
  <2> QED BY <2>1, <2>2, <2>3 DEF TouchSound
<1>5. CASE n = 1 /\ mode = "drag"
  <2>1. Send(<<Down>>)
    BY <1>5 DEF Grant, Pressed
  <2>2. g'.held /\ Down # Scroll
    BY <1>2, <1>5, Names
  <2> QED BY <1>3, <1>4, <2>1, <2>2, OnePlain DEF Grant
<1>6. CASE ~(n = 1 /\ mode = "drag")
  <2>1. Send(<<>>)
    BY <1>6 DEF Grant, Pressed
  <2>2. wire' = wire /\ lost' = lost
    BY <2>1, Sends DEF IInv
  <2>3. ~g'.held
    BY <1>2, <1>6
  <2> QED BY <1>3, <1>4, <2>2, <2>3, NoneSent DEF Grant
<1> QED BY <1>5, <1>6

\* The long press begins a drag, in move mode only.
LEMMA LongPressStep ==
    ASSUME IInv, LongPressFires
    PROVE  IInv'
<1>1. /\ g' = [g EXCEPT !.armed = FALSE, !.held = TRUE] /\ g.armed /\ g \in GestureRec
      /\ mode = "move" /\ Send(<<Down>>)
  BY PhoneFacts DEF LongPressFires
<1>2. /\ g' \in GestureRec /\ g'.held = TRUE /\ g'.armed = FALSE
      /\ g'.touches = g.touches
  BY <1>1 DEF GestureRec
<1>3. g.touches # 0
  BY <1>1, PhoneFacts DEF Rest
<1>4. PhoneTypes' /\ TouchSound'
  BY <1>1, <1>2, <1>3, PhoneFacts DEF LongPressFires, PhoneTypes, TouchSound
<1> QED BY <1>1, <1>2, <1>4, Names, OnePlain DEF LongPressFires

\* Fingers come and go under a touch.
LEMMA FingerStep ==
    ASSUME IInv, FingerChange \/ MoveAnchor
    PROVE  IInv'
<1>1. /\ g' \in GestureRec /\ g'.touches # 0 /\ g'.held = g.held
      /\ g'.armed = g.armed /\ g'.crossed = g.crossed
  <2>1. /\ g \in GestureRec /\ g.touches \in 1..2
        /\ \/ g' = [g EXCEPT !.touches = 3 - g.touches]
           \/ g' = [g EXCEPT !.single = TRUE, !.spread = FALSE]
    BY PhoneFacts, Fields DEF FingerChange, MoveAnchor
  <2>2. CASE g' = [g EXCEPT !.touches = 3 - g.touches]
    BY <2>1, <2>2 DEF GestureRec
  <2>3. CASE g' = [g EXCEPT !.single = TRUE, !.spread = FALSE]
    <3>1. /\ g'.touches = g.touches /\ g'.held = g.held
          /\ g'.armed = g.armed /\ g'.crossed = g.crossed
      BY <2>1, <2>3 DEF GestureRec
    <3>2. g' \in GestureRec
      BY <2>1, <2>3 DEF GestureRec
    <3> QED BY <2>1, <3>1, <3>2
  <2> QED BY <2>1, <2>2, <2>3
<1>2. PhoneTypes' /\ TouchSound'
  BY <1>1, PhoneFacts DEF FingerChange, MoveAnchor, PhoneTypes, TouchSound
<1>3. UNCHANGED <<wire, lost, open, mac, faults, active>>
  BY DEF FingerChange, MoveAnchor
<1> QED BY <1>1, <1>2, <1>3, NoneSent

\* An up and a scroll, of a gesture that then holds nothing: the button ...
LEMMA ButtonTwice ==
    ASSUME NEW w \in Seq(Message), NEW b \in BOOLEAN,
           NEW h \in BOOLEAN, NEW c \in BOOLEAN, NEW l,
           NEW h2 \in BOOLEAN, NEW w2, NEW l2,
           ButtonInv(w, b, h, c, l), ~h2,
           \/ w2 = (w \o <<Up>>) \o <<Scroll>> /\ l2 = l
           \/ w2 = w /\ l2 = (l \cup Matters(Up)) \cup Matters(Scroll)
    PROVE  ButtonInv(w2, b, h2, c, l2)
<1>1. /\ Up \in Message /\ Scroll \in Message /\ Up # Down /\ Scroll # Down
      /\ Scroll # Up
  BY Names
<1>2. CASE w2 = (w \o <<Up>>) \o <<Scroll>> /\ l2 = l
  <2> DEFINE w1 == w \o <<Up>>
  <2>1. w1 \in Seq(Message)
    BY <1>1, Ends
  <2>2. ButtonInv(w1, b, h2, c, l)
    BY <1>1, ButtonSent
  <2> HIDE DEF w1
  <2>3. ButtonInv(w1 \o <<Scroll>>, b, h2, c, l)
    BY <1>1, <2>1, <2>2, ButtonSent
  <2> QED BY <1>2, <2>3 DEF w1
<1>3. CASE w2 = w /\ l2 = (l \cup Matters(Up)) \cup Matters(Scroll)
  <2>1. "button" \in l2
    BY <1>1, <1>3, Effects
  <2> QED BY <1>3, <2>1 DEF ButtonInv
<1> QED BY <1>2, <1>3

\* ... and the keys.
LEMMA KeysTwice ==
    ASSUME NEW w \in Seq(Message), NEW f \in SUBSET Modifiers,
           NEW a \in SUBSET Modifiers, NEW l, NEW w2, NEW l2,
           KeysInv(w, f, a, l),
           \/ w2 = (w \o <<Up>>) \o <<Scroll>> /\ l2 = l
           \/ w2 = w /\ l2 = (l \cup Matters(Up)) \cup Matters(Scroll)
    PROVE  KeysInv(w2, f, a, l2)
<1>1. /\ Up \in Message /\ Scroll \in Message
      /\ Up.kind # "keyboard.key" /\ Scroll.kind # "keyboard.key"
      /\ \A k \in Modifiers : /\ Up # Mod(k, TRUE) /\ Up # Mod(k, FALSE)
                               /\ Scroll # Mod(k, TRUE) /\ Scroll # Mod(k, FALSE)
  <2>1. \A x \in {Up, Scroll} :
          /\ x.kind # "keyboard.key"
          /\ \A k \in Modifiers, on \in BOOLEAN : x # Mod(k, on)
    BY Names
  <2> QED BY <2>1, Names
<1>2. CASE w2 = (w \o <<Up>>) \o <<Scroll>> /\ l2 = l
  <2> DEFINE w1 == w \o <<Up>>
  <2>1. w1 \in Seq(Message)
    BY <1>1, Ends
  <2>2. KeysInv(w1, f, a, l)
    BY <1>1, KeysSent
  <2> HIDE DEF w1
  <2>3. KeysInv(w1 \o <<Scroll>>, f, a, l)
    BY <1>1, <2>1, <2>2, KeysSent
  <2> QED BY <1>2, <2>3 DEF w1
<1>3. CASE w2 = w /\ l2 = (l \cup Matters(Up)) \cup Matters(Scroll)
  BY <1>3 DEF KeysInv
<1> QED BY <1>2, <1>3

\* Two fingers: what the first one pressed is released before they scroll.
LEMMA MoveTwoStep ==
    ASSUME IInv, MoveTwo
    PROVE  IInv'
<1> PICK z \in (IF g.spread THEN BOOLEAN ELSE {zoomed}) :
      zoomed' = z /\ Send(Release2 \o Travel2(z))
  BY DEF MoveTwo
<1>1. /\ g' \in GestureRec /\ g'.touches = 2 /\ g'.held = FALSE
      /\ g'.armed = FALSE /\ g'.crossed = g.crossed
      /\ g.held \in BOOLEAN /\ g.crossed \in BOOLEAN
  BY PhoneFacts DEF MoveTwo, GestureRec
<1>2. zoomed' \in BOOLEAN
  BY PhoneFacts
<1>3. PhoneTypes' /\ TouchSound'
  BY <1>1, <1>2, PhoneFacts DEF MoveTwo, PhoneTypes, TouchSound
<1>4. UNCHANGED <<open, mac, faults, active>>
  BY DEF MoveTwo
<1>5. Up \in Message /\ Scroll \in Message /\ Up # Down /\ Scroll # Down /\ Scroll # Up
  BY Names
<1>6. CASE ~g.held /\ Travel2(z) = <<>>
  <2>1. Release2 \o Travel2(z) = <<>>
    BY <1>6 DEF Release2
  <2>2. wire' = wire /\ lost' = lost
    BY <2>1, Sends DEF IInv
  <2> QED BY <1>1, <1>3, <1>4, <1>6, <2>2, NoneSent
<1>7. CASE ~g.held /\ Travel2(z) = <<Scroll>>
  <2>1. Release2 \o Travel2(z) = <<Scroll>>
    <3>1. <<Scroll>> \in Seq(Message)
      BY <1>5
    <3> QED BY <1>7, <3>1, ConcatEmptySeq DEF Release2
  <2> QED BY <1>1, <1>3, <1>4, <1>5, <1>7, <2>1, OnePlain
<1>8. CASE g.held /\ Travel2(z) = <<>>
  <2>1. Release2 \o Travel2(z) = <<Up>>
    <3>1. <<Up>> \in Seq(Message)
      BY <1>5
    <3> QED BY <1>8, <3>1, ConcatEmptySeq DEF Release2
  <2> QED BY <1>1, <1>3, <1>4, <1>5, <1>8, <2>1, OnePlain
<1>9. CASE g.held /\ Travel2(z) = <<Scroll>>
  <2>1. Send(<<Up>> \o <<Scroll>>)
    BY <1>9 DEF Release2
  <2>2. /\ wire' \in Seq(Message) /\ Len(wire') <= MaxWire
        /\ lost' \subseteq {"button", "modifiers"}
        /\ \/ open /\ wire' = (wire \o <<Up>>) \o <<Scroll>> /\ lost' = lost
           \/ /\ ~open /\ wire' = wire
              /\ lost' = (lost \cup Matters(Up)) \cup Matters(Scroll)
    BY <1>5, <2>1, Sends, Zenon DEF IInv
  <2>3. /\ wire \in Seq(Message) /\ button \in BOOLEAN /\ flags \in SUBSET Modifiers
        /\ ~open => wire = <<>>
    BY Split DEF IInv
  <2>4. TypeOK' /\ GestureSound'
    BY <1>3, <1>4, <2>2, <2>3
       DEF IInv, mac, TypeOK, PhoneTypes, GestureSound, TouchSound
  <2>5. /\ ButtonInv(wire, button, g.held, g.crossed, lost)
        /\ KeysInv(wire, flags, active, lost) /\ active \in SUBSET Modifiers
    BY PhoneFacts DEF IInv
  <2>6. /\ ButtonInv(wire', button, g'.held, g.crossed, lost')
        /\ KeysInv(wire', flags, active, lost')
    <3> DEFINE w2 == wire'
               l2 == lost'
               h  == g.held
               h2 == g'.held
               c  == g.crossed
    <3>1. /\ h \in BOOLEAN /\ h2 \in BOOLEAN /\ c \in BOOLEAN /\ ~h2
          /\ ButtonInv(wire, button, h, c, lost)
          /\ KeysInv(wire, flags, active, lost) /\ active \in SUBSET Modifiers
          /\ \/ w2 = (wire \o <<Up>>) \o <<Scroll>> /\ l2 = lost
             \/ w2 = wire /\ l2 = (lost \cup Matters(Up)) \cup Matters(Scroll)
      BY <1>1, <2>2, <2>5
    <3> HIDE DEF w2, l2, h, h2, c
    <3>2. ButtonInv(w2, button, h2, c, l2)
      BY <2>3, <3>1, ButtonTwice
    <3>3. KeysInv(w2, flags, active, l2)
      BY <2>3, <3>1, KeysTwice
    <3> QED BY <3>2, <3>3 DEF w2, l2, h2, c
  <2>8. button' = button /\ flags' = flags
    BY <1>4 DEF mac
  <2>9. /\ ButtonInv(wire', button', g'.held, g'.crossed, lost')
        /\ KeysInv(wire', flags', active', lost')
    BY <1>1, <1>4, <2>6, <2>8
  <2> QED BY <2>4, <2>9 DEF IInv
<1> QED BY <1>1, <1>6, <1>7, <1>8, <1>9 DEF Travel2

\* One finger moves; in scroll mode it scrolls, and then it holds nothing.
LEMMA MoveOneStep ==
    ASSUME IInv, MoveOne
    PROVE  IInv'
<1>1. PICK far \in BOOLEAN :
        g' = Dragged([g EXCEPT !.still = @ /\ ~far, !.spread = FALSE])
  BY DEF MoveOne
<1>2. /\ g' \in GestureRec /\ g'.touches = 1 /\ g'.held = g.held
      /\ g'.crossed = g.crossed /\ (g'.armed => g.armed) /\ g.held \in BOOLEAN
  <2> DEFINE gg == [g EXCEPT !.still = @ /\ ~far, !.spread = FALSE]
  <2>1. /\ gg \in GestureRec /\ gg.touches = 1 /\ gg.held = g.held
        /\ gg.crossed = g.crossed /\ gg.armed = g.armed
        /\ g.held \in BOOLEAN
    BY PhoneFacts DEF MoveOne, GestureRec
  <2>2. g' = gg \/ g' = [gg EXCEPT !.dragging = TRUE, !.armed = @ /\ direct]
    BY <1>1 DEF Dragged
  <2> HIDE DEF gg
  <2>3. CASE g' = gg
    BY <2>1, <2>3
  <2>4. CASE g' = [gg EXCEPT !.dragging = TRUE, !.armed = @ /\ direct]
    BY <2>1, <2>4, PhoneFacts DEF GestureRec
  <2> QED BY <2>2, <2>3, <2>4
<1>3. PhoneTypes' /\ TouchSound'
  BY <1>2, PhoneFacts DEF MoveOne, PhoneTypes, TouchSound
<1>4. UNCHANGED <<open, mac, faults, active>>
  BY DEF MoveOne
<1>5. CASE mode = "scroll"
  <2>1. Send(<<Scroll>>) /\ ~g.held
    BY <1>5, PhoneFacts DEF MoveOne
  <2> QED BY <1>2, <1>3, <1>4, <2>1, Names, OnePlain
<1>6. CASE mode # "scroll"
  <2>1. Send(<<>>)
    BY <1>6 DEF MoveOne
  <2>2. wire' = wire /\ lost' = lost
    BY <2>1, Sends DEF IInv
  <2> QED BY <1>2, <1>3, <1>4, <2>2, NoneSent
<1> QED BY <1>5, <1>6

\* The touch ends: whatever it holds is let go of.
LEMMA FinishStep ==
    ASSUME IInv, Finish
    PROVE  IInv'
<1>1. g' = Rest /\ g'.held = FALSE /\ g'.crossed = FALSE /\ g'.armed = FALSE
      /\ g' \in GestureRec /\ g.held \in BOOLEAN
  BY TimingAssumption, PhoneFacts DEF Finish, Ended, Rest, GestureRec
<1>2. pending' \in (0..DoubleTap) \cup {Off}
  BY TimingAssumption, PhoneFacts DEF Finish
<1>3. PhoneTypes' /\ TouchSound'
  BY <1>1, <1>2, PhoneFacts DEF Finish, PhoneTypes, TouchSound
<1>4. UNCHANGED <<open, mac, faults, active>>
  BY DEF Finish
<1>5. CASE g.held
  <2>1. (CASE g.held -> <<Up>>
              [] Tapped /\ pending # Off -> <<Double>>
              [] OTHER -> <<>>) = <<Up>>
    BY <1>5 DEF Tapped
  <2>2. Send(<<Up>>)
    BY <2>1, Zenon DEF Finish
  <2> QED BY <1>1, <1>3, <1>4, <1>5, <2>2, Names, OnePlain
<1>6. CASE ~g.held /\ Tapped /\ pending # Off
  <2>1. Send(<<Double>>)
    BY <1>6 DEF Finish
  <2> QED BY <1>1, <1>3, <1>4, <1>6, <2>1, Names, OnePlain
<1>7. CASE ~g.held /\ ~(Tapped /\ pending # Off)
  <2>1. Send(<<>>)
    BY <1>7 DEF Finish
  <2>2. wire' = wire /\ lost' = lost
    BY <2>1, Sends DEF IInv
  <2> QED BY <1>1, <1>3, <1>4, <1>7, <2>2, NoneSent
<1> QED BY <1>5, <1>6, <1>7

\* A pending click fires, in the middle of a later gesture or not.
LEMMA ClickStep ==
    ASSUME IInv, ClickFires
    PROVE  IInv'
<1>1. /\ g' = [g EXCEPT !.crossed = g.crossed \/ g.held]
      /\ Send(<<Click>>) /\ UNCHANGED <<open, mac, faults, active>>
      /\ mounted' = mounted /\ mode' = mode /\ direct' = direct
      /\ zoomed' = zoomed /\ pending' = Off
  BY DEF ClickFires
<1>2. g \in GestureRec /\ g.held \in BOOLEAN /\ g.crossed \in BOOLEAN
  BY PhoneFacts, Fields
<1>3. /\ g' \in GestureRec /\ g'.touches = g.touches /\ g'.held = g.held
      /\ g'.armed = g.armed /\ (g'.crossed <=> g.crossed \/ g.held)
  <2> DEFINE v == g.crossed \/ g.held
  <2>1. v \in BOOLEAN /\ g' = [g EXCEPT !.crossed = v]
    BY <1>1
  <2> HIDE DEF v
  <2>2. /\ g' \in GestureRec /\ g'.touches = g.touches /\ g'.held = g.held
        /\ g'.armed = g.armed /\ g'.crossed = v
    BY <1>2, <2>1 DEF GestureRec
  <2> QED BY <2>2 DEF v
<1>4. g.touches = 0 => g' = Rest
  <2> SUFFICES ASSUME g.touches = 0 PROVE g' = Rest
    OBVIOUS
  <2>1. g = Rest
    BY PhoneFacts
  <2>2. g.crossed \/ g.held <=> FALSE
    BY <2>1 DEF Rest
  <2>3. g' = [Rest EXCEPT !.crossed = FALSE]
    BY <1>1, <2>1, <2>2
  <2> QED BY <2>3 DEF Rest
<1>5. PhoneTypes' /\ TouchSound'
  BY <1>1, <1>3, <1>4, PhoneFacts DEF PhoneTypes, TouchSound
<1>6. Click \notin {Scroll, Down}
  BY Names
<1> QED BY <1>1, <1>2, <1>3, <1>5, <1>6, OnePlain

\* Time passes.
LEMMA TickStep ==
    ASSUME IInv, Tick
    PROVE  IInv'
<1>1. /\ g' \in GestureRec /\ g'.touches = g.touches /\ g'.held = g.held
      /\ g'.armed = g.armed /\ g'.crossed = g.crossed
      /\ g.touches = 0 => g' = g
  <2>1. CASE g.touches > 0
    <3> DEFINE v == Older(g.age, LongPress)
    <3>1. v \in 0..LongPress /\ g' = [g EXCEPT !.age = v] /\ g \in GestureRec
      BY <2>1, TimingAssumption, PhoneFacts, Fields DEF Tick, Older
    <3> HIDE DEF v
    <3>2. /\ g' \in GestureRec /\ g'.touches = g.touches /\ g'.held = g.held
          /\ g'.armed = g.armed /\ g'.crossed = g.crossed
      BY <3>1 DEF GestureRec
    <3> QED BY <2>1, <3>2
  <2>2. CASE ~(g.touches > 0)
    BY <2>2, PhoneFacts DEF Tick
  <2> QED BY <2>1, <2>2
<1>2. pending' \in (0..DoubleTap) \cup {Off}
  BY TimingAssumption, PhoneFacts DEF Tick, Older
<1>3. PhoneTypes' /\ TouchSound'
  BY <1>1, <1>2, PhoneFacts DEF Tick, PhoneTypes, TouchSound
<1>4. UNCHANGED <<wire, lost, open, mac, faults, active>>
  BY DEF Tick
<1> QED BY <1>1, <1>3, <1>4, NoneSent

\* The mode is switched between touches only.
LEMMA ModeStep ==
    ASSUME IInv, SetMode
    PROVE  IInv'
<1>1. g = Rest /\ g' = g /\ mode' \in Modes
  BY PhoneFacts DEF SetMode, Idle
<1>2. PhoneTypes' /\ TouchSound'
  BY <1>1, PhoneFacts DEF SetMode, PhoneTypes, TouchSound, Rest
<1>3. UNCHANGED <<wire, lost, open, mac, faults, active>>
  BY DEF SetMode
<1> QED BY <1>1, <1>2, <1>3, NoneSent

\* A modifier is pressed or let go of in the toolbar.
LEMMA ModifierStep ==
    ASSUME IInv, NEW m \in Modifiers, ToggleModifier(m)
    PROVE  IInv'
<1> DEFINE on == m \notin active
           x  == Mod(m, on)
<1>1. /\ g' = g /\ g = Rest /\ active \in SUBSET Modifiers
      /\ active' = IF m \in active THEN active \ {m} ELSE active \cup {m}
      /\ Send(<<x>>) /\ UNCHANGED <<open, mac, faults>> /\ on \in BOOLEAN
  BY PhoneFacts DEF ToggleModifier, Idle
<1>2. active' \in SUBSET Modifiers
  BY <1>1
<1>3. PhoneTypes' /\ TouchSound'
  BY <1>1, <1>2, PhoneFacts DEF ToggleModifier, PhoneTypes, TouchSound
<1>4. \A k \in Modifiers :
        k \in active' <=> (x = Mod(k, TRUE) \/ (x # Mod(k, FALSE) /\ k \in active))
  <2>1. ASSUME NEW k \in Modifiers
        PROVE  /\ x = Mod(k, TRUE)  <=> m = k /\ on
               /\ x = Mod(k, FALSE) <=> m = k /\ ~on
    <3>1. /\ x = Mod(k, TRUE)  <=> m = k /\ on = TRUE
          /\ x = Mod(k, FALSE) <=> m = k /\ on = FALSE
      <4> HIDE DEF on
      <4>1. TRUE \in BOOLEAN /\ FALSE \in BOOLEAN
        OBVIOUS
      <4>2. \A k2 \in Modifiers, on2 \in BOOLEAN :
              Mod(m, on) = Mod(k2, on2) <=> m = k2 /\ on = on2
        BY <1>1, Names, Zenon
      <4> QED BY <4>1, <4>2, Zenon
    <3>2. (on = TRUE <=> on) /\ (on = FALSE <=> ~on)
      OBVIOUS
    <3> HIDE DEF on, x
    <3> QED BY <3>1, <3>2
  <2> QED BY <1>1, <2>1
<1>5. /\ x \in Message /\ x \notin {Down, Up, Click, Double, Right, Scroll}
      /\ x.kind # "keyboard.key"
  <2> HIDE DEF on
  <2> QED BY <1>1, Names, Zenon
<1>6. ~g.held /\ ~g'.held
  BY <1>1 DEF Rest
<1> HIDE DEF x
<1> QED BY <1>1, <1>3, <1>4, <1>5, <1>6, OneSent

\* A key, or one of the click buttons.
LEMMA TypeStep ==
    ASSUME IInv, Type
    PROVE  IInv'
<1>1. PICK m \in {Key(active), Click, Right} : Send(<<m>>)
  BY DEF Type
<1>2. /\ g' = g /\ g = Rest /\ ~g.held /\ active' = active /\ active \in SUBSET Modifiers
      /\ UNCHANGED <<open, mac, faults>> /\ PhoneTypes' /\ TouchSound'
  BY PhoneFacts DEF Type, phone, Idle, Rest, PhoneTypes, TouchSound
<1>3. CASE m = Key(active)
  <2> DEFINE x == Key(active)
  <2>1. x \in Message /\ x.shown = active /\ x \notin {Down, Up, Click, Double, Right, Scroll}
    BY <1>2, Names, Zenon
  <2>2. \A k \in Modifiers : x # Mod(k, TRUE) /\ x # Mod(k, FALSE)
    <3>1. TRUE \in BOOLEAN /\ FALSE \in BOOLEAN
      OBVIOUS
    <3> QED BY <1>2, <3>1, Names, Zenon
  <2>3. Send(<<x>>)
    BY <1>1, <1>3
  <2> HIDE DEF x
  <2>4. \A k \in Modifiers :
          k \in active' <=> (x = Mod(k, TRUE) \/ (x # Mod(k, FALSE) /\ k \in active))
    BY <1>2, <2>2
  <2> QED BY <1>2, <2>1, <2>3, <2>4, OneSent
<1>4. CASE m \in {Click, Right}
  <2>1. m \in {Down, Up, Click, Double, Right, Scroll} /\ m \notin {Down, Scroll}
    BY <1>4, Names
  <2> QED BY <1>1, <1>2, <2>1, OnePlain
<1> QED BY <1>3, <1>4

\* The Mac handles a message.
LEMMA HandleStep ==
    ASSUME IInv, Handle
    PROVE  IInv'
<1>1. PICK now \in {cached, trusted} :
         /\ cached' = now
         /\ button' = IF now THEN ButtonAfter(Head(wire), button) ELSE button
         /\ flags'  = IF now THEN FlagsAfter(Head(wire), flags) ELSE flags
         /\ lost'   = IF now THEN lost ELSE lost \cup Matters(Head(wire))
  BY DEF Handle
<1>2. /\ wire # <<>> /\ wire' = Tail(wire) /\ UNCHANGED <<phone, open, trusted, faults>>
  BY DEF Handle
<1>3. /\ wire \in Seq(Message) /\ Len(wire) <= MaxWire /\ button \in BOOLEAN
      /\ flags \in SUBSET Modifiers /\ cached \in BOOLEAN /\ trusted \in BOOLEAN
      /\ lost \subseteq {"button", "modifiers"}
      /\ PhoneTypes /\ TouchSound /\ (~open => wire = <<>>)
      /\ open \in BOOLEAN /\ faults \in 0..MaxFaults
  BY Split DEF IInv
<1>4. /\ Tail(wire) \in Seq(Message) /\ Len(wire) = Len(Tail(wire)) + 1
      /\ Len(Tail(wire)) \in Nat /\ Head(wire) \in Message
  <2>1. Tail(wire) \in Seq(Message)
    BY <1>2, <1>3, Ends
  <2> QED BY <1>2, <1>3, <2>1, Ends
<1>5. /\ \/ button' = ButtonAfter(Head(wire), button) /\ lost' = lost
         \/ button' = button /\ lost' = lost \cup Matters(Head(wire))
      /\ \/ flags' = FlagsAfter(Head(wire), flags) /\ lost' = lost
         \/ flags' = flags /\ lost' = lost \cup Matters(Head(wire))
  BY <1>1
<1>6. g' = g /\ active' = active /\ g.held \in BOOLEAN /\ g.crossed \in BOOLEAN
  BY <1>2, PhoneFacts, Fields DEF phone
<1>7. ButtonInv(wire', button', g'.held, g'.crossed, lost')
  <2> DEFINE h  == g.held
             c  == g.crossed
             b2 == button'
             l2 == lost'
  <2>1. /\ h \in BOOLEAN /\ c \in BOOLEAN /\ ButtonInv(wire, button, h, c, lost)
        /\ \/ b2 = ButtonAfter(Head(wire), button) /\ l2 = lost
           \/ b2 = button /\ l2 = lost \cup Matters(Head(wire))
    BY <1>5, <1>6 DEF IInv
  <2> HIDE DEF h, c, b2, l2
  <2>2. ButtonInv(Tail(wire), b2, h, c, l2)
    BY <1>2, <1>3, <2>1, ButtonHandled
  <2> QED BY <1>2, <1>6, <2>2 DEF h, c, b2, l2
<1>8. KeysInv(wire', flags', active', lost') /\ flags' \in SUBSET Modifiers
  <2> DEFINE f2 == flags'
             l2 == lost'
  <2>1. /\ KeysInv(wire, flags, active, lost)
        /\ \/ f2 = FlagsAfter(Head(wire), flags) /\ l2 = lost
           \/ f2 = flags /\ l2 = lost \cup Matters(Head(wire))
    BY <1>5 DEF IInv
  <2> HIDE DEF f2, l2
  <2>2. KeysInv(Tail(wire), f2, active, l2) /\ f2 \in SUBSET Modifiers
    BY <1>2, <1>3, <2>1, KeysHandled
  <2> QED BY <1>2, <1>6, <2>2 DEF f2, l2
<1>9. button' \in BOOLEAN /\ lost' \subseteq {"button", "modifiers"}
  <2>1. /\ ButtonAfter(Head(wire), button)
             = (Head(wire) = Down \/ (Head(wire) \notin {Up, Click, Double} /\ button))
        /\ Matters(Head(wire)) \subseteq {"button", "modifiers"}
    BY <1>3, <1>4, Effects, Zenon
  <2> QED BY <1>3, <1>5, <2>1
<1>10. TypeOK' /\ GestureSound'
  <2>1. PhoneTypes' /\ TouchSound'
    BY <1>2, <1>3 DEF phone, PhoneTypes, TouchSound
  <2>2. cached' \in BOOLEAN /\ trusted' \in BOOLEAN /\ Len(wire') <= MaxWire
    <3>1. MaxWire \in Nat
      BY TimingAssumption
    <3> QED BY <1>1, <1>2, <1>3, <1>4, <3>1
  <2>3. ~open' => wire' = <<>>
    BY <1>2, <1>3
  <2>4. wire' \in Seq(Message) /\ open' \in BOOLEAN /\ faults' \in 0..MaxFaults
    BY <1>2, <1>3, <1>4
  <2> QED BY <1>8, <1>9, <2>1, <2>2, <2>3, <2>4
          DEF TypeOK, PhoneTypes, GestureSound, TouchSound
<1> QED BY <1>7, <1>8, <1>10 DEF IInv

\* What is in flight is gone, because the channel closed or was replaced.
LEMMA GoneStep ==
    ASSUME IInv, wire' = <<>>, lost' = lost \cup LostOf(wire),
           g' = g, active' = active, UNCHANGED mac,
           open' \in BOOLEAN, faults' \in 0..MaxFaults, PhoneTypes', TouchSound'
    PROVE  IInv'
<1>1. /\ wire \in Seq(Message) /\ button \in BOOLEAN /\ flags \in SUBSET Modifiers
      /\ g.held \in BOOLEAN /\ g.crossed \in BOOLEAN
      /\ lost \subseteq {"button", "modifiers"} /\ cached \in BOOLEAN /\ trusted \in BOOLEAN
  BY Split, PhoneFacts, Fields DEF IInv
<1>2. ButtonInv(<<>>, button, g.held, g.crossed, lost \cup LostOf(wire))
  <2> DEFINE h == g.held
             c == g.crossed
  <2>1. h \in BOOLEAN /\ c \in BOOLEAN /\ ButtonInv(wire, button, h, c, lost)
    BY <1>1 DEF IInv
  <2> HIDE DEF h, c
  <2>2. ButtonInv(<<>>, button, h, c, lost \cup LostOf(wire))
    BY <1>1, <2>1, ButtonGone
  <2> QED BY <2>2 DEF h, c
<1>3. KeysInv(<<>>, flags, active, lost \cup LostOf(wire))
  <2>1. KeysInv(wire, flags, active, lost)
    BY DEF IInv
  <2> QED BY <1>1, <2>1, KeysGone
<1>4. LostOf(wire) \subseteq {"button", "modifiers"}
  <2>1. \A x \in Message : Matters(x) \subseteq {"button", "modifiers"}
    BY Effects, Zenon
  <2>2. \A x \in ToSet(wire) : x \in Message
    BY <1>1 DEF ToSet
  <2> QED BY <2>1, <2>2 DEF LostOf
<1>5. button' = button /\ flags' = flags /\ cached' = cached /\ trusted' = trusted
  BY DEF mac
<1>6. TypeOK' /\ GestureSound'
  <2>1. wire' \in Seq(Message) /\ Len(wire') <= MaxWire
    BY TimingAssumption
  <2> QED BY <1>1, <1>4, <1>5, <2>1
          DEF TypeOK, PhoneTypes, GestureSound, TouchSound
<1> QED BY <1>2, <1>3, <1>5, <1>6 DEF IInv

\* The channel closes; or the screen is entered, and the old session ends.
LEMMA CloseStep ==
    ASSUME IInv, ChannelCloses \/ Enter
    PROVE  IInv'
<1>1. faults \in 0..MaxFaults /\ MaxFaults \in Nat
  BY TimingAssumption DEF IInv, TypeOK
<1>2. /\ wire' = <<>> /\ lost' = lost \cup LostOf(wire) /\ g' = g /\ active' = active
      /\ UNCHANGED mac /\ open' \in BOOLEAN /\ faults' \in 0..MaxFaults
  <2>1. CASE ChannelCloses
    <3>1. faults' \in 0..MaxFaults
      BY <1>1, <2>1 DEF ChannelCloses, Fault
    <3>2. open' = FALSE /\ wire' = <<>> /\ lost' = lost \cup LostOf(wire)
          /\ UNCHANGED <<phone, mac>>
      BY <2>1, Zenon DEF ChannelCloses
    <3> QED BY <3>1, <3>2 DEF phone
  <2>2. CASE Enter
    <3>1. faults' = faults /\ open' = FALSE
      BY <2>2 DEF Enter
    <3> QED BY <1>1, <2>2, <3>1 DEF Enter
  <2> QED BY <2>1, <2>2
<1>3. PhoneTypes' /\ TouchSound'
  BY PhoneFacts DEF ChannelCloses, Enter, phone, PhoneTypes, TouchSound
<1> QED BY <1>2, <1>3, GoneStep

\* A new session's injector has no flags, and the button is as it was left.
LEMMA OpenStep ==
    ASSUME IInv, ChannelOpens
    PROVE  IInv'
<1>1. /\ wire = <<>> /\ wire' = wire /\ g' = g /\ active' = active /\ button' = button
      /\ flags' = {} /\ open' = TRUE
      /\ PhoneTypes' /\ TouchSound'
  BY PhoneFacts DEF IInv, GestureSound, ChannelOpens, phone, PhoneTypes, TouchSound
<1>2. button \in BOOLEAN /\ g.held \in BOOLEAN /\ active \in SUBSET Modifiers
  BY Split, PhoneFacts, Fields DEF IInv
<1>3. /\ "button" \notin lost' => (button <=> g.held)
      /\ "modifiers" \notin lost' => active = {}
      /\ lost' \subseteq {"button", "modifiers"}
  BY <1>2 DEF ChannelOpens
<1>4. ButtonInv(wire', button', g'.held, g'.crossed, lost')
  <2>1. Lifted(<<>>, 0, button) <=> ~button
    BY DEF Lifted, SetBy
  <2>2. Pressing(<<>>, 0, button) <=> button
    BY DEF Pressing, SetBy
  <2> QED BY <1>1, <1>2, <1>3, <2>1, <2>2 DEF ButtonInv
<1>5. KeysInv(wire', flags', active', lost')
  <2>1. FlagsBy(<<>>, 0, {}) = {}
    BY FlagsNext
  <2>2. KeysInv(<<>>, {}, {}, lost')
    BY <2>1 DEF KeysInv
  <2>3. "modifiers" \notin lost' => KeysInv(wire', flags', active', lost')
    BY <1>1, <1>3, <2>2
  <2> QED BY <2>3 DEF KeysInv
<1>6. TypeOK' /\ GestureSound'
  BY <1>1, <1>3 DEF IInv, ChannelOpens, TypeOK, PhoneTypes, GestureSound, TouchSound
<1> QED BY <1>4, <1>5, <1>6 DEF IInv

\* The permission changes: nothing that was said of the wire is about it.
LEMMA RetrustStep ==
    ASSUME IInv, Retrust
    PROVE  IInv'
<1>1. UNCHANGED <<phone, open, wire, button, flags, cached, lost>>
  BY DEF Retrust
<1>2. TypeOK' /\ GestureSound'
  <2>1. faults' \in 0..MaxFaults /\ trusted' \in BOOLEAN
    BY TimingAssumption DEF IInv, TypeOK, Retrust, Fault
  <2> QED BY <1>1, <2>1 DEF IInv, phone, TypeOK, GestureSound
<1>3. ButtonInv(wire, button, g.held, g.crossed, lost)'
  BY <1>1 DEF IInv, phone, ButtonInv, Lifted, Pressing, SetBy
<1>4. KeysInv(wire, flags, active, lost)'
  BY <1>1 DEF IInv, phone, KeysInv, FlagsBy, SetBy
<1> QED BY <1>2, <1>3, <1>4 DEF IInv

\* The screen is left: what it held is lost, and everything else as before.
LEMMA LeaveStep ==
    ASSUME IInv, Leave
    PROVE  IInv'
<1>1. /\ g' = Rest /\ active' = {} /\ pending' = Off /\ mode' = "move"
      /\ UNCHANGED <<direct, open, wire, mac>> /\ mounted' = FALSE /\ zoomed' = FALSE
      /\ lost' = lost \cup (IF g.held THEN {"button"} ELSE {})
                      \cup (IF active # {} THEN {"modifiers"} ELSE {})
  BY DEF Leave
<1>2. Rest \in GestureRec /\ Rest.held = FALSE /\ Rest.armed = FALSE
  BY TimingAssumption DEF Rest, GestureRec
<1>3. PhoneTypes' /\ TouchSound'
  BY <1>1, <1>2, PhoneFacts DEF PhoneTypes, TouchSound, Modes
<1>4. faults' \in 0..MaxFaults
  BY TimingAssumption DEF IInv, TypeOK, Leave, Fault
<1>5. TypeOK' /\ GestureSound'
  BY <1>1, <1>3, <1>4 DEF IInv, mac, TypeOK, PhoneTypes, GestureSound, TouchSound
<1>6. ButtonInv(wire', button', g'.held, g'.crossed, lost')
  <2>1. "button" \notin lost' => "button" \notin lost /\ ~g.held
    BY <1>1
  <2>2. wire' = wire /\ button' = button /\ ~g'.held
    BY <1>1, <1>2 DEF mac
  <2> QED BY <2>1, <2>2 DEF IInv, ButtonInv
<1>7. KeysInv(wire', flags', active', lost')
  <2>1. "modifiers" \notin lost' => "modifiers" \notin lost /\ active = {}
    BY <1>1
  <2>2. wire' = wire /\ flags' = flags /\ active' = {}
    BY <1>1 DEF mac
  <2> QED BY <2>1, <2>2 DEF IInv, KeysInv
<1> QED BY <1>5, <1>6, <1>7 DEF IInv

\* A stuttering step.
LEMMA StutterStep ==
    ASSUME IInv, UNCHANGED vars
    PROVE  IInv'
<1>1. UNCHANGED <<wire, lost, open, mac, faults, active>> /\ UNCHANGED phone
  BY DEF vars, phone
<1>2. PhoneTypes' /\ TouchSound'
  BY <1>1, PhoneFacts DEF phone, PhoneTypes, TouchSound
<1> QED BY <1>1, <1>2, NoneSent DEF phone

-----------------------------------------------------------------------------
(***************************************************************************)
(* The theorems.                                                           *)
(***************************************************************************)
\* The invariant holds of every state: it holds at first, and every action
\* of the phone, the channel and the Mac keeps it.
THEOREM Invariance == Spec => []IInv
<1>1. Init => IInv
  <2> SUFFICES ASSUME Init PROVE IInv
    OBVIOUS
  <2>1. /\ mounted = FALSE /\ mode = "move" /\ direct \in BOOLEAN
        /\ g = Rest /\ pending = Off /\ zoomed = FALSE /\ active = {}
        /\ open = FALSE /\ wire = <<>> /\ button = FALSE /\ flags = {}
        /\ trusted \in BOOLEAN /\ cached \in BOOLEAN /\ lost = {} /\ faults = 0
    BY DEF Init
  <2> HIDE DEF Init
  <2>2. Rest \in GestureRec /\ Rest.held = FALSE /\ Rest.armed = FALSE
    BY TimingAssumption DEF Rest, GestureRec
  <2>3. TypeOK /\ GestureSound
    <3>1. PhoneTypes /\ TouchSound
      BY <2>1, <2>2 DEF PhoneTypes, TouchSound, Modes
    <3>2. wire \in Seq(Message) /\ Len(wire) <= MaxWire /\ faults \in 0..MaxFaults
      BY <2>1, TimingAssumption
    <3>3. /\ open \in BOOLEAN /\ button \in BOOLEAN /\ flags \in SUBSET Modifiers
          /\ lost \subseteq {"button", "modifiers"}
      BY <2>1
    <3> QED BY <2>1, <3>1, <3>2, <3>3, Split
  <2>4. ButtonInv(wire, button, g.held, g.crossed, lost)
    <3>1. Lifted(<<>>, 0, FALSE)
      BY DEF Lifted, SetBy
    <3>2. g.held = FALSE /\ wire = <<>> /\ button = FALSE
      BY <2>1, <2>2
    <3>3. ~g.held => Lifted(wire, Len(wire), button)
      BY <3>1, <3>2
    <3> QED BY <3>2, <3>3 DEF ButtonInv
  <2>5. KeysInv(wire, flags, active, lost)
    <3>1. FlagsBy(<<>>, 0, {}) = {}
      BY FlagsNext
    <3> QED BY <2>1, <3>1 DEF KeysInv
  <2> QED BY <2>3, <2>4, <2>5 DEF IInv
<1>2. IInv /\ [Next]_vars => IInv'
  <2> SUFFICES ASSUME IInv, [Next]_vars PROVE IInv'
    OBVIOUS
  <2>1. ASSUME NEW n \in 1..2, Grant(n) PROVE IInv'
    BY <2>1, GrantStep
  <2>2. CASE LongPressFires
    BY <2>2, LongPressStep
  <2>3. CASE FingerChange \/ MoveAnchor
    BY <2>3, FingerStep
  <2>4. CASE MoveTwo
    BY <2>4, MoveTwoStep
  <2>5. CASE MoveOne
    BY <2>5, MoveOneStep
  <2>6. CASE Finish
    BY <2>6, FinishStep
  <2>7. CASE ClickFires
    BY <2>7, ClickStep
  <2>8. CASE Tick
    BY <2>8, TickStep
  <2>9. CASE SetMode
    BY <2>9, ModeStep
  <2>10. CASE Type
    BY <2>10, TypeStep
  <2>11. CASE Handle
    BY <2>11, HandleStep
  <2>12. ASSUME NEW m \in Modifiers, ToggleModifier(m) PROVE IInv'
    BY <2>12, ModifierStep
  <2>13. CASE ChannelCloses \/ Enter
    BY <2>13, CloseStep
  <2>14. CASE ChannelOpens
    BY <2>14, OpenStep
  <2>15. CASE Retrust
    BY <2>15, RetrustStep
  <2>16. CASE Leave
    BY <2>16, LeaveStep
  <2>17. CASE UNCHANGED vars
    BY <2>17, StutterStep
  <2> QED BY <2>1, <2>2, <2>3, <2>4, <2>5, <2>6, <2>7, <2>8, <2>9, <2>10, <2>11,
             <2>12, <2>13, <2>14, <2>15, <2>16, <2>17 DEF Next, Touch
<1> QED BY <1>1, <1>2, PTL DEF Spec

\* Every variable keeps to its type; the wire, to its bound.
THEOREM TypeCorrect == Spec => []TypeOK
<1>1. IInv => TypeOK
  BY DEF IInv
<1> QED BY <1>1, Invariance, PTL

\* Once the Mac has handled what is on its way, its button is down exactly
\* while the finger's gesture holds it, whatever the order of timers, second
\* fingers, taps and mode changes - unless a message of the button was lost or
\* a pending click crossed the gesture.
THEOREM ButtonFollowsFinger == Spec => []ButtonFollows
<1>1. IInv => ButtonFollows
  <2> SUFFICES ASSUME IInv, "button" \notin lost, ~g.crossed
               PROVE  ButtonThrough(Len(wire)) = g.held
    BY DEF ButtonFollows
  <2>1. /\ wire \in Seq(Message) /\ button \in BOOLEAN /\ g.held \in BOOLEAN
        /\ Len(wire) \in Nat
    BY Split, PhoneFacts, Fields, Ends DEF IInv
  <2>2. /\ ~g.held => Lifted(wire, Len(wire), button)
        /\ g.held => Pressing(wire, Len(wire), button)
    BY DEF IInv, ButtonInv
  <2>3. ButtonThrough(Len(wire)) <=> g.held
    <3>1. Lifted(wire, Len(wire), button) => ~Pressing(wire, Len(wire), button)
      BY <2>1, LiftedIsUp
    <3>2. ButtonThrough(Len(wire)) <=> Pressing(wire, Len(wire), button)
      BY ThroughIs
    <3> QED BY <2>2, <3>1, <3>2
  <2>4. ButtonThrough(Len(wire)) \in BOOLEAN
    BY DEF ButtonThrough, SetThrough
  <2> QED BY <2>1, <2>3, <2>4
<1> QED BY <1>1, Invariance, PTL

\* The Mac never scrolls with the button down: where two fingers scroll, the
\* up that goes before has reached it, also where a click crossed the press.
THEOREM NeverScrollsHeld == Spec => []NoScrollWhileHeld
<1>1. IInv => NoScrollWhileHeld
  <2> SUFFICES ASSUME IInv, "button" \notin lost,
                      NEW i \in 1..Len(wire), wire[i] = Scroll
               PROVE  ~ButtonThrough(i - 1)
    BY DEF NoScrollWhileHeld
  <2>1. button \in BOOLEAN /\ i - 1 \in Nat
    BY Split, Ends DEF IInv
  <2>2. Lifted(wire, i - 1, button)
    BY DEF IInv, ButtonInv
  <2>3. ~Pressing(wire, i - 1, button)
    BY <2>1, <2>2, LiftedIsUp
  <2> QED BY <2>3, ThroughIs
<1> QED BY <1>1, Invariance, PTL

\* A typed key meets on the Mac the modifiers that the toolbar showed when it
\* was typed, although the two sides count them separately.
THEOREM KeysCarryWhatIsShown == Spec => []KeysAsShown
<1>1. IInv => KeysAsShown
  BY ThroughIs DEF IInv, KeysInv, KeysAsShown
<1> QED BY <1>1, Invariance, PTL
=============================================================================
