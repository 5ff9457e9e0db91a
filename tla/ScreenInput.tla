---------------------------- MODULE ScreenInput ----------------------------
(***************************************************************************)
(* Remote control: the gesture recogniser and the keyboard toolbar of      *)
(* Screen Mode (apps/ios/src/screens/Screen/ScreenScreen.tsx), the ordered *)
(* data channel, and the Mac's InputInjector, which turns each message     *)
(* into CGEvents.                                                          *)
(*                                                                         *)
(* Data kept: the left button and the modifier flags, which a message can  *)
(* leave set for the ones after it.  Positions, scroll amounts and typed   *)
(* text are not, so mouse.move is not on the wire at all.  Time is counted *)
(* in units in which DOUBLE_TAP_WINDOW_MS < TAP_MAX_DURATION_MS <          *)
(* LONG_PRESS_MS keep their order.                                         *)
(***************************************************************************)
EXTENDS Naturals, Sequences, SequencesExt

CONSTANTS
    Modifiers,   \* the modifier keys of the toolbar
    DoubleTap,   \* DOUBLE_TAP_WINDOW_MS
    TapMax,      \* TAP_MAX_DURATION_MS
    LongPress,   \* LONG_PRESS_MS
    MaxWire,     \* bound: messages in flight
    MaxFaults    \* bound: sessions lost, permissions changed, screens left

ASSUME TimingAssumption ==
    /\ {DoubleTap, TapMax, LongPress, MaxWire, MaxFaults} \subseteq Nat
    /\ DoubleTap < TapMax /\ TapMax < LongPress

VARIABLES
    mounted,   \* ScreenScreen is shown
    mode,      \* controlMode
    direct,    \* ~showTrackpad: the cursor jumps to the finger
    g,         \* gestureRef: see GestureRec
    pending,   \* pendingClickTimer and its age: Off, or 0..DoubleTap
    zoomed,    \* zoomScale > ZOOM_ACTIVE_THRESHOLD
    active,    \* activeModifiers: shown selected in the toolbar
    open,      \* the data channel
    wire,      \* messages in flight, oldest first
    button,    \* the Mac's left button is down
    flags,     \* InputInjector.modifierFlags of the session's injector
    trusted,   \* the Mac's Accessibility permission
    cached,    \* InputInjector.cachedAuthorization, at most a second old
    lost,      \* history: what a lost message has left apart
    faults

phone == <<mounted, mode, direct, g, pending, zoomed, active>>
mac   == <<button, flags, trusted, cached>>
vars  == <<phone, open, wire, mac, lost, faults>>

Off   == LongPress + 1
Modes == {"move", "drag", "scroll"}

(***************************************************************************)
(* touches: fingers down; age: since onPanResponderGrant; still: movement  *)
(* <= TAP_MAX_MOVEMENT_PX; held: isLongPressActive; dragging: isDragging;  *)
(* single, spread: singleTouch, twoTouchAvg and twoTouchDistance are set;  *)
(* armed: longPressTimer.  crossed is a history: see ClickFires.           *)
(***************************************************************************)
GestureRec == [touches : 0..2, age : 0..LongPress, still : BOOLEAN, held : BOOLEAN,
               dragging : BOOLEAN, single : BOOLEAN, spread : BOOLEAN,
               armed : BOOLEAN, crossed : BOOLEAN]
Rest == [touches |-> 0, age |-> 0, still |-> TRUE, held |-> FALSE, dragging |-> FALSE,
         single |-> FALSE, spread |-> FALSE, armed |-> FALSE, crossed |-> FALSE]

Plain(kind) == [kind |-> kind]
Down   == Plain("mouse.down")
Up     == Plain("mouse.up")
Click  == Plain("mouse.click")
Double == Plain("mouse.doubleClick")
Right  == Plain("mouse.rightClick")
Scroll == Plain("mouse.scroll")
Mod(m, on) == [kind |-> "keyboard.modifier", modifier |-> m, down |-> on]
\* shown is a history: what the toolbar showed when the key was typed.
Key(shown) == [kind |-> "keyboard.key", shown |-> shown]
Message == {Down, Up, Click, Double, Right, Scroll}
             \cup {Mod(m, on) : m \in Modifiers, on \in BOOLEAN}
             \cup {Key(s) : s \in SUBSET Modifiers}

Init ==
    /\ mounted = FALSE /\ mode = "move" /\ direct \in BOOLEAN
    /\ g = Rest /\ pending = Off /\ zoomed = FALSE /\ active = {}
    /\ open = FALSE /\ wire = <<>>
    /\ button = FALSE /\ flags = {}
    /\ trusted \in BOOLEAN /\ cached = trusted
    /\ lost = {} /\ faults = 0

-----------------------------------------------------------------------------
(***************************************************************************)
(* InputInjector.handle, one message.  A click posts a down and an up.     *)
(***************************************************************************)
ButtonAfter(m, b) == CASE m.kind = "mouse.down" -> TRUE
                       [] m \in {Up, Click, Double} -> FALSE
                       [] OTHER -> b

\* Mutant: a modifier that is turned off stays on the Mac.
FlagsStick(m, f) == IF m.kind # "keyboard.modifier" THEN f ELSE f \cup {m.modifier}

FlagsAfter(m, f) == IF m.kind # "keyboard.modifier" THEN f
                    ELSE IF m.down THEN f \cup {m.modifier} ELSE f \ {m.modifier}

Matters(m) == CASE m.kind \in {"mouse.down", "mouse.up"} -> {"button"}
                [] m.kind = "keyboard.modifier" -> {"modifiers"}
                [] OTHER -> {}
LostOf(ms) == UNION {Matters(m) : m \in ToSet(ms)}

(***************************************************************************)
(* isAuthorized re-reads the permission when its value is a second old;    *)
(* an unauthorized message is dropped.                                     *)
(***************************************************************************)
Handle ==
    /\ wire # <<>>
    /\ wire' = Tail(wire)
    /\ \E now \in {cached, trusted} :
         /\ cached' = now
         /\ button' = IF now THEN ButtonAfter(Head(wire), button) ELSE button
         /\ flags'  = IF now THEN FlagsAfter(Head(wire), flags) ELSE flags
         /\ lost'   = IF now THEN lost ELSE lost \cup Matters(Head(wire))
    /\ UNCHANGED <<phone, open, trusted, faults>>

\* sendControlMessage: a closed channel throws, and the message is dropped.
Send(ms) ==
    /\ open => Len(wire) + Len(ms) <= MaxWire
    /\ wire' = IF open THEN wire \o ms ELSE wire
    /\ lost' = IF open THEN lost ELSE lost \cup LostOf(ms)

-----------------------------------------------------------------------------
(***************************************************************************)
(* The touch surface.  React Native gives a touch to one responder, so     *)
(* nothing else on the screen is pressed while fingers are on it.          *)
(***************************************************************************)
Idle == mounted /\ g.touches = 0

Pressed(mo) == mo = "drag"

\* onPanResponderGrant, with one finger or with two at once.
Grant(n) ==
    /\ Idle
    /\ g' = [Rest EXCEPT !.touches = n, !.single = (n = 1), !.spread = (n = 2),
                         !.held  = (n = 1 /\ Pressed(mode)),
                         !.armed = (n = 1 /\ mode = "move")]
    /\ Send(IF n = 1 /\ Pressed(mode) THEN <<Down>> ELSE <<>>)
    /\ UNCHANGED <<mounted, mode, direct, pending, zoomed, active, open, mac, faults>>

LongPressFires ==
    /\ g.armed /\ g.age = LongPress
    /\ pending = Off    \* timers fire in the order in which they are due
    /\ g' = [g EXCEPT !.armed = FALSE, !.held = TRUE]
    /\ Send(<<Down>>)
    /\ UNCHANGED <<mounted, mode, direct, pending, zoomed, active, open, mac, faults>>

\* A second finger is put down, or one of the two is lifted: no handler runs.
FingerChange ==
    /\ g.touches > 0
    /\ g' = [g EXCEPT !.touches = 3 - @]
    /\ UNCHANGED <<mounted, mode, direct, pending, zoomed, active, open, wire, mac,
                   lost, faults>>

-----------------------------------------------------------------------------
(***************************************************************************)
(* onPanResponderMove.                                                     *)
(***************************************************************************)
\* Mutant: a second finger does not release what the first one pressed.
ReleasesNothing == <<>>

Release2 == IF g.held THEN <<Up>> ELSE <<>>
\* Zoomed in, two fingers pan the picture; otherwise they scroll the Mac.
Travel2(z) == IF g.spread /\ ~z THEN <<Scroll>> ELSE <<>>

MoveTwo ==
    /\ g.touches = 2
    /\ \E z \in (IF g.spread THEN BOOLEAN ELSE {zoomed}) :
         /\ zoomed' = z
         /\ Send(Release2 \o Travel2(z))
    /\ g' = [g EXCEPT !.single = FALSE, !.armed = FALSE, !.held = FALSE, !.spread = TRUE]
    /\ UNCHANGED <<mounted, mode, direct, pending, active, open, mac, faults>>

\* After a second finger, the first move only records where the finger is.
MoveAnchor ==
    /\ g.touches = 1 /\ ~g.single
    /\ g' = [g EXCEPT !.single = TRUE, !.spread = FALSE]
    /\ UNCHANGED <<mounted, mode, direct, pending, zoomed, active, open, wire, mac,
                   lost, faults>>

\* far: the gesture's movement is now beyond a tap's.
Dragged(gg) ==
    IF mode # "scroll" /\ ~gg.still /\ ~gg.dragging /\ (direct \/ ~gg.held)
    THEN [gg EXCEPT !.dragging = TRUE, !.armed = @ /\ direct]
    ELSE gg

MoveOne ==
    /\ g.touches = 1 /\ g.single
    /\ \E far \in BOOLEAN :
         g' = Dragged([g EXCEPT !.still = @ /\ ~far, !.spread = FALSE])
    /\ Send(IF mode = "scroll" THEN <<Scroll>> ELSE <<>>)
    /\ UNCHANGED <<mounted, mode, direct, pending, zoomed, active, open, mac, faults>>

-----------------------------------------------------------------------------
(***************************************************************************)
(* finishGesture, on release and on termination.  A tap waits for a second *)
(* one before it is sent as a click.                                       *)
(***************************************************************************)
Quick(age) == age <= TapMax
Tapped == ~g.held /\ ~g.dragging /\ mode # "scroll" /\ Quick(g.age) /\ g.still

\* Mutant: the long-press timer outlives the touch.
EndedArmed == [Rest EXCEPT !.armed = g.armed, !.age = g.age]

Ended == Rest

Finish ==
    /\ g.touches > 0
    /\ g' = Ended
    /\ pending' = IF ~Tapped THEN pending ELSE IF pending = Off THEN 0 ELSE Off
    /\ Send(CASE g.held -> <<Up>>
              [] Tapped /\ pending # Off -> <<Double>>
              [] OTHER -> <<>>)
    /\ UNCHANGED <<mounted, mode, direct, zoomed, active, open, mac, faults>>

\* crossed: the click of an earlier tap, whose up lifts a held button.
ClickFires ==
    /\ pending = DoubleTap
    /\ pending' = Off
    /\ g' = [g EXCEPT !.crossed = @ \/ g.held]
    /\ Send(<<Click>>)
    /\ UNCHANGED <<mounted, mode, direct, zoomed, active, open, mac, faults>>

Older(age, top) == IF age < top THEN age + 1 ELSE age

\* Time passes for the touch and for the click that waits.
Tick ==
    /\ mounted
    /\ g' = IF g.touches > 0 THEN [g EXCEPT !.age = Older(@, LongPress)] ELSE g
    /\ pending' = IF pending = Off THEN Off ELSE Older(pending, DoubleTap)
    /\ UNCHANGED <<mounted, mode, direct, zoomed, active, open, wire, mac, lost, faults>>

-----------------------------------------------------------------------------
(***************************************************************************)
(* The mode switch, the toolbar and the click buttons.                     *)
(***************************************************************************)
SetMode ==
    /\ Idle
    /\ mode' \in Modes \ {mode}
    /\ UNCHANGED <<mounted, direct, g, pending, zoomed, active, open, wire, mac,
                   lost, faults>>

ToggleModifier(m) ==
    /\ Idle
    /\ active' = IF m \in active THEN active \ {m} ELSE active \cup {m}
    /\ Send(<<Mod(m, m \notin active)>>)
    /\ UNCHANGED <<mounted, mode, direct, g, pending, zoomed, open, mac, faults>>

\* sendNamedKey and keyboard.text; the L and R buttons.
Type ==
    /\ Idle
    /\ \E m \in {Key(active), Click, Right} : Send(<<m>>)
    /\ UNCHANGED <<phone, open, mac, faults>>

-----------------------------------------------------------------------------
(***************************************************************************)
(* Faults: what may happen between any two of the steps above.             *)
(***************************************************************************)
Fault == faults < MaxFaults /\ faults' = faults + 1

\* The channel closes under the screen; its messages are gone.
ChannelCloses ==
    /\ open /\ Fault
    /\ open' = FALSE /\ wire' = <<>>
    /\ lost' = lost \cup LostOf(wire)
    /\ UNCHANGED <<phone, mac>>

\* A new session has a WebRTCClient, and so an InputInjector, of its own.
ChannelOpens ==
    /\ mounted /\ ~open
    /\ open' = TRUE /\ flags' = {}
    /\ lost' = {x \in {"button", "modifiers"} :
                  IF x = "button" THEN button # g.held ELSE active # {}}
    /\ UNCHANGED <<phone, wire, button, trusted, cached, faults>>

\* The user changes the Accessibility permission in System Settings.
Retrust ==
    /\ Fault
    /\ trusted' = ~trusted
    /\ UNCHANGED <<phone, open, wire, button, flags, cached, lost>>

\* ScreenScreen unmounts: both timers are cleared, and nothing is sent.
Leave ==
    /\ mounted /\ Fault
    /\ mounted' = FALSE /\ g' = Rest /\ pending' = Off /\ active' = {}
    /\ mode' = "move" /\ zoomed' = FALSE
    /\ lost' = lost \cup (IF g.held THEN {"button"} ELSE {})
                    \cup (IF active # {} THEN {"modifiers"} ELSE {})
    /\ UNCHANGED <<direct, open, wire, mac>>

\* connectScreenSession tears the previous session down.
Enter ==
    /\ ~mounted
    /\ mounted' = TRUE /\ direct' \in BOOLEAN
    /\ open' = FALSE /\ wire' = <<>>
    /\ lost' = lost \cup LostOf(wire)
    /\ UNCHANGED <<mode, g, pending, zoomed, active, mac, faults>>

Touch == \/ \E n \in 1..2 : Grant(n)
         \/ LongPressFires \/ FingerChange \/ MoveTwo \/ MoveAnchor \/ MoveOne \/ Finish
Next == \/ Touch \/ ClickFires \/ Tick \/ SetMode \/ Type \/ Handle
        \/ \E m \in Modifiers : ToggleModifier(m)
        \/ ChannelCloses \/ ChannelOpens \/ Retrust \/ Leave \/ Enter

Spec == Init /\ [][Next]_vars

-----------------------------------------------------------------------------
TypeOK ==
    /\ mounted \in BOOLEAN /\ mode \in Modes /\ direct \in BOOLEAN
    /\ g \in GestureRec
    /\ pending \in (0..DoubleTap) \cup {Off}
    /\ zoomed \in BOOLEAN /\ active \in SUBSET Modifiers
    /\ open \in BOOLEAN /\ wire \in Seq(Message) /\ Len(wire) <= MaxWire
    /\ {button, trusted, cached} \subseteq BOOLEAN /\ flags \in SUBSET Modifiers
    /\ lost \subseteq {"button", "modifiers"}
    /\ faults \in 0..MaxFaults

\* Set after the first n messages on the wire: the last of them that turns it
\* on or off turns it on, or none does and it is set now.
SetThrough(n, now, on, off) ==
    \/ \E i \in 1..n : wire[i] \in on /\ \A j \in (i + 1)..n : wire[j] \notin off
    \/ now /\ \A j \in 1..n : wire[j] \notin off

\* The button and the flags when the Mac has handled the first n messages.
ButtonThrough(n) == SetThrough(n, button, {Down}, {Up, Click, Double})
FlagsThrough(n)  ==
    {m \in Modifiers : SetThrough(n, m \in flags, {Mod(m, TRUE)}, {Mod(m, FALSE)})}

(***************************************************************************)
(* The Mac's button, once it has handled what is on the wire, is down      *)
(* exactly while the finger's gesture holds it: whatever the order of      *)
(* timers, second fingers, taps and mode changes, no gesture leaves the    *)
(* button down or loses a drag.  Two exceptions the code has: a message of *)
(* the button was lost, and a pending click fired during the gesture.      *)
(***************************************************************************)
ButtonFollows ==
    "button" \notin lost /\ ~g.crossed => ButtonThrough(Len(wire)) = g.held

(***************************************************************************)
(* A second finger ends a press before it scrolls: the Mac never scrolls   *)
(* with the button down, which would be a drag-select (lines 483-489) -    *)
(* also where a pending click has crossed the press.                       *)
(***************************************************************************)
NoScrollWhileHeld ==
    "button" \notin lost =>
        \A i \in 1..Len(wire) : wire[i] = Scroll => ~ButtonThrough(i - 1)

(***************************************************************************)
(* A typed key carries on the Mac the modifiers the toolbar showed when it *)
(* was typed, although the two sides count them separately - unless a      *)
(* modifier message was lost or the session, and with it the injector, was *)
(* replaced under a selected modifier.                                     *)
(***************************************************************************)
KeysAsShown ==
    "modifiers" \notin lost =>
        /\ FlagsThrough(Len(wire)) = active
        /\ \A i \in 1..Len(wire) :
             wire[i].kind = "keyboard.key" => FlagsThrough(i - 1) = wire[i].shown
=============================================================================
