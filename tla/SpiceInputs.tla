----------------------------- MODULE SpiceInputs -----------------------------
(* Keyboard and mouse of the SPICE console: spice-html5/inputs.js, with the  *)
(* key and mouse messages of spicemsg.js and the page's shortcuts.  Messages *)
(* to the guest arrive in order; only those that can be late, the motions    *)
(* and their acks, are kept in flight.                                       *)
(* A definition X_Name before Name is Name with a fault, for the mutants.    *)
EXTENDS Integers, FiniteSets

CONSTANTS
    ModKeys,       \* the user's keys that are modifiers: a modifier and a side
    Positions,     \* of the pointer on the canvas, along one axis
    Edge,          \* the last position there is
    Scrolls,       \* how far the page can be scrolled
    Bunch,         \* SPICE_INPUT_MOTION_ACK_BUNCH
    Buttons        \* of the mouse

Mods == {"Shift", "Alt", "Ctrl", "Meta"}

ASSUME InputsAssumption ==
    /\ ModKeys \subseteq Mods \X {"left", "right"}
    /\ Edge \in Nat /\ Positions \subseteq 0..Edge
    /\ Scrolls \subseteq Nat
    /\ Bunch \in Nat

VARIABLES
    inputsReady,   \* the channel's state is "ready"
    focused,       \* the canvas has the keyboard
    held,          \* the keys of ModKeys the user holds down
    states,        \* Shift_state, Alt_state, ...: the modifiers that are true
    known,         \* they are no longer -1
    guestMods,     \* the modifiers that are down in the guest
    clean,         \* history: the guest had the modifiers of the first key event
    lost,          \* history: modifiers let go on one side while held on the other
    mode,          \* mouse_mode
    mousex,        \* sc.mousex; undefined, which is not taken away, is 0
    initX,         \* mousex of the inputs connection, which nothing reads
    scroll,        \* scrollLeft
    pointer,       \* where on the canvas the last mouse event was, first 0
    guestX,        \* where the guest has the pointer
    counted,       \* history: what mousex leaves out of the pointer's place
    missed,        \* history: the guest was not told of all of the pointer's way
    waiting_for_ack,
    motions, acks, \* in flight; motions include those the server has not acked
    buttons_state,
    pressed,       \* the buttons the user holds down
    guestButtons   \* the mask the guest was sent last

keyVars   == <<focused, held, states, known, guestMods, clean, lost>>
placeVars == <<mousex, pointer, guestX, counted, missed>>
moveVars  == <<placeVars, mode, initX, scroll, waiting_for_ack, motions, acks>>
clickVars == <<buttons_state, pressed, guestButtons>>
inputsVars == <<inputsReady, keyVars, moveVars, clickVars>>

-----------------------------------------------------------------------------
(* A key event: its own code first, then check_and_update_modifiers against  *)
(* the flags of the event, then the key itself.  The code for Meta is not    *)
(* the one the key map gives, and what is sent for it is not a Meta key.     *)
Apply(set, m, down) == IF down THEN set \cup {m} ELSE set \ {m}

Tracked(m, down, flags) ==
    LET first == IF known THEN states ELSE flags
    IN  IF m \in Mods \ {"Meta"} THEN Apply(first, m, down) ELSE first

X_Synced(tracked, flags) == {m \in Mods : m \in guestMods \/ (m \in flags /\ m \notin tracked)}
Synced(tracked, flags) ==
    {m \in Mods : IF m # "Meta" /\ (m \in tracked) # (m \in flags) THEN m \in flags ELSE m \in guestMods}

KeyEvent(m, down, flags) ==
    LET tracked == Tracked(m, down, flags)
    IN  /\ known' = TRUE
        /\ states' = IF inputsReady THEN flags ELSE tracked
        /\ guestMods' = IF ~inputsReady THEN guestMods
                        ELSE IF m \in Mods THEN Apply(Synced(tracked, flags), m, down)
                                           ELSE Synced(tracked, flags)
        /\ clean' = IF inputsReady /\ known THEN clean
                    ELSE clean /\ inputsReady /\ guestMods \ {m} = flags \ {m, "Meta"}
        /\ lost' = {x \in Mods \ {"Meta"} : x \in flags /\ (IF x = m THEN ~down ELSE x \in lost)}

(* The user's keys: events come only to a canvas that has the focus.  Both   *)
(* keys of a modifier have one code, and the flags are set while either is   *)
(* held; a key that is held repeats.                                         *)
Flags(keys) == {k[1] : k \in keys}

Key(k, down) ==
    /\ down \/ k \in held
    /\ held' = Apply(held, k, down)
    /\ IF focused THEN KeyEvent(k[1], down, Flags(held'))
                  ELSE UNCHANGED <<states, known, guestMods, clean, lost>>
    /\ UNCHANGED <<inputsReady, focused, moveVars, clickVars>>
Letter(down) ==
    /\ focused /\ KeyEvent("letter", down, Flags(held))
    /\ UNCHANGED <<inputsReady, focused, held, moveVars, clickVars>>

(* handle_mouseover and handle_mouseout.                                     *)
Focus ==
    /\ focused' = ~focused
    /\ UNCHANGED <<inputsReady, held, states, known, guestMods, clean, lost, moveVars, clickVars>>

(* sendCtrlAltDel and the page's sendCtrlAltFN: Ctrl and Alt go up again if  *)
(* their state is false, which -1 is not.                                    *)
Shortcut ==
    LET up == IF known THEN {"Ctrl", "Alt"} \ states ELSE {}
    IN  /\ inputsReady
        /\ guestMods' = (guestMods \cup {"Ctrl", "Alt"}) \ up
        /\ lost' = lost \ {"Ctrl", "Alt"}
        /\ UNCHANGED <<inputsReady, focused, held, states, known, clean, moveVars, clickVars>>
-----------------------------------------------------------------------------
(* handle_mousemove: the message is made, which moves mousex, before it is   *)
(* decided whether it is sent.  Only the mode "client" adds what the page is *)
(* scrolled by to the place in the window; x is the place on the canvas.     *)
Seen(x) == IF mode = "client" THEN x ELSE x - scroll
X_NewMousex(x) == IF mode = "client" THEN mousex ELSE Seen(x)
NewMousex(x) == Seen(x)

(* External: the guest moves its pointer, up to the edges of its screen.     *)
Moved(x) == IF x < 0 THEN 0 ELSE IF x > Edge THEN Edge ELSE x

MouseMove(x) ==
    /\ pointer' = x /\ mousex' = NewMousex(x)
    /\ counted' = IF mode = "client" THEN 0 ELSE scroll
    /\ IF inputsReady /\ waiting_for_ack < 2 * Bunch
       THEN /\ guestX' = IF mode = "client" THEN Seen(x) ELSE Moved(guestX + (Seen(x) - mousex))
            /\ guestButtons' = buttons_state
            /\ waiting_for_ack' = waiting_for_ack + 1
            /\ motions' = motions + 1
            /\ missed' = (mode = "server" /\ (missed \/ counted # scroll))
       ELSE missed' = TRUE /\ UNCHANGED <<guestX, guestButtons, waiting_for_ack, motions>>
    /\ UNCHANGED <<inputsReady, keyVars, mode, initX, scroll, acks, buttons_state, pressed>>

(* The user scrolls the page.                                                *)
Scroll(to) ==
    /\ to # scroll /\ scroll' = to
    /\ UNCHANGED <<inputsReady, keyVars, placeVars, mode, initX, waiting_for_ack, motions, acks,
                   clickVars>>

(* CURSOR_INIT, which imagines that it says where the guest's pointer is (a  *)
(* server says 0), puts it where no motion looks for it.                     *)
CursorInit(x) ==
    /\ mode = "server" /\ initX' = x
    /\ UNCHANGED <<inputsReady, keyVars, placeVars, mode, scroll, waiting_for_ack, motions, acks,
                   clickVars>>

(* External: the server acks a bunch of motions.                             *)
ServerAcks ==
    /\ motions >= Bunch
    /\ motions' = motions - Bunch /\ acks' = acks + 1
    /\ UNCHANGED <<inputsReady, keyVars, placeVars, mode, initX, scroll, waiting_for_ack, clickVars>>

MotionAck ==
    /\ acks > 0 /\ acks' = acks - 1
    /\ waiting_for_ack' = waiting_for_ack - Bunch
    /\ UNCHANGED <<inputsReady, keyVars, placeVars, mode, initX, scroll, motions, clickVars>>

ModeChanges ==
    /\ mode' = IF mode = "client" THEN "server" ELSE "client"
    /\ UNCHANGED <<inputsReady, keyVars, placeVars, initX, scroll, waiting_for_ack, motions, acks,
                   clickVars>>

(* handle_mousedown and handle_mouseup: the state is the one button, and     *)
(* none.  A button let go outside the canvas, which is not heard of, is left  *)
(* out.                                                                      *)
MouseDown(b) ==
    /\ b \notin pressed /\ pressed' = pressed \cup {b}
    /\ buttons_state' = {b}
    /\ guestButtons' = IF inputsReady THEN {b} ELSE guestButtons
    /\ UNCHANGED <<inputsReady, keyVars, moveVars>>
MouseUp(b) ==
    /\ b \in pressed /\ pressed' = pressed \ {b}
    /\ buttons_state' = {}
    /\ guestButtons' = IF inputsReady THEN {} ELSE guestButtons
    /\ UNCHANGED <<inputsReady, keyVars, moveVars>>

(* handle_mousewheel: a press and a release with no button in the mask.      *)
MouseWheel ==
    /\ inputsReady /\ guestButtons' = {}
    /\ UNCHANGED <<inputsReady, keyVars, moveVars, buttons_state, pressed>>

Ready == ~inputsReady /\ inputsReady' = TRUE /\ UNCHANGED <<keyVars, moveVars, clickVars>>

(* Until the main channel says that it is the client's, the mode is not.      *)
InputsInit ==
    /\ inputsReady = FALSE
    /\ focused = FALSE /\ held = {} /\ states = {} /\ known = FALSE /\ guestMods = {}
    /\ clean = TRUE /\ lost = {}
    /\ mode = "server" /\ mousex = 0 /\ initX = 0 /\ scroll \in Scrolls /\ pointer = 0
    /\ guestX \in Positions \cup {0} /\ counted = 0 /\ missed = (guestX # 0)
    /\ waiting_for_ack = 0 /\ motions = 0 /\ acks = 0
    /\ buttons_state = {} /\ pressed = {} /\ guestButtons = {}

KeyNext == Focus \/ Shortcut \/ \E down \in BOOLEAN : Letter(down) \/ \E k \in ModKeys : Key(k, down)
MouseNext ==
    \/ ServerAcks \/ MotionAck \/ ModeChanges \/ MouseWheel
    \/ \E x \in Positions : MouseMove(x)
    \/ \E to \in Scrolls : Scroll(to)
    \/ \E x \in Positions \cup {0} : CursorInit(x)
    \/ \E b \in Buttons : MouseDown(b) \/ MouseUp(b)
InputsNext == Ready \/ KeyNext \/ MouseNext
InputsSpec == InputsInit /\ [][InputsNext]_inputsVars
-----------------------------------------------------------------------------
(* Once the guest has been in step with the first key event, it has the      *)
(* modifiers the page believes it has, whatever focus the canvas loses and   *)
(* whatever keys are let go elsewhere, but for those of which one key was    *)
(* let go while the other was held: the page sends that it is down and then  *)
(* that it is up, believes the first, and the guest goes without it until    *)
(* the modifier's next key or shortcut.  Meta is never sent.                 *)
ModifiersTracked == known /\ clean => guestMods \ {"Meta"} = states \ (lost \cup {"Meta"})

(* The guest's pointer, moved by differences in the mode "server" and put in *)
(* place in the mode "client", is where the browser's is, across changes of  *)
(* the mode, unless a motion was thrown away or, in the mode "server", the   *)
(* pointer was elsewhere at first or the page was scrolled between motions;  *)
(* one motion sent in the mode "client" puts it right.                       *)
PointerFollows == ~missed => guestX = pointer

(* The motions counted as waiting are those the server still has to ack and  *)
(* the bunches whose ack is on its way: none is forgotten, so that the limit *)
(* of two bunches is not reached for good.                                   *)
MotionsFlow == waiting_for_ack = motions + Bunch * acks
=============================================================================
