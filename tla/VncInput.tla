------------------------------- MODULE VncInput -------------------------------
(* Keyboard and mouse of the VNC console: novnc/input.js, and the calls of   *)
(* rfb.js and console-vnc.html that send keys.  The browser reports physical *)
(* keys; a printable key is sent when its keypress, which follows the        *)
(* keydown at once, says which character it is, any other key at its         *)
(* keydown.  keyDownList remembers what was sent, so that keyup, or the loss *)
(* of focus or of the connection, can release it.                            *)
(* A definition X_Name before Name is Name with a fault, for the mutants.    *)
EXTENDS Integers, Sequences, FiniteSets, SequencesExt

CONSTANTS
    Printable,     \* keys whose character depends on Shift
    Special,       \* keys getKeysymSpecial names, with Shift and Control
    Buttons,       \* of the mouse
    MaxList        \* bound: entries of keyDownList

Shift   == "Shift"
Control == "Control"
Alt     == "Alt"
Dead    == "Dead"          \* keyCode 229; its keyup has another keyCode
None    == "None"          \* keysym 0 or null

ASSUME InputAssumption == {Shift, Control} \subseteq Special /\ MaxList \in Nat

VARIABLES
    grabbed,       \* the handlers are attached: rfb_state is normal
    held,          \* physical keys that are down
    keyDownList,   \* input.js: the same
    pressed,       \* keysyms the server believes to be down
    buttons,       \* physical mouse buttons that are down
    mask,          \* rfb.js: mouse_buttonMask, what the server was told
    captured,      \* input.js: mouseCaptured
    orphans, chord, cut   \* history: see the properties

keyboard  == <<held, keyDownList, pressed, orphans>>
mouse     == <<buttons, mask, captured, chord, cut>>
inputVars == <<grabbed, keyboard, mouse>>

Keys == Printable \cup Special \cup {Dead}

InputInit ==
    /\ grabbed = FALSE /\ held = {} /\ keyDownList = <<>> /\ pressed = {} /\ orphans = {}
    /\ buttons = {} /\ mask = {} /\ captured = FALSE /\ chord = FALSE /\ cut = FALSE
-----------------------------------------------------------------------------
(* The character of a printable key, with or without Shift.                  *)
Char(k) == IF Shift \in held THEN <<k, Shift>> ELSE <<k>>

(* getKeysymSpecial: what is sent at the keydown, without waiting for a      *)
(* keypress.                                                                 *)
KeysymSpecial(k) == IF k \in Special THEN <<k>>
                    ELSE IF Control \in held THEN Char(k) ELSE None

Entry(k, s) == [code |-> k, keysym |-> s]
Listed == {e.keysym : e \in ToSet(keyDownList)}

(* onKeyDown, and the onKeyPress the browser calls next unless the keydown   *)
(* was suppressed.  A key that is held repeats.                              *)
X_KeyDown(k) ==                          \* a repeated key is not listed again
    /\ grabbed /\ k # Dead /\ Len(keyDownList) < MaxList
    /\ held' = held \cup {k}
    /\ LET s == IF KeysymSpecial(k) # None THEN KeysymSpecial(k) ELSE Char(k)
       IN  /\ pressed' = pressed \cup {s}
           /\ keyDownList' = IF k \in held THEN keyDownList ELSE Append(keyDownList, Entry(k, s))
    /\ UNCHANGED <<grabbed, mouse, orphans>>

KeyDown(k) ==
    /\ grabbed /\ k # Dead /\ Len(keyDownList) < MaxList
    /\ held' = held \cup {k}
    /\ LET s == IF KeysymSpecial(k) # None THEN KeysymSpecial(k) ELSE Char(k)
       IN  /\ pressed' = pressed \cup {s}
           /\ keyDownList' = Append(keyDownList, Entry(k, s))
    /\ UNCHANGED <<grabbed, mouse, orphans>>

(* A dead key is neither sent nor listed; if the browser goes on to a        *)
(* keypress, the last entry of the list, of whatever key, gets its           *)
(* character.                                                                *)
DeadKeyDown ==
    /\ grabbed /\ held' = held \cup {Dead}
    /\ \/ UNCHANGED <<keyDownList, pressed, orphans>>
       \/ /\ Control \notin held
          /\ pressed' = pressed \cup {<<Dead>>}
          /\ IF keyDownList = <<>> THEN orphans' = orphans \cup {<<Dead>>} /\ UNCHANGED keyDownList
             ELSE /\ keyDownList' = [keyDownList EXCEPT ![Len(keyDownList)].keysym = <<Dead>>]
                  /\ orphans' = orphans \cup {Last(keyDownList).keysym}
    /\ UNCHANGED <<grabbed, mouse>>

(* getKeyEvent: the newest entry of the key.                                 *)
Newest(k) == CHOOSE i \in DOMAIN keyDownList :
                /\ keyDownList[i].code = k
                /\ \A j \in i + 1..Len(keyDownList) : keyDownList[j].code # k

KeyUp(k) ==
    /\ k \in held /\ held' = held \ {k}
    /\ IF grabbed /\ \E e \in ToSet(keyDownList) : e.code = k
       THEN /\ pressed' = pressed \ {keyDownList[Newest(k)].keysym}
            /\ keyDownList' = RemoveAt(keyDownList, Newest(k))
       ELSE UNCHANGED <<keyDownList, pressed>>
    /\ UNCHANGED <<grabbed, orphans, mouse>>

AllKeysUp == pressed' = pressed \ Listed /\ keyDownList' = <<>>

(* The window loses focus, and with it the keyups to come.                   *)
Blur ==
    /\ grabbed /\ AllKeysUp /\ held' \in SUBSET held
    /\ UNCHANGED <<grabbed, orphans, mouse>>

(* that.sendCtrlAltDel, and sendCtrlAltFN of the page, which calls           *)
(* that.sendKey with "up": any word is true, so that the keys go down again. *)
SendCtrlAltDel ==
    /\ grabbed /\ pressed' = pressed \ {<<Control>>, <<Alt>>, <<"Delete">>}
    /\ UNCHANGED <<grabbed, held, keyDownList, orphans, mouse>>

Chord == {<<Control>>, <<Alt>>, <<"F1">>}
SendKey(ks, down) == IF down # "" THEN pressed \cup ks ELSE pressed \ ks
SendCtrlAltFN ==
    /\ grabbed /\ pressed' = SendKey(Chord, "down") \cup SendKey(Chord, "up")
    /\ orphans' = orphans \cup Chord
    /\ UNCHANGED <<grabbed, held, keyDownList, mouse>>
-----------------------------------------------------------------------------
(* The mouse.  A button's release counts only while the mouse is captured,   *)
(* and ends the capture; in mouseButton it toggles the button's bit.  (The   *)
(* wheel presses and releases a button of its own in one event.)             *)
MouseDown(b) ==
    /\ b \notin buttons /\ buttons' = buttons \cup {b}
    /\ chord' = (chord \/ buttons # {})
    /\ \/ grabbed /\ captured' = TRUE /\ mask' = mask \cup {b}       \* on the canvas
       \/ UNCHANGED <<captured, mask>>                               \* beside it
    /\ UNCHANGED <<grabbed, keyboard, cut>>

Toggle(b) == IF b \in mask THEN mask \ {b} ELSE mask \cup {b}
MouseUp(b) ==
    /\ b \in buttons /\ buttons' = buttons \ {b}
    /\ IF grabbed /\ captured THEN mask' = Toggle(b) /\ captured' = FALSE
       ELSE UNCHANGED <<captured, mask>>
    /\ UNCHANGED <<grabbed, keyboard, chord, cut>>

-----------------------------------------------------------------------------
(* rfb.js: init_vars and ServerInitialisation, and updateState to a closing  *)
(* state; the server of a new connection has nothing pressed.                *)
Grab ==
    /\ ~grabbed /\ grabbed' = TRUE /\ mask' = {} /\ pressed' = {} /\ orphans' = {}
    /\ UNCHANGED <<held, keyDownList, buttons, captured, chord, cut>>

Ungrab ==
    /\ grabbed /\ grabbed' = FALSE /\ AllKeysUp
    /\ cut' = (cut \/ captured)
    /\ UNCHANGED <<held, orphans, buttons, mask, captured, chord>>

InputNext ==
    \/ \E k \in Printable \cup Special : KeyDown(k)
    \/ \E k \in Keys : KeyUp(k)
    \/ \E b \in Buttons : MouseDown(b) \/ MouseUp(b)
    \/ DeadKeyDown \/ Blur \/ SendCtrlAltDel \/ SendCtrlAltFN \/ Grab \/ Ungrab

InputSpec == InputInit /\ [][InputNext]_inputVars
-----------------------------------------------------------------------------
(* Whatever the server believes to be down will be released by its keyup, or *)
(* at the latest when focus or connection is lost, however keys repeat and   *)
(* Shift changes between: except the keys of sendCtrlAltFN, and of a dead    *)
(* key, or the one whose entry a dead key took.                              *)
EveryKeyIsReleased == pressed \subseteq Listed \cup orphans

(* The server is told of exactly the buttons that are down on the canvas, as *)
(* long as no two were down at a time and no connection was lost under one.  *)
ButtonsMatch == chord \/ cut \/ mask = IF captured THEN buttons ELSE {}
=============================================================================
