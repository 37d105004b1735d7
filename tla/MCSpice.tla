------------------------------- MODULE MCSpice -------------------------------
(* The parts of the SPICE console in one run, but for the display, which has *)
(* its own.  They meet in what one assumes of another (a handler that throws *)
(* ends a channel, the inputs channel is told the mouse mode) and share no   *)
(* state, so that the run explores one at a time.                            *)
EXTENDS SpiceChannel, SpiceSession, SpiceInputs, SpicePlayback, ConsoleWire

(* Both keys of two modifiers.                                               *)
SomeKeys == {<<"Shift", "left">>, <<"Shift", "right">>, <<"Ctrl", "left">>, <<"Ctrl", "right">>,
             <<"Alt", "left">>, <<"Meta", "left">>}

(* The parts that have left their initial state.                             *)
ChannelUsed  == ws # "connecting" \/ ~timeout
SessionUsed  == ~(SessionInit)
InputsUsed   == ~(InputsInit /\ scroll = 0 /\ guestX = 0)
PlaybackUsed == ~(PlaybackInit)
WireUsed     == ~WireIdle

(* The key state and the mouse state of SpiceInputs are apart as well.       *)
KeysUsed  == focused \/ held # {} \/ guestMods # {} \/ known
MouseUsed == pointer # 0 \/ guestX # 0 \/ scroll # 0 \/ initX # 0 \/ mode = "client" \/ pressed # {}

Aside == ~main /\ ~ChannelUsed
Quiet(others) == \A used \in others : ~used
Init == ChannelInit /\ SessionInit /\ InputsInit /\ PlaybackInit /\ WireInit /\ (InputsUsed => Aside)
vars == <<channelVars, sessionVars, inputsVars, playbackVars, wireVars>>

NotChannel == SessionUsed \/ InputsUsed \/ PlaybackUsed \/ WireUsed
ChannelStep ==
    /\ ~NotChannel /\ ChannelNext
    /\ UNCHANGED <<sessionVars, inputsVars, playbackVars, wireVars>>
Next ==
    \/ ChannelStep
    \/ /\ Aside /\ Quiet({InputsUsed, PlaybackUsed, WireUsed}) /\ SessionNext
       /\ UNCHANGED <<channelVars, inputsVars, playbackVars, wireVars>>
    \/ /\ Aside /\ Quiet({SessionUsed, PlaybackUsed, WireUsed}) /\ InputsNext
       /\ ~(KeysUsed' /\ MouseUsed')
       /\ UNCHANGED <<channelVars, sessionVars, playbackVars, wireVars>>
    \/ /\ Aside /\ Quiet({SessionUsed, InputsUsed, WireUsed}) /\ PlaybackNext
       /\ UNCHANGED <<channelVars, sessionVars, inputsVars, wireVars>>
    \/ /\ Aside /\ Quiet({SessionUsed, InputsUsed, PlaybackUsed}) /\ WireNext
       /\ UNCHANGED <<channelVars, sessionVars, inputsVars, playbackVars>>

(* The browser fires a timer that is due.                                    *)
Spec == Init /\ [][Next]_vars /\ WF_vars(~NotChannel /\ Timeout /\ UNCHANGED <<sessionVars, inputsVars, playbackVars, wireVars>>)
=============================================================================
