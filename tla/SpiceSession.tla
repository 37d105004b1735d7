---------------------------- MODULE SpiceSession ----------------------------
(* The main channel of the SPICE console and the connections it makes:       *)
(* spice-html5/main.js, resize.js, the mouse modes of cursor.js, and the     *)
(* page console-spice.html.  Frames and acks are the business of             *)
(* SpiceChannel: here a message is handled in one step, and a handler that   *)
(* throws on a message with a body leaves the channel deaf, as shown there.  *)
(* A definition X_Name before Name is Name with a fault, for the mutants.    *)
EXTENDS Integers, Sequences, SequencesExt, FiniteSets

CONSTANTS
    MessageArea,   \* the page names an element for messages; Virtlyst's does not
    MaxTokens,     \* bound: tokens given at a time, and in all
    MaxQueue       \* bound: messages waiting for tokens

ASSUME SessionAssumption == MessageArea \in BOOLEAN /\ MaxTokens \in Nat /\ MaxQueue \in Nat

VARIABLES
    link,          \* "ready", "attached" after MAIN_INIT, "closing" after stop
    deaf,          \* the reader is out of step
    agent_connected, agent_tokens,
    agent_msg_queue, \* how many fragments wait
    asked,         \* history: a resize went to the agent now connected
    mouse_mode,
    slots,         \* the connections it holds, by the names display, inputs, cursor
    inputsMode,    \* the inputs connection's own mouse_mode
    live,          \* the connections that are open
    displaced,     \* history: connections another took the name of
    resizeTimer    \* "off", "on", or "unset" before the page listens

sessionVars == <<link, deaf, agent_connected, agent_tokens, agent_msg_queue, asked,
                 mouse_mode, slots, inputsMode, live, displaced,
                 resizeTimer>>

Modes == {"client", "server"}
Kinds == {"display", "inputs", "cursor", "playback", "other"}
SlotOf == [display |-> "display", inputs |-> "inputs", cursor |-> "cursor", playback |-> "cursor"]
NoConn == ""
-----------------------------------------------------------------------------
(* send_agent_message_queue on the agent's part of the state, a record: the  *)
(* server is given the fragments while there are tokens.                     *)
Agent == [connected |-> agent_connected, tokens |-> agent_tokens, queued |-> agent_msg_queue]

X_SendQueue(a, n) ==                      \* a new fragment only, not those that wait
    IF ~a.connected THEN a
    ELSE IF n > 0 /\ a.tokens > 0
         THEN [a EXCEPT !.tokens = @ - 1, !.queued = @ + n - 1]
         ELSE [a EXCEPT !.queued = @ + n]

SendQueue(a, n) ==
    LET all  == a.queued + n
        sent == IF all < a.tokens THEN all ELSE a.tokens
    IN  IF ~a.connected THEN a
        ELSE [a EXCEPT !.queued = all - sent, !.tokens = @ - sent]

SetAgent(a) ==
    /\ agent_connected' = a.connected /\ agent_tokens' = a.tokens
    /\ agent_msg_queue' = a.queued
    /\ a.queued <= MaxQueue

(* connect_agent: AGENT_START, the capabilities, then the page's onagent,    *)
(* whose resize_helper wants the height of the message area.                 *)
ConnectAgent(a) ==
    LET announced == SendQueue([a EXCEPT !.connected = TRUE], 1)
    IN  IF MessageArea THEN SendQueue(announced, 1) ELSE announced

(* The rest of a handler that called connect_agent is skipped when it threw. *)
OnAgent(a, hasBody) ==
    /\ SetAgent(ConnectAgent(a))
    /\ asked' = MessageArea
    /\ deaf' = (hasBody /\ ~MessageArea)
    /\ resizeTimer' = IF resizeTimer = "unset" THEN "off" ELSE resizeTimer

Handles == link \in {"ready", "attached"} /\ ~deaf

(* handle_mouse_mode: for a server's mode the client's is asked for.         *)
MouseMode(m) ==
    /\ mouse_mode' = m
    /\ inputsMode' = IF slots.inputs # NoConn THEN m ELSE inputsMode
-----------------------------------------------------------------------------
SessionInit ==
    /\ link = "ready" /\ deaf = FALSE
    /\ agent_connected = FALSE /\ agent_tokens = 0 /\ agent_msg_queue = 0
    /\ asked = FALSE /\ mouse_mode = "none" /\ inputsMode = "none"
    /\ slots = [display |-> NoConn, inputs |-> NoConn, cursor |-> NoConn]
    /\ live = {"main"} /\ displaced = {} /\ resizeTimer = "unset"

(* MAIN_INIT: the mouse mode, the agent if there is one, ATTACH_CHANNELS.    *)
MainInit ==
    /\ Handles /\ link = "ready"
    /\ \E m \in Modes, tokens \in 0..MaxTokens, connected \in BOOLEAN :
         LET a == [Agent EXCEPT !.tokens = tokens]
         IN  /\ MouseMode(m)
             /\ IF connected THEN OnAgent(a, TRUE)
                             ELSE SetAgent(a) /\ UNCHANGED <<deaf, asked, resizeTimer>>
             /\ link' = IF connected /\ ~MessageArea THEN link ELSE "attached"
    /\ UNCHANGED <<slots, live, displaced>>

MainMouseMode ==
    /\ Handles /\ link = "attached"
    /\ \E m \in Modes : m # mouse_mode /\ MouseMode(m)
    /\ UNCHANGED <<link, deaf, agent_connected, agent_tokens, agent_msg_queue,
                   asked, slots, live, displaced, resizeTimer>>

(* MAIN_CHANNELS_LIST: a connection for each in the list; a playback channel *)
(* is kept under the name cursor, where the last of the two stays.           *)
Listed(kinds, name, last) ==
    LET of == {k \in kinds \ {"other"} : SlotOf[k] = name}
    IN  IF of = {} THEN NoConn ELSE IF last \in of THEN last ELSE CHOOSE k \in of : TRUE

ChannelsList ==
    /\ Handles /\ link = "attached" /\ live = {"main"} /\ \A name \in DOMAIN slots : slots[name] = NoConn
    /\ \E kinds \in SUBSET Kinds, last \in {"cursor", "playback"} :
         /\ slots' = [name \in DOMAIN slots |-> Listed(kinds, name, last)]
         /\ live' = live \cup kinds
         /\ displaced' = {k \in kinds \ {"other"} : slots'[SlotOf[k]] # k}
    /\ inputsMode' = mouse_mode
    /\ UNCHANGED <<link, deaf, agent_connected, agent_tokens, agent_msg_queue, asked, mouse_mode,
                   resizeTimer>>

AgentConnected ==
    /\ Handles /\ link = "attached" /\ ~agent_connected
    /\ \/ OnAgent(Agent, FALSE)                          \* AGENT_CONNECTED has no body
       \/ \E n \in 0..MaxTokens : OnAgent([Agent EXCEPT !.tokens = n], TRUE)
    /\ UNCHANGED <<link, mouse_mode, slots, inputsMode, live, displaced>>

AgentDisconnected ==
    /\ Handles /\ link = "attached" /\ agent_connected
    /\ agent_connected' = FALSE /\ asked' = FALSE
    /\ UNCHANGED <<link, deaf, agent_tokens, agent_msg_queue, mouse_mode, slots, inputsMode, live,
                   displaced, resizeTimer>>

(* AGENT_TOKEN; no file is ever read, as the page never gets to listen for   *)
(* one.                                                                      *)
AgentToken ==
    /\ Handles /\ link = "attached"
    /\ \E n \in 1..(MaxTokens - agent_tokens) : SetAgent(SendQueue([Agent EXCEPT !.tokens = @ + n], 0))
    /\ UNCHANGED <<link, deaf, asked, mouse_mode, slots, inputsMode, live, displaced, resizeTimer>>

(* AGENT_DATA with a request for the capabilities.                           *)
AgentRequest ==
    /\ Handles /\ link = "attached"
    /\ SetAgent(SendQueue(Agent, 1))
    /\ UNCHANGED <<link, deaf, asked, mouse_mode, slots, inputsMode, live, displaced, resizeTimer>>

(* handle_resize: the last of a run of resize events starts resize_helper.   *)
WindowResized ==
    /\ resizeTimer # "unset"
    /\ resizeTimer' = "on"
    /\ UNCHANGED <<link, deaf, agent_connected, agent_tokens, agent_msg_queue, asked, mouse_mode,
                   slots, inputsMode, live, displaced>>

(* The timer does not know that the connection may have stopped.             *)
ResizeHelper ==
    /\ resizeTimer = "on" /\ resizeTimer' = "off"
    /\ IF MessageArea
       THEN SetAgent(SendQueue(Agent, 1)) /\ asked' = agent_connected
       ELSE UNCHANGED <<agent_connected, agent_tokens, agent_msg_queue, asked>>
    /\ UNCHANGED <<link, deaf, mouse_mode, slots, inputsMode, live, displaced>>

(* stop: by the page, or after an error of the main channel.                 *)
Closes == {slots[name] : name \in DOMAIN slots} \cup {"main", "other"}
SessionStop ==
    /\ link # "closing" /\ link' = "closing"
    /\ live' = live \ Closes
    /\ slots' = [name \in DOMAIN slots |-> NoConn]
    /\ UNCHANGED <<deaf, agent_connected, agent_tokens, agent_msg_queue, asked, mouse_mode,
                   inputsMode, displaced, resizeTimer>>

(* External: a channel's socket ends; nobody is told.                        *)
ChildEnds(k) ==
    /\ k \in live \ {"main"} /\ live' = live \ {k}
    /\ UNCHANGED <<link, deaf, agent_connected, agent_tokens, agent_msg_queue, asked, mouse_mode,
                   slots, inputsMode, displaced, resizeTimer>>

SessionNext ==
    \/ MainInit \/ MainMouseMode \/ ChannelsList
    \/ AgentConnected \/ AgentDisconnected \/ AgentToken \/ AgentRequest
    \/ WindowResized \/ ResizeHelper \/ SessionStop
    \/ \E k \in Kinds : ChildEnds(k)

SessionSpec == SessionInit /\ [][SessionNext]_sessionVars
-----------------------------------------------------------------------------
(* A fragment for the agent waits only while there are no tokens: tokens     *)
(* that come, with AGENT_TOKEN or a new agent, move what waits.              *)
NoIdleTokens == agent_connected /\ agent_msg_queue > 0 => agent_tokens = 0

(* After stop only a connection that lost its name to another stays open.    *)
StopClosesAll == link = "closing" => live \subseteq displaced

(* main.js on onagent: "a function to be called when a VD agent is           *)
(* connected; a good opportunity to request a resize".  The page uses it so, *)
(* and an agent that is connected has been asked for a resize.               *)
AgentIsAskedToResize == agent_connected => asked
=============================================================================
