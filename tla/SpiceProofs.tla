----------------------------- MODULE SpiceProofs -----------------------------
(***************************************************************************)
(* SpiceSession, SpiceInputs, SpicePlayback, SpiceDisplay and              *)
(* SpiceChannel, for any channels, tokens, positions, buttons, packets,    *)
(* surfaces, images, messages and frames: the agent's messages do not wait *)
(* beside tokens, stop closes the connections, the guest's keyboard and    *)
(* pointer follow the user's, sound is handed over whole and in order, a   *)
(* canvas shows its last picture, a channel takes every piece for what it  *)
(* is, and what ConsoleWire writes fills its buffer and survives: a number *)
(* that was read comes back, and a layout takes the size it promises.      *)
(***************************************************************************)
EXTENDS SpiceSession, SpiceInputs, SpicePlayback, SpiceDisplay, SpiceChannel,
        ConsoleWire, FoldLemmas, SequenceTheorems, TLAPS

(* The session: the agent's queue.                                          *)

AgentTypes == agent_connected \in BOOLEAN /\ agent_tokens \in Nat /\ agent_msg_queue \in Nat
AgentState == [connected : BOOLEAN, tokens : Nat, queued : Nat]
Moving(a) == a.connected /\ a.queued > 0 => a.tokens = 0
Unasked == link = "ready" /\ ~deaf => ~agent_connected
AgentInv == AgentTypes /\ NoIdleTokens

LEMMA SendQueueMoves ==
  ASSUME NEW a \in AgentState, NEW n \in Nat
  PROVE  /\ SendQueue(a, n) \in AgentState
         /\ SendQueue(a, n).connected = a.connected
         /\ Moving(SendQueue(a, n))
<1> DEFINE all == a.queued + n
           sent == IF all < a.tokens THEN all ELSE a.tokens
<1>1. all \in Nat /\ sent \in Nat /\ all - sent \in Nat /\ a.tokens - sent \in Nat
  BY DEF AgentState
<1>2. CASE ~a.connected
  BY <1>2 DEF SendQueue, Moving
<1>3. CASE a.connected
  <2>1. SendQueue(a, n) = [a EXCEPT !.queued = all - sent, !.tokens = a.tokens - sent]
    BY <1>3 DEF SendQueue
  <2>2. all - sent > 0 => a.tokens - sent = 0
    BY DEF AgentState
  <2> HIDE DEF all, sent
  <2> QED
    BY <1>1, <2>1, <2>2 DEF AgentState, Moving
<1> QED
  BY <1>2, <1>3

LEMMA SetAgentKeeps ==
  ASSUME NEW a \in AgentState, Moving(a), SetAgent(a)
  PROVE  AgentInv'
  BY DEF SetAgent, AgentState, Moving, AgentInv, AgentTypes, NoIdleTokens

LEMMA OnAgentKeeps ==
  ASSUME NEW a \in AgentState, NEW hasBody \in BOOLEAN, OnAgent(a, hasBody)
  PROVE  AgentInv'
<1>1. [a EXCEPT !.connected = TRUE] \in AgentState
  BY DEF AgentState
<1>2. ConnectAgent(a) \in AgentState /\ Moving(ConnectAgent(a))
  BY <1>1, SendQueueMoves DEF ConnectAgent
<1> QED
  BY <1>2, SetAgentKeeps DEF OnAgent

LEMMA AgentStep ==
  ASSUME AgentInv, Unasked, [SessionNext]_sessionVars
  PROVE  AgentInv' /\ Unasked'
<1>1. Agent \in AgentState
  BY DEF Agent, AgentState, AgentInv, AgentTypes
<1>2. Moving(Agent)
  BY DEF Agent, Moving, AgentInv, NoIdleTokens
<1>3. CASE UNCHANGED <<link, deaf, agent_connected, agent_tokens, agent_msg_queue>>
  BY <1>3 DEF AgentInv, AgentTypes, NoIdleTokens, Unasked
<1>4. CASE MainInit
  <2>1. PICK m \in Modes, tokens \in 0..MaxTokens, connected \in BOOLEAN :
          LET a == [Agent EXCEPT !.tokens = tokens]
          IN  /\ IF connected THEN OnAgent(a, TRUE)
                              ELSE SetAgent(a) /\ UNCHANGED <<deaf, asked, resizeTimer>>
              /\ link' = IF connected /\ ~MessageArea THEN link ELSE "attached"
    BY <1>4 DEF MainInit
  <2> DEFINE a == [Agent EXCEPT !.tokens = tokens]
  <2>2. a \in AgentState
    BY <1>1, SessionAssumption DEF AgentState
  <2>3. CASE connected
    <3>1. AgentInv'
      BY <2>1, <2>2, <2>3, OnAgentKeeps
    <3>2. deaf' = ~MessageArea
      BY <2>1, <2>3 DEF OnAgent
    <3> QED
      BY <2>1, <3>1, <3>2 DEF Unasked
  <2>4. CASE ~connected
    <3>1. ~agent_connected
      BY <1>4 DEF MainInit, Handles, Unasked
    <3>2. Moving(a)
      BY <3>1 DEF Moving, Agent
    <3>3. AgentInv'
      BY <2>1, <2>2, <2>4, <3>2, SetAgentKeeps
    <3> QED
      BY <2>1, <2>4, <3>3 DEF Unasked
  <2> QED
    BY <2>3, <2>4
<1>5. CASE AgentConnected
  <2>1. PICK a \in AgentState, hasBody \in BOOLEAN : OnAgent(a, hasBody)
    <3>1. ASSUME NEW n \in 0..MaxTokens PROVE [Agent EXCEPT !.tokens = n] \in AgentState
      BY <1>1, SessionAssumption DEF AgentState
    <3> QED
      BY <1>1, <1>5, <3>1 DEF AgentConnected
  <2>2. link' = "attached"
    BY <1>5 DEF AgentConnected
  <2> QED
    BY <2>1, <2>2, OnAgentKeeps DEF Unasked
<1>6. CASE AgentDisconnected
  BY <1>6 DEF AgentDisconnected, AgentInv, AgentTypes, NoIdleTokens, Unasked
<1>7. CASE AgentToken
  <2>1. PICK n \in 1..(MaxTokens - agent_tokens) :
          SetAgent(SendQueue([Agent EXCEPT !.tokens = @ + n], 0))
    BY <1>7 DEF AgentToken
  <2>2. [Agent EXCEPT !.tokens = @ + n] \in AgentState
    BY <1>1 DEF AgentState
  <2>3. link' = "attached"
    BY <1>7 DEF AgentToken
  <2> QED
    BY <2>1, <2>2, <2>3, SendQueueMoves, SetAgentKeeps DEF Unasked
<1>8. CASE AgentRequest \/ (ResizeHelper /\ MessageArea)
  <2>1. SetAgent(SendQueue(Agent, 1)) /\ UNCHANGED <<link, deaf>>
    BY <1>8 DEF AgentRequest, ResizeHelper
  <2>2. SendQueue(Agent, 1) \in AgentState /\ SendQueue(Agent, 1).connected = agent_connected
    BY <1>1, SendQueueMoves DEF Agent
  <2>3. agent_connected' = agent_connected
    BY <2>1, <2>2 DEF SetAgent
  <2> QED
    BY <1>1, <2>1, <2>2, <2>3, SendQueueMoves, SetAgentKeeps DEF Unasked
<1>9. CASE SessionStop
  BY <1>9 DEF SessionStop, AgentInv, AgentTypes, NoIdleTokens, Unasked
<1>10. CASE MainMouseMode
  BY <1>3, <1>10 DEF MainMouseMode
<1>11. CASE ChannelsList
  BY <1>3, <1>11 DEF ChannelsList
<1>12. CASE WindowResized
  BY <1>3, <1>12 DEF WindowResized
<1>13. CASE ResizeHelper /\ ~MessageArea
  BY <1>3, <1>13 DEF ResizeHelper
<1>14. CASE \E k \in Kinds : ChildEnds(k)
  BY <1>3, <1>14 DEF ChildEnds
<1>15. CASE UNCHANGED sessionVars
  BY <1>3, <1>15 DEF sessionVars
<1> QED
  BY <1>4, <1>5, <1>6, <1>7, <1>8, <1>9, <1>10, <1>11,
     <1>12, <1>13, <1>14, <1>15 DEF SessionNext

(* No message for the agent waits while there are tokens for it, in         *)
(* whatever order agents, tokens and requests come.                         *)
THEOREM TokensAreUsed == SessionSpec => []NoIdleTokens
<1>1. SessionInit => AgentInv /\ Unasked
  <2> SUFFICES ASSUME SessionInit PROVE AgentInv /\ Unasked
    OBVIOUS
  <2>1. agent_connected = FALSE /\ agent_tokens = 0 /\ agent_msg_queue = 0
    BY DEF SessionInit
  <2>2. agent_connected \in BOOLEAN /\ ~agent_connected
    BY ONLY <2>1, Zenon
  <2> QED
    BY <2>1, <2>2 DEF AgentInv, AgentTypes, NoIdleTokens, Unasked
<1>2. (AgentInv /\ Unasked) /\ [SessionNext]_sessionVars => (AgentInv /\ Unasked)'
  BY AgentStep
<1>3. AgentInv => NoIdleTokens
  BY DEF AgentInv
<1> QED
  BY <1>1, <1>2, <1>3, PTL DEF SessionSpec
-----------------------------------------------------------------------------
(* The connections: as long as the session runs, an open one has a name     *)
(* under which stop finds it, or lost it.                                   *)
Names == {"display", "inputs", "cursor"}
Named == DOMAIN slots = Names
Found == link # "closing" => live \subseteq Closes \cup displaced
LiveInv == Named /\ Found /\ StopClosesAll

LEMMA LiveStep ==
  ASSUME LiveInv, [SessionNext]_sessionVars
  PROVE  LiveInv'
<1>1. CASE ChannelsList
  <2>1. PICK kinds \in SUBSET Kinds, last \in {"cursor", "playback"} :
          /\ slots' = [name \in DOMAIN slots |-> Listed(kinds, name, last)]
          /\ live' = live \cup kinds
          /\ displaced' = {k \in kinds \ {"other"} : slots'[SlotOf[k]] # k}
    BY <1>1 DEF ChannelsList
  <2>2. live = {"main"} /\ link' = link /\ link # "closing"
    BY <1>1 DEF ChannelsList, Handles
  <2>3. DOMAIN slots' = Names
    BY <2>1 DEF LiveInv, Named
  <2>4. \A k \in Kinds \ {"other"} : SlotOf[k] \in Names
    BY DEF Kinds, SlotOf, Names
  <2>5. ASSUME NEW k \in kinds PROVE k \in Closes' \cup displaced'
    <3>1. CASE k = "other"
      BY <3>1 DEF Closes
    <3>2. CASE k # "other" /\ slots'[SlotOf[k]] = k
      BY <2>3, <2>4, <3>2 DEF Closes
    <3>3. CASE k # "other" /\ slots'[SlotOf[k]] # k
      BY <2>1, <3>3
    <3> QED
      BY <3>1, <3>2, <3>3
  <2>6. "main" \in Closes'
    BY DEF Closes
  <2> QED
    BY <2>1, <2>2, <2>3, <2>5, <2>6 DEF LiveInv, Named, Found, StopClosesAll
<1>2. CASE SessionStop
  <2>1. link' = "closing" /\ live' = live \ Closes /\ displaced' = displaced
    BY <1>2 DEF SessionStop
  <2>2. live \subseteq Closes \cup displaced
    BY <1>2 DEF SessionStop, LiveInv, Found
  <2>3. DOMAIN slots' = Names
    BY <1>2 DEF SessionStop, LiveInv, Named
  <2> QED
    BY <2>1, <2>2, <2>3 DEF LiveInv, Named, Found, StopClosesAll
<1>3. CASE \E k \in Kinds : ChildEnds(k)
  <2>1. live' \subseteq live /\ UNCHANGED <<link, slots, displaced>>
    BY <1>3 DEF ChildEnds
  <2>2. Closes' = Closes
    BY <2>1 DEF Closes
  <2> QED
    BY <2>1, <2>2 DEF LiveInv, Named, Found, StopClosesAll
<1>4. CASE UNCHANGED <<slots, live, displaced>> /\ (link' = link \/ (link # "closing" /\ link' # "closing"))
  <2>1. Closes' = Closes
    BY <1>4 DEF Closes
  <2> QED
    BY <1>4, <2>1 DEF LiveInv, Named, Found, StopClosesAll
<1>5. CASE MainInit
  BY <1>4, <1>5 DEF MainInit, Handles
<1>6. CASE MainMouseMode \/ AgentConnected
  BY <1>4, <1>6 DEF MainMouseMode, AgentConnected
<1>7. CASE AgentDisconnected \/ AgentToken \/ AgentRequest
  BY <1>4, <1>7 DEF AgentDisconnected, AgentToken, AgentRequest
<1>8. CASE WindowResized \/ ResizeHelper
  BY <1>4, <1>8 DEF WindowResized, ResizeHelper
<1>9. CASE UNCHANGED sessionVars
  BY <1>4, <1>9 DEF sessionVars
<1> QED
  BY <1>1, <1>2, <1>3, <1>5, <1>6, <1>7, <1>8, <1>9 DEF SessionNext

(* After stop no connection is open but one that lost its name to another.  *)
THEOREM StopEndsTheRest == SessionSpec => []StopClosesAll
<1>1. SessionInit => LiveInv
  <2> SUFFICES ASSUME SessionInit PROVE LiveInv
    OBVIOUS
  <2>1. "main" \in Closes /\ live = {"main"} /\ link = "ready"
    BY DEF SessionInit, Closes
  <2>2. DOMAIN slots = Names
    BY DEF SessionInit, Names
  <2> QED
    BY <2>1, <2>2 DEF LiveInv, Named, Found, StopClosesAll
<1>2. LiveInv /\ [SessionNext]_sessionVars => LiveInv'
  BY LiveStep
<1>3. LiveInv => StopClosesAll
  BY DEF LiveInv
<1> QED
  BY <1>1, <1>2, <1>3, PTL DEF SessionSpec
-----------------------------------------------------------------------------
(* The inputs: the guest's modifiers.                                        *)
KeyTypes ==
    /\ held \subseteq ModKeys
    /\ states \subseteq Mods /\ guestMods \subseteq Mods /\ lost \subseteq Mods
(* A modifier is lost by an event, which makes the states known and leaves   *)
(* it true.                                                                  *)
LostAreTrue == IF known THEN clean => lost \subseteq states ELSE lost = {}
KeyInv == KeyTypes /\ LostAreTrue /\ ModifiersTracked

LEMMA ApplyAdds ==
  ASSUME NEW S, NEW m, NEW down \in BOOLEAN, NEW x
  PROVE  x \in Apply(S, m, down) <=> IF x = m THEN down ELSE x \in S
  BY DEF Apply

LEMMA FlagsAreMods ==
  ASSUME NEW keys \in SUBSET ModKeys
  PROVE  Flags(keys) \subseteq Mods
  BY InputsAssumption DEF Flags

(* What a key event leaves in the guest: the flags, for all but Meta, and    *)
(* without a modifier let go on one side only.                               *)
LEMMA KeyEventKeeps ==
  ASSUME KeyInv, NEW m \in Mods \cup {"letter"}, NEW down \in BOOLEAN,
         NEW flags \in SUBSET Mods, m \in Mods /\ down => m \in flags,
         KeyEvent(m, down, flags)
  PROVE  states' \subseteq Mods /\ guestMods' \subseteq Mods /\ lost' \subseteq Mods
         /\ LostAreTrue' /\ ModifiersTracked'
<1> DEFINE tracked == Tracked(m, down, flags)
           synced == Synced(tracked, flags)
<1>1. tracked \subseteq Mods /\ synced \subseteq Mods
  BY DEF Tracked, Apply, KeyInv, KeyTypes, Synced
<1>2. CASE ~inputsReady
  BY <1>1, <1>2, Zenon DEF KeyEvent, KeyInv, KeyTypes, ModifiersTracked, LostAreTrue
<1>3. CASE inputsReady
  <2>1. /\ states' = flags
        /\ guestMods' = IF m \in Mods THEN Apply(synced, m, down) ELSE synced
        /\ clean' = IF known THEN clean ELSE clean /\ guestMods \ {m} = flags \ {m, "Meta"}
        /\ lost' = {x \in Mods \ {"Meta"} : x \in flags /\ (IF x = m THEN ~down ELSE x \in lost)}
    BY <1>3 DEF KeyEvent
  <2>2. guestMods' \subseteq Mods /\ lost' \subseteq Mods
    BY <1>1, <2>1 DEF Apply
  <2>3. ASSUME clean', NEW x \in Mods \ {"Meta"}, x # m
        PROVE  x \in synced <=> x \in flags /\ x \notin lost
    <3>1. CASE known
      <4>1. x \in guestMods <=> x \in states /\ x \notin lost
        BY <2>1, <2>3, <3>1 DEF KeyInv, ModifiersTracked
      <4>2. x \in tracked <=> x \in states
        BY <2>3, <3>1 DEF Tracked, Apply
      <4> HIDE DEF tracked
      <4>3. x \in lost => x \in states
        BY <2>1, <2>3, <3>1 DEF KeyInv, LostAreTrue
      <4> QED
        BY <2>3, <4>1, <4>2, <4>3 DEF Synced
    <3>2. CASE ~known
      <4>1. x \in guestMods <=> x \in flags
        BY <2>1, <2>3, <3>2
      <4>2. x \in tracked <=> x \in flags
        BY <2>3, <3>2 DEF Tracked, Apply
      <4> HIDE DEF tracked
      <4> QED
        BY <2>3, <3>2, <4>1, <4>2 DEF Synced, KeyInv, LostAreTrue
    <3> QED
      BY <3>1, <3>2
  <2>4. ASSUME clean', NEW x \in Mods \ {"Meta"}
        PROVE  x \in guestMods' <=> x \in states' /\ x \notin lost'
    <3>1. CASE x = m
      <4>1. x \in guestMods' <=> down
        BY <2>1, <3>1, <2>4, ApplyAdds
      <4>2. x \in lost' <=> x \in flags /\ ~down
        BY <2>1, <3>1, <2>4
      <4> QED
        BY <2>1, <2>4, <3>1, <4>1, <4>2
    <3>2. CASE x # m
      <4>1. x \in guestMods' <=> x \in synced
        <5> HIDE DEF synced
        <5> QED
          BY <2>1, <2>4, <3>2, ApplyAdds
      <4>2. x \in lost' <=> x \in flags /\ x \in lost
        BY <2>1, <2>4, <3>2
      <4> HIDE DEF synced
      <4> QED
        BY <2>1, <2>3, <2>4, <3>2, <4>1, <4>2
    <3> QED
      BY <3>1, <3>2
  <2>5. clean' => guestMods' \ {"Meta"} = states' \ (lost' \cup {"Meta"})
    BY <2>1, <2>2, <2>4
  <2>6. LostAreTrue'
    BY <2>1 DEF KeyEvent, LostAreTrue
  <2> QED
    BY <2>1, <2>2, <2>5, <2>6 DEF ModifiersTracked
<1> QED
  BY <1>2, <1>3

LEMMA InputsKeyStep ==
  ASSUME KeyInv, [InputsNext]_inputsVars
  PROVE  KeyInv'
<1>1. CASE UNCHANGED <<held, states, known, guestMods, clean, lost>>
  BY <1>1 DEF KeyInv, KeyTypes, LostAreTrue, ModifiersTracked
<1>2. ASSUME NEW k \in ModKeys, NEW down \in BOOLEAN, Key(k, down) PROVE KeyInv'
  <2>1. held' = Apply(held, k, down) /\ held' \subseteq ModKeys
    BY <1>2 DEF Key, Apply, KeyInv, KeyTypes
  <2>2. CASE focused
    <3>1. KeyEvent(k[1], down, Flags(held'))
      BY <1>2, <2>2 DEF Key
    <3>2. k[1] \in Mods /\ (down => k \in held')
      BY <2>1, ApplyAdds, InputsAssumption
    <3>3. Flags(held') \subseteq Mods /\ (down => k[1] \in Flags(held'))
      BY <2>1, <3>2, FlagsAreMods DEF Flags
    <3> QED
      BY <2>1, <3>1, <3>2, <3>3, KeyEventKeeps DEF KeyInv, KeyTypes
  <2>3. CASE ~focused
    BY <1>2, <2>1, <2>3 DEF Key, KeyInv, KeyTypes, LostAreTrue, ModifiersTracked
  <2> QED
    BY <2>2, <2>3
<1>3. ASSUME NEW down \in BOOLEAN, Letter(down) PROVE KeyInv'
  <2>1. KeyEvent("letter", down, Flags(held)) /\ held' = held
    BY <1>3 DEF Letter
  <2>2. "letter" \notin Mods /\ Flags(held) \subseteq Mods
    BY FlagsAreMods DEF Mods, KeyInv, KeyTypes
  <2> QED
    BY <2>1, <2>2, KeyEventKeeps DEF KeyInv, KeyTypes
<1>4. CASE Shortcut
  <2>1. UNCHANGED <<held, states, known, clean>> /\ lost' = lost \ {"Ctrl", "Alt"}
    BY <1>4 DEF Shortcut
  <2>2. guestMods' \subseteq Mods
    BY <1>4 DEF Shortcut, KeyInv, KeyTypes, Mods
  <2>3. ASSUME known, clean PROVE guestMods' \ {"Meta"} = states \ (lost' \cup {"Meta"})
    BY <1>4, <2>1, <2>3 DEF Shortcut, KeyInv, ModifiersTracked
  <2> QED
    BY <2>1, <2>2, <2>3 DEF KeyInv, KeyTypes, LostAreTrue, ModifiersTracked
<1>5. CASE Focus \/ Ready
  BY <1>1, <1>5 DEF Focus, Ready, keyVars
<1>6. CASE MouseNext
  <2>1. CASE ServerAcks \/ MotionAck \/ ModeChanges \/ MouseWheel
    BY <1>1, <2>1 DEF ServerAcks, MotionAck, ModeChanges, MouseWheel, keyVars
  <2>2. ASSUME NEW x \in Positions, MouseMove(x) PROVE KeyInv'
    BY <1>1, <2>2 DEF MouseMove, keyVars
  <2>3. ASSUME NEW b \in Buttons, MouseDown(b) \/ MouseUp(b) PROVE KeyInv'
    BY <1>1, <2>3 DEF MouseDown, MouseUp, keyVars
  <2>4. ASSUME NEW x \in Positions \cup {0}, CursorInit(x) PROVE KeyInv'
    BY <1>1, <2>4 DEF CursorInit, keyVars
  <2>5. ASSUME NEW to \in Scrolls, Scroll(to) PROVE KeyInv'
    BY <1>1, <2>5 DEF Scroll, keyVars
  <2> QED
    BY <1>6, <2>1, <2>2, <2>3, <2>4, <2>5 DEF MouseNext
<1>7. CASE UNCHANGED inputsVars
  BY <1>1, <1>7 DEF inputsVars, keyVars
<1> QED
  BY <1>2, <1>3, <1>4, <1>5, <1>6, <1>7 DEF InputsNext, KeyNext

(* The guest's modifiers are those the page believes it has, whatever keys   *)
(* are pressed, of either side, and wherever the focus goes, but for those   *)
(* let go on one side only.                                                  *)
THEOREM ModifiersAreTracked == InputsSpec => []ModifiersTracked
<1>1. InputsInit => KeyInv
  BY DEF InputsInit, KeyInv, KeyTypes, LostAreTrue, ModifiersTracked, Mods
<1>2. KeyInv /\ [InputsNext]_inputsVars => KeyInv'
  BY InputsKeyStep
<1>3. KeyInv => ModifiersTracked
  BY DEF KeyInv
<1> QED
  BY <1>1, <1>2, <1>3, PTL DEF InputsSpec
-----------------------------------------------------------------------------
(* The inputs: the guest's pointer.                                          *)
PointerTypes ==
    /\ mode \in {"client", "server"} /\ scroll \in Nat
    /\ pointer \in 0..Edge /\ guestX \in 0..Edge /\ mousex \in Int /\ counted \in Nat
(* Both are what the next difference is taken from.                          *)
SamePlace == ~missed => mousex = pointer - counted
PointerInv == PointerTypes /\ SamePlace /\ PointerFollows

LEMMA MovedIsOnScreen ==
  ASSUME NEW x \in Int
  PROVE  Moved(x) \in 0..Edge /\ (x \in 0..Edge => Moved(x) = x)
  BY InputsAssumption DEF Moved

LEMMA PointerStep ==
  ASSUME PointerInv, [InputsNext]_inputsVars
  PROVE  PointerInv'
<1> USE DEF PointerInv, PointerTypes
<1>1. CASE UNCHANGED placeVars /\ mode' \in {"client", "server"} /\ scroll' \in Nat
  BY <1>1 DEF placeVars, SamePlace, PointerFollows
<1>2. ASSUME NEW x \in Positions, MouseMove(x) PROVE PointerInv'
  <2>1. x \in 0..Edge /\ x \in Int /\ Seen(x) \in Int
    BY InputsAssumption DEF Seen
  <2>2. /\ pointer' = x /\ mousex' = Seen(x) /\ mode' = mode /\ scroll' = scroll
        /\ counted' = IF mode = "client" THEN 0 ELSE scroll
    BY <1>2 DEF MouseMove, NewMousex
  <2>3. mousex' = x - counted' /\ mousex' \in Int /\ counted' \in Nat
    BY <2>1, <2>2 DEF Seen
  <2>4. CASE inputsReady /\ waiting_for_ack < 2 * Bunch
    <3>1. /\ guestX' = IF mode = "client" THEN Seen(x) ELSE Moved(guestX + (Seen(x) - mousex))
          /\ missed' = (mode = "server" /\ (missed \/ counted # scroll))
      BY <1>2, <2>4 DEF MouseMove
    <3>2. CASE mode = "client"
      BY <2>1, <2>2, <2>3, <3>1, <3>2 DEF Seen, SamePlace, PointerFollows
    <3>3. CASE mode = "server"
      <4>1. guestX' = Moved(guestX + (Seen(x) - mousex)) /\ guestX + (Seen(x) - mousex) \in Int
        BY <2>1, <3>1, <3>3
      <4>2. guestX' \in 0..Edge
        BY <4>1, MovedIsOnScreen
      <4>3. ASSUME ~missed' PROVE guestX' = x
        <5>1. mousex = pointer - scroll /\ guestX = pointer
          BY <3>1, <3>3, <4>3 DEF SamePlace, PointerFollows
        <5>2. guestX + (Seen(x) - mousex) = x
          BY <2>1, <3>3, <5>1 DEF Seen
        <5> QED
          BY <2>1, <4>1, <5>2, MovedIsOnScreen
      <4> QED
        BY <2>1, <2>2, <2>3, <4>2, <4>3 DEF SamePlace, PointerFollows
    <3> QED
      BY <3>2, <3>3
  <2>5. CASE ~(inputsReady /\ waiting_for_ack < 2 * Bunch)
    BY <1>2, <2>1, <2>2, <2>3, <2>5 DEF MouseMove, SamePlace, PointerFollows
  <2> QED
    BY <2>4, <2>5
<1>3. CASE KeyNext
  <2>1. CASE Focus \/ Shortcut
    BY <1>1, <2>1 DEF Focus, Shortcut, moveVars
  <2>2. ASSUME NEW down \in BOOLEAN, Letter(down) PROVE PointerInv'
    BY <1>1, <2>2 DEF Letter, moveVars
  <2>3. ASSUME NEW k \in ModKeys, NEW down \in BOOLEAN, Key(k, down) PROVE PointerInv'
    BY <1>1, <2>3 DEF Key, moveVars
  <2> QED
    BY <1>3, <2>1, <2>2, <2>3 DEF KeyNext
<1>4. CASE ServerAcks \/ MotionAck \/ ModeChanges \/ MouseWheel
  BY <1>1, <1>4 DEF ServerAcks, MotionAck, ModeChanges, MouseWheel, moveVars
<1>5. ASSUME NEW b \in Buttons, MouseDown(b) \/ MouseUp(b) PROVE PointerInv'
  BY <1>1, <1>5 DEF MouseDown, MouseUp, moveVars
<1>6. CASE Ready \/ UNCHANGED inputsVars
  BY <1>1, <1>6 DEF Ready, inputsVars, moveVars
<1>7. ASSUME NEW x \in Positions \cup {0}, CursorInit(x) PROVE PointerInv'
  BY <1>1, <1>7 DEF CursorInit
<1>8. ASSUME NEW to \in Scrolls, Scroll(to) PROVE PointerInv'
  BY <1>1, <1>8, InputsAssumption DEF Scroll
<1> QED
  BY <1>2, <1>3, <1>4, <1>5, <1>6, <1>7, <1>8 DEF InputsNext, MouseNext

(* The guest's pointer is where the browser's is, in both modes, across      *)
(* changes of the mode and wherever the page is scrolled to, as long as it   *)
(* was told of all of the pointer's way.                                     *)
THEOREM PointersAgree == InputsSpec => []PointerFollows
<1>1. InputsInit => PointerInv
  <2> SUFFICES ASSUME InputsInit PROVE PointerInv
    OBVIOUS
  <2>1. 0 \in 0..Edge /\ guestX \in 0..Edge
    BY InputsAssumption DEF InputsInit
  <2>2. ~missed => guestX = 0
    BY Zenon DEF InputsInit
  <2>3. /\ mode = "server" /\ mousex = 0 /\ pointer = 0 /\ counted = 0 /\ scroll \in Nat
    BY InputsAssumption DEF InputsInit
  <2> QED
    BY <2>1, <2>2, <2>3 DEF PointerInv, PointerTypes, SamePlace, PointerFollows
<1>2. PointerInv /\ [InputsNext]_inputsVars => PointerInv'
  BY PointerStep
<1>3. PointerInv => PointerFollows
  BY DEF PointerInv
<1> QED
  BY <1>1, <1>2, <1>3, PTL DEF InputsSpec
-----------------------------------------------------------------------------
(* The inputs: the motions that wait for an ack.                             *)
FlowInv == motions \in Nat /\ acks \in Nat /\ waiting_for_ack \in Int /\ MotionsFlow

LEMMA OneBunch ==
  ASSUME NEW k \in Nat, NEW n \in Nat
  PROVE  k * (n + 1) = k * n + k /\ k * n \in Nat
  OBVIOUS

LEMMA FlowStep ==
  ASSUME FlowInv, [InputsNext]_inputsVars
  PROVE  FlowInv'
<1>1. CASE UNCHANGED <<motions, acks, waiting_for_ack>>
  BY <1>1 DEF FlowInv, MotionsFlow
<1>2. ASSUME NEW x \in Positions, MouseMove(x) PROVE FlowInv'
  <2>1. CASE motions' = motions + 1 /\ waiting_for_ack' = waiting_for_ack + 1 /\ acks' = acks
    <3>1. Bunch * acks \in Nat
      BY InputsAssumption, OneBunch DEF FlowInv
    <3> QED
      BY <2>1, <3>1 DEF FlowInv, MotionsFlow
  <2> QED
    BY <1>1, <1>2, <2>1 DEF MouseMove
<1>3. CASE ServerAcks
  <2>1. Bunch \in Nat /\ Bunch * (acks + 1) = Bunch * acks + Bunch /\ Bunch * acks \in Nat
    BY InputsAssumption, OneBunch DEF FlowInv
  <2> QED
    BY <1>3, <2>1 DEF ServerAcks, FlowInv, MotionsFlow
<1>4. CASE MotionAck
  <2>1. acks - 1 \in Nat /\ acks = (acks - 1) + 1
    BY <1>4 DEF MotionAck, FlowInv
  <2>2. Bunch \in Nat /\ Bunch * acks = Bunch * (acks - 1) + Bunch /\ Bunch * (acks - 1) \in Nat
    BY <2>1, InputsAssumption, OneBunch
  <2> QED
    BY <1>4, <2>1, <2>2 DEF MotionAck, FlowInv, MotionsFlow
<1>5. CASE KeyNext
  <2>1. CASE Focus \/ Shortcut
    BY <1>1, <2>1 DEF Focus, Shortcut, moveVars
  <2>2. ASSUME NEW down \in BOOLEAN, Letter(down) PROVE FlowInv'
    BY <1>1, <2>2 DEF Letter, moveVars
  <2>3. ASSUME NEW k \in ModKeys, NEW down \in BOOLEAN, Key(k, down) PROVE FlowInv'
    BY <1>1, <2>3 DEF Key, moveVars
  <2> QED
    BY <1>5, <2>1, <2>2, <2>3 DEF KeyNext
<1>6. CASE ModeChanges \/ MouseWheel
  BY <1>1, <1>6 DEF ModeChanges, MouseWheel, moveVars
<1>7. ASSUME NEW b \in Buttons, MouseDown(b) \/ MouseUp(b) PROVE FlowInv'
  BY <1>1, <1>7 DEF MouseDown, MouseUp, moveVars
<1>8. CASE Ready \/ UNCHANGED inputsVars
  BY <1>1, <1>8 DEF Ready, inputsVars, moveVars
<1>9. ASSUME NEW x \in Positions \cup {0}, CursorInit(x) PROVE FlowInv'
  BY <1>1, <1>9 DEF CursorInit
<1>10. ASSUME NEW to \in Scrolls, Scroll(to) PROVE FlowInv'
  BY <1>1, <1>10 DEF Scroll
<1> QED
  BY <1>2, <1>3, <1>4, <1>5, <1>6, <1>7, <1>8, <1>9, <1>10 DEF InputsNext, MouseNext

(* The count of motions that wait is never more than what the server will    *)
(* still ack, however motions and acks cross.                                *)
THEOREM MotionsAreAcked == InputsSpec => []MotionsFlow
<1>1. InputsInit => FlowInv
  BY InputsAssumption DEF InputsInit, FlowInv, MotionsFlow
<1>2. FlowInv /\ [InputsNext]_inputsVars => FlowInv'
  BY FlowStep
<1>3. FlowInv => MotionsFlow
  BY DEF FlowInv
<1> QED
  BY <1>1, <1>2, <1>3, PTL DEF InputsSpec
-----------------------------------------------------------------------------
(* The sound: what the source buffer has and what waits for it.             *)
Pieces == [kind : {"header", "cluster", "block"}, time : Nat]
Sounds == [updating : SUBSET Nat, okay : BOOLEAN, queue : Seq(Pieces),
           made : Seq(Pieces), given : Seq(Pieces), upset : BOOLEAN]
Ordered(b) == b.given \o b.queue = b.made
Moves(b) ==
    /\ b.updating \subseteq {source_buffer}
    /\ b.okay <=> b.updating = {}
    /\ b.queue # <<>> => b.updating # {}
Steady(b) == b.upset \/ (Ordered(b) /\ Moves(b))

LEMMA AppendConcat ==
  ASSUME NEW s \in Seq(Pieces), NEW t \in Seq(Pieces), NEW p \in Pieces
  PROVE  s \o Append(t, p) = Append(s \o t, p)
  BY AppendProperties, ConcatProperties

LEMMA ConcatHead ==
  ASSUME NEW s \in Seq(Pieces), NEW t \in Seq(Pieces), t # <<>>
  PROVE  Append(s, Head(t)) \o Tail(t) = s \o t
  BY AppendProperties, ConcatProperties, HeadTailProperties

LEMMA EmptyRight ==
  ASSUME NEW s \in Seq(Pieces)
  PROVE  s \o <<>> = s
  BY ConcatEmptySeq

(* An idle buffer takes the piece, or there is an upset.                    *)
LEMMA AppendKeeps ==
  ASSUME NEW b \in Sounds, NEW piece \in Pieces, NEW room \in BOOLEAN, source_buffer \in Nat
  PROVE  LET c == Append_buffer(b, piece, room)
         IN  /\ c \in Sounds
             /\ c.queue = b.queue /\ c.made = b.made
             /\ c.upset \/ (/\ c.upset = b.upset /\ c.given = Append(b.given, piece)
                            /\ c.updating = b.updating \cup {source_buffer} /\ ~c.okay)
<1>1. Append(b.given, piece) \in Seq(Pieces)
  BY AppendProperties DEF Sounds
<1>2. CASE source_buffer = NoBuffer \/ source_buffer \in b.updating \/ ~room
  BY <1>2 DEF Append_buffer, Refuse, Sounds
<1>3. CASE ~(source_buffer = NoBuffer \/ source_buffer \in b.updating \/ ~room)
  <2>1. Append_buffer(b, piece, room) =
          [b EXCEPT !.updating = b.updating \cup {source_buffer}, !.okay = FALSE,
                    !.given = Append(b.given, piece)]
    BY <1>3 DEF Append_buffer
  <2> QED
    BY <1>1, <2>1 DEF Sounds
<1> QED
  BY <1>2, <1>3

LEMMA HandKeeps ==
  ASSUME NEW b \in Sounds, NEW piece \in Pieces, NEW room \in BOOLEAN,
         source_buffer \in Nat, Steady(b)
  PROVE  /\ Hand(b, piece, room) \in Sounds /\ Steady(Hand(b, piece, room))
         /\ b.upset => Hand(b, piece, room).upset
<1> DEFINE m == [b EXCEPT !.made = Append(b.made, piece)]
<1>1. Append(b.made, piece) \in Seq(Pieces) /\ Append(b.queue, piece) \in Seq(Pieces)
  BY AppendProperties DEF Sounds
<1>2. m \in Sounds
  BY <1>1 DEF Sounds
<1>3. /\ m.queue = b.queue /\ m.given = b.given /\ m.updating = b.updating
      /\ m.okay = b.okay /\ m.upset = b.upset /\ m.made = Append(b.made, piece)
  BY DEF Sounds
<1>4. b.given \in Seq(Pieces) /\ b.queue \in Seq(Pieces) /\ b.made \in Seq(Pieces)
  BY DEF Sounds
<1>5. CASE b.okay
  <2> DEFINE c == Append_buffer(m, piece, room)
  <2>1. Hand(b, piece, room) = c
    BY <1>5 DEF Hand
  <2> HIDE DEF m
  <2>2. /\ c \in Sounds /\ c.queue = m.queue /\ c.made = m.made
        /\ c.upset \/ (/\ c.upset = m.upset /\ c.given = Append(m.given, piece)
                       /\ c.updating = m.updating \cup {source_buffer} /\ ~c.okay)
    BY <1>2, AppendKeeps
  <2> HIDE DEF c
  <2>3. ASSUME ~c.upset PROVE Ordered(c) /\ Moves(c)
    <3>1. ~b.upset
      BY <1>3, <2>2, <2>3
    <3>2. Ordered(b) /\ b.updating = {} /\ b.queue = <<>>
      BY <1>5, <3>1 DEF Steady, Moves
    <3>3. b.given = b.made
      BY <1>4, <3>2, EmptyRight DEF Ordered
    <3>4. c.given = c.made /\ c.queue = <<>>
      BY <1>3, <2>2, <2>3, <3>2, <3>3
    <3>5. c.made \in Seq(Pieces)
      BY <2>2 DEF Sounds
    <3>6. Ordered(c)
      BY <3>4, <3>5, EmptyRight DEF Ordered
    <3>7. c.updating = {source_buffer} /\ ~c.okay
      BY <1>3, <2>2, <2>3, <3>2
    <3> QED
      BY <3>4, <3>6, <3>7 DEF Moves
  <2>4. b.upset => c.upset
    BY <1>3, <2>2
  <2> QED
    BY <2>1, <2>2, <2>3, <2>4 DEF Steady
<1>6. CASE ~b.okay
  <2> DEFINE c == [m EXCEPT !.queue = Append(b.queue, piece)]
  <2>1. Hand(b, piece, room) = c
    BY <1>3, <1>6 DEF Hand
  <2> HIDE DEF m
  <2>2. c \in Sounds /\ c.queue = Append(b.queue, piece) /\ c.given = b.given
        /\ c.made = Append(b.made, piece) /\ c.updating = b.updating /\ c.okay = b.okay
        /\ c.upset = b.upset
    BY <1>1, <1>2, <1>3 DEF Sounds
  <2> HIDE DEF c
  <2>3. ASSUME ~c.upset PROVE Ordered(c) /\ Moves(c)
    <3>1. Ordered(b) /\ b.updating # {} /\ b.updating \subseteq {source_buffer}
      BY <1>6, <2>2, <2>3 DEF Steady, Moves
    <3>2. Ordered(c)
      BY <1>4, <2>2, <3>1, AppendConcat DEF Ordered
    <3> QED
      BY <1>6, <2>2, <3>1, <3>2 DEF Moves
  <2> QED
    BY <2>1, <2>2, <2>3 DEF Steady
<1> QED
  BY <1>5, <1>6

(* The header is appended by itself, the first pieces wait behind it.        *)
LEMMA StartKeeps ==
  ASSUME NEW b \in Sounds, NEW room \in BOOLEAN, source_buffer \in Nat,
         b.upset \/ (b.queue = <<>> /\ b.given = <<>> /\ b.made = <<>> /\ b.updating = {})
  PROVE  StartPlayback(b, room) \in Sounds /\ Steady(StartPlayback(b, room))
<1> DEFINE m == [b EXCEPT !.made = Append(b.made, Header)]
           c == Append_buffer(m, Header, room)
<1>1. Header \in Pieces
  BY DEF Header, Pieces
<1>2. Append(b.made, Header) \in Seq(Pieces)
  BY <1>1, AppendProperties DEF Sounds
<1>3. m \in Sounds /\ m.queue = b.queue /\ m.given = b.given /\ m.updating = b.updating
      /\ m.upset = b.upset /\ m.made = Append(b.made, Header)
  BY <1>2 DEF Sounds
<1>4. StartPlayback(b, room) = c
  BY DEF StartPlayback
<1> HIDE DEF m
<1>5. /\ c \in Sounds /\ c.queue = m.queue /\ c.made = m.made
      /\ c.upset \/ (/\ c.upset = m.upset /\ c.given = Append(m.given, Header)
                     /\ c.updating = m.updating \cup {source_buffer} /\ ~c.okay)
  BY <1>1, <1>3, AppendKeeps
<1> HIDE DEF c
<1>6. ASSUME ~c.upset PROVE Ordered(c) /\ Moves(c)
  <2>1. c.given = c.made /\ c.queue = <<>> /\ c.updating = {source_buffer} /\ ~c.okay
    BY <1>3, <1>5, <1>6
  <2>2. c.made \in Seq(Pieces)
    BY <1>5 DEF Sounds
  <2> QED
    BY <2>1, <2>2, EmptyRight DEF Ordered, Moves
<1> QED
  BY <1>4, <1>5, <1>6 DEF Steady

LEMMA NewClusterKeeps ==
  ASSUME NEW b \in Sounds, NEW t \in Nat, NEW room \in BOOLEAN, source_buffer \in Nat, Steady(b)
  PROVE  /\ NewCluster(b, t, room) \in Sounds /\ Steady(NewCluster(b, t, room))
         /\ b.upset => NewCluster(b, t, room).upset
<1>1. Cluster(t) \in Pieces /\ Block(t) \in Pieces
  BY DEF Cluster, Block, Pieces
<1>2. /\ Hand(b, Cluster(t), room) \in Sounds /\ Steady(Hand(b, Cluster(t), room))
      /\ b.upset => Hand(b, Cluster(t), room).upset
  BY <1>1, HandKeeps
<1> QED
  BY <1>1, <1>2, HandKeeps DEF NewCluster

(* The next updateend takes the first of the queue, or leaves it free.       *)
LEMMA DoneKeeps ==
  ASSUME NEW b \in Sounds, NEW room \in BOOLEAN, source_buffer \in Nat,
         b.upset \/ (Ordered(b) /\ b.updating = {} /\ ~b.okay)
  PROVE  Done(b, room) \in Sounds /\ Steady(Done(b, room))
<1>1. b.queue \in Seq(Pieces) /\ b.given \in Seq(Pieces)
  BY DEF Sounds
<1>2. CASE b.queue = <<>>
  <2>1. Done(b, room) = [b EXCEPT !.okay = TRUE]
    BY <1>2 DEF Done
  <2> QED
    BY <1>2, <2>1 DEF Sounds, Steady, Ordered, Moves
<1>3. CASE b.queue # <<>>
  <2> DEFINE m == [b EXCEPT !.queue = Tail(b.queue)]
             c == Append_buffer(m, Head(b.queue), room)
  <2>1. Head(b.queue) \in Pieces /\ Tail(b.queue) \in Seq(Pieces)
    BY <1>1, <1>3, HeadTailProperties
  <2>2. m \in Sounds /\ m.queue = Tail(b.queue) /\ m.given = b.given /\ m.made = b.made
        /\ m.updating = b.updating /\ m.upset = b.upset
    BY <2>1 DEF Sounds
  <2>3. Done(b, room) = c
    BY <1>3 DEF Done
  <2> HIDE DEF m
  <2>4. /\ c \in Sounds /\ c.queue = m.queue /\ c.made = m.made
        /\ c.upset \/ (/\ c.upset = m.upset /\ c.given = Append(m.given, Head(b.queue))
                       /\ c.updating = m.updating \cup {source_buffer} /\ ~c.okay)
    BY <2>1, <2>2, AppendKeeps
  <2> HIDE DEF c
  <2>5. ASSUME ~c.upset PROVE Ordered(c) /\ Moves(c)
    <3>1. Ordered(b) /\ b.updating = {}
      BY <2>2, <2>4, <2>5
    <3>2. c.given \o c.queue = c.made
      BY <1>1, <1>3, <2>2, <2>4, <2>5, <3>1, ConcatHead DEF Ordered
    <3> QED
      BY <2>2, <2>4, <2>5, <3>1, <3>2 DEF Ordered, Moves
  <2> QED
    BY <2>3, <2>4, <2>5 DEF Steady
<1> QED
  BY <1>2, <1>3

SoundTypes ==
    /\ sources \in Nat /\ source_buffer \in Nat
    /\ opening \subseteq Nat \ {NoBuffer}
    /\ start_time \in Nat /\ last_data_time \in Nat
Silent == updating = {} /\ ~append_okay /\ queue = <<>> /\ given = <<>> /\ made = <<>>
SoundInv ==
    /\ SoundTypes /\ Sound \in Sounds
    /\ ~upset /\ start_time = 0 => Silent
    /\ ~upset /\ start_time > 0 => source_buffer # NoBuffer /\ listened = source_buffer /\ Steady(Sound)

(* What a sound that became b has.                                           *)
LEMMA Became ==
  ASSUME NEW b \in Sounds, BecomeSound(b)
  PROVE  Sound' = b /\ (upset' <=> b.upset)
  BY DEF BecomeSound, Sound, Sounds

LEMMA SteadyInNext ==
  ASSUME NEW b \in Sounds, Steady(b), Sound' = b, source_buffer' = source_buffer
  PROVE  Steady(Sound)'
  BY DEF Steady, Ordered, Moves

LEMMA DataStep ==
  ASSUME SoundInv, NEW sent \in 1..MaxTime, NEW room \in BOOLEAN, PlaybackData(sent, room)
  PROVE  SoundInv'
<1> DEFINE t == IF sent <= last_data_time THEN last_data_time + 1 ELSE sent
<1>1. t \in Nat /\ t > 0 /\ sources' = sources /\ opening' = opening /\ source_buffer' = source_buffer
  BY PlaybackAssumption DEF PlaybackData, SoundInv, SoundTypes
<1>2. CASE UNCHANGED <<start_time, listened, bufferVars>> /\ last_data_time' \in {t, last_data_time}
  <2>1. SoundTypes'
    BY <1>1, <1>2 DEF SoundInv, SoundTypes
  <2>2. Sound' = Sound /\ UNCHANGED <<upset, updating, append_okay, queue, given, made>>
    BY <1>2 DEF bufferVars, Sound
  <2>3. Sound \in Sounds /\ (Steady(Sound) => Steady(Sound)')
    BY <1>1, <2>2, SteadyInNext DEF SoundInv
  <2>4. Silent' <=> Silent
    BY <2>2 DEF Silent
  <2> QED
    BY <1>1, <1>2, <2>1, <2>2, <2>3, <2>4 DEF SoundInv
<1>3. CASE source_buffer # NoBuffer /\ last_data_time' = t /\ start_time = 0 /\ start_time' = t
           /\ listened' = source_buffer /\ BecomeSound(NewCluster(StartPlayback(Sound, room), t, room))
  <2>1. Sound \in Sounds /\ source_buffer \in Nat
    BY DEF SoundInv, SoundTypes
  <2>2. Sound.upset \/ (Sound.queue = <<>> /\ Sound.given = <<>> /\ Sound.made = <<>> /\ Sound.updating = {})
    BY <1>3 DEF SoundInv, Silent, Sound
  <2> DEFINE b == NewCluster(StartPlayback(Sound, room), t, room)
  <2>3. b \in Sounds /\ Steady(b)
    <3> HIDE DEF t
    <3> QED
      BY <1>1, <2>1, <2>2, StartKeeps, NewClusterKeeps
  <2> HIDE DEF b
  <2>4. Sound' = b
    BY <1>3, <2>3, Became DEF b
  <2>5. Steady(Sound)'
    BY <1>1, <2>3, <2>4, SteadyInNext
  <2> QED
    BY <1>1, <1>3, <2>3, <2>4, <2>5 DEF SoundInv, SoundTypes
<1>4. CASE last_data_time' = t /\ start_time # 0 /\ UNCHANGED <<start_time, listened>>
           /\ (BecomeSound(NewCluster(Sound, t, room)) \/ BecomeSound(Hand(Sound, Block(t), room)))
  <2>1. Sound \in Sounds /\ source_buffer \in Nat /\ start_time > 0
    BY <1>4 DEF SoundInv, SoundTypes
  <2>2. Sound.upset <=> upset
    BY DEF Sound
  <2>3. Steady(Sound)
    BY <2>1, <2>2 DEF SoundInv, Steady
  <2>4. PICK b \in Sounds : Steady(b) /\ BecomeSound(b) /\ (upset => b.upset)
    <3> HIDE DEF t
    <3>1. /\ NewCluster(Sound, t, room) \in Sounds /\ Steady(NewCluster(Sound, t, room))
          /\ upset => NewCluster(Sound, t, room).upset
      BY <1>1, <2>1, <2>2, <2>3, NewClusterKeeps
    <3>2. Block(t) \in Pieces
      BY <1>1 DEF Block, Pieces
    <3>3. /\ Hand(Sound, Block(t), room) \in Sounds /\ Steady(Hand(Sound, Block(t), room))
          /\ upset => Hand(Sound, Block(t), room).upset
      BY <2>1, <2>2, <2>3, <3>2, HandKeeps
    <3> QED
      BY <1>4, <3>1, <3>3
  <2>5. Sound' = b /\ (upset' <=> b.upset)
    BY <2>4, Became
  <2>6. Steady(Sound)'
    BY <1>1, <2>4, <2>5, SteadyInNext
  <2>7. ~upset' => ~upset
    BY <2>4, <2>5
  <2> QED
    BY <1>1, <1>4, <2>1, <2>4, <2>5, <2>6, <2>7 DEF SoundInv, SoundTypes
<1> QED
  BY <1>1, <1>2, <1>3, <1>4 DEF PlaybackData

LEMMA UpdateendStep ==
  ASSUME SoundInv, NEW s \in updating, NEW room \in BOOLEAN, Updateend(s, room)
  PROVE  SoundInv'
<1> DEFINE b == [Sound EXCEPT !.updating = Sound.updating \ {s}]
           d == IF s = listened THEN Done(b, room) ELSE b
<1>1. /\ UNCHANGED <<sources, opening, source_buffer, listened, start_time, last_data_time>>
      /\ Sound' = [updating |-> d.updating, okay |-> d.okay, queue |-> d.queue,
                   made |-> d.made, given |-> d.given, upset |-> d.upset]
      /\ upset' = d.upset
  BY DEF Updateend, timeVars, Sound
<1>2. b \in Sounds /\ b.upset = upset /\ b.updating = updating \ {s} /\ b.queue = queue
      /\ b.given = given /\ b.made = made /\ b.okay = append_okay
  BY DEF SoundInv, Sound, Sounds
<1>3. source_buffer \in Nat /\ start_time \in Nat
  BY DEF SoundInv, SoundTypes
<1>4. ASSUME ~upset
      PROVE  start_time > 0 /\ source_buffer # NoBuffer /\ listened = source_buffer
             /\ s = listened /\ Ordered(b) /\ b.updating = {} /\ ~b.okay
  <2>1. start_time > 0
    BY <1>3, <1>4 DEF SoundInv, Silent
  <2>2. source_buffer # NoBuffer /\ listened = source_buffer /\ Steady(Sound)
    BY <1>4, <2>1 DEF SoundInv
  <2>3. Ordered(Sound) /\ Moves(Sound)
    BY <1>4, <2>2 DEF Steady, Sound
  <2>4. updating \subseteq {source_buffer} /\ ~append_okay /\ given \o queue = made
    BY <2>3 DEF Moves, Ordered, Sound
  <2> HIDE DEF b
  <2> QED
    BY <1>2, <2>1, <2>2, <2>4 DEF Ordered
<1> HIDE DEF b
<1>5. Done(b, room) \in Sounds /\ Steady(Done(b, room))
  BY <1>2, <1>3, <1>4, DoneKeeps
<1>6. d \in Sounds
  BY <1>2, <1>5
<1>7. ~upset => Steady(d)
  BY <1>4, <1>5
<1>8. upset => d.upset
  <2>1. CASE s = listened /\ b.queue = <<>>
    BY <1>2, <2>1 DEF Done, Sounds
  <2>2. CASE s = listened /\ b.queue # <<>>
    <3>1. Head(b.queue) \in Pieces /\ [b EXCEPT !.queue = Tail(b.queue)] \in Sounds
          /\ [b EXCEPT !.queue = Tail(b.queue)].upset = b.upset
      BY <1>2, <2>2, HeadTailProperties DEF Sounds
    <3>2. d = Append_buffer([b EXCEPT !.queue = Tail(b.queue)], Head(b.queue), room)
      BY <2>2 DEF Done
    <3> HIDE DEF d
    <3> QED
      BY <1>2, <1>3, <3>1, <3>2, AppendKeeps
  <2>3. CASE s # listened
    BY <1>2, <2>3
  <2> QED
    BY <2>1, <2>2, <2>3
<1> HIDE DEF d
<1>9. Sound' = d
  BY <1>1, <1>6 DEF Sounds
<1>10. ~upset' => ~upset
  BY <1>1, <1>8
<1>11. ~upset => Steady(Sound)'
  BY <1>1, <1>6, <1>7, <1>9, SteadyInNext
<1>12. SoundTypes'
  BY <1>1 DEF SoundInv, SoundTypes
<1> QED
  BY <1>1, <1>3, <1>4, <1>6, <1>9, <1>10, <1>11, <1>12 DEF SoundInv

LEMMA SoundStep ==
  ASSUME SoundInv, [PlaybackNext]_playbackVars
  PROVE  SoundInv'
<1>1. ASSUME Sound' = Sound, UNCHANGED <<upset, updating, append_okay, queue, given, made>>,
             UNCHANGED <<source_buffer, listened, start_time>>, SoundTypes'
      PROVE  SoundInv'
  <2>1. Sound \in Sounds /\ (Steady(Sound) => Steady(Sound)')
    BY <1>1, SteadyInNext DEF SoundInv
  <2>2. Silent' <=> Silent
    BY <1>1 DEF Silent
  <2> QED
    BY <1>1, <2>1, <2>2 DEF SoundInv
<1>2. CASE PlaybackStart
  <2>1. SoundTypes'
    BY <1>2 DEF PlaybackStart, timeVars, SoundInv, SoundTypes, NoBuffer
  <2> QED
    BY <1>1, <1>2, <2>1 DEF PlaybackStart, timeVars, bufferVars, Sound
<1>3. CASE PlaybackMode
  <2>1. SoundTypes' /\ upset'
    BY <1>3 DEF PlaybackMode, timeVars, SoundInv, SoundTypes, NoBuffer
  <2> DEFINE loud == [updating |-> updating, okay |-> append_okay, queue |-> queue,
                      made |-> made, given |-> given, upset |-> TRUE]
  <2>2. Sound' = loud
    <3>1. /\ updating' = updating /\ append_okay' = append_okay /\ queue' = queue
          /\ made' = made /\ given' = given
      BY <1>3 DEF PlaybackMode
    <3>2. upset' = TRUE
      BY <1>3 DEF PlaybackMode
    <3> QED
      BY <3>1, <3>2, Zenon DEF Sound
  <2>3. loud \in Sounds
    BY DEF SoundInv, Sound, Sounds
  <2>4. Sound' \in Sounds
    BY <2>2, <2>3
  <2> QED
    BY <2>1, <2>4 DEF SoundInv
<1>4. ASSUME NEW s \in opening, SourceOpen(s) PROVE SoundInv'
  <2>1. SoundTypes'
    BY <1>4 DEF SourceOpen, timeVars, SoundInv, SoundTypes
  <2>2. Sound' = Sound /\ UNCHANGED <<upset, updating, append_okay, queue, given, made, listened, start_time>>
    BY <1>4 DEF SourceOpen, timeVars, Sound
  <2>3. CASE source_buffer # NoBuffer
    BY <1>1, <1>4, <2>1, <2>2, <2>3 DEF SourceOpen
  <2>4. CASE source_buffer = NoBuffer
    <3>1. ~upset => start_time = 0
      BY <2>4 DEF SoundInv, SoundTypes
    <3>2. Silent' <=> Silent
      BY <2>2 DEF Silent
    <3> QED
      BY <2>1, <2>2, <3>1, <3>2 DEF SoundInv
  <2> QED
    BY <2>3, <2>4
<1>5. ASSUME NEW sent \in 1..MaxTime, NEW room \in BOOLEAN, PlaybackData(sent, room) PROVE SoundInv'
  BY <1>5, DataStep
<1>6. ASSUME NEW s \in updating, NEW room \in BOOLEAN, Updateend(s, room) PROVE SoundInv'
  BY <1>6, UpdateendStep
<1>7. CASE UNCHANGED playbackVars
  <2>1. SoundTypes'
    BY <1>7 DEF playbackVars, timeVars, SoundInv, SoundTypes
  <2> QED
    BY <1>1, <1>7, <2>1 DEF playbackVars, timeVars, bufferVars, Sound
<1> QED
  BY <1>2, <1>3, <1>4, <1>5, <1>6, <1>7 DEF PlaybackNext

LEMMA SoundStarts == PlaybackInit => SoundInv
<1> SUFFICES ASSUME PlaybackInit PROVE SoundInv
  OBVIOUS
<1>1. append_okay \in BOOLEAN /\ upset \in BOOLEAN /\ ~append_okay
  BY Zenon DEF PlaybackInit
<1>2. Silent
  BY <1>1 DEF PlaybackInit, Silent
<1>3. Sound \in Sounds
  BY <1>1 DEF PlaybackInit, Sound, Sounds
<1> QED
  BY <1>2, <1>3 DEF PlaybackInit, SoundInv, SoundTypes, NoBuffer

(* Between the packets and the source buffer no piece of sound is lost and   *)
(* none overtakes another, unless the buffer refused one or was deleted.     *)
THEOREM SoundInOrder == PlaybackSpec => []PiecesInOrder
<1>1. PlaybackInit => SoundInv
  BY SoundStarts
<1>2. SoundInv /\ [PlaybackNext]_playbackVars => SoundInv'
  BY SoundStep
<1>3. SoundInv => PiecesInOrder
  <2> SUFFICES ASSUME SoundInv, ~upset PROVE given \o queue = made
    BY DEF PiecesInOrder
  <2>1. CASE start_time = 0
    <3>1. given = <<>> /\ queue = <<>> /\ made = <<>>
      BY <2>1 DEF SoundInv, Silent
    <3>2. <<>> \o <<>> = <<>>
      BY ConcatEmptySeq
    <3> QED
      BY <3>1, <3>2
  <2>2. CASE start_time > 0
    BY <2>2 DEF SoundInv, Steady, Ordered, Sound
  <2> QED
    BY <2>1, <2>2 DEF SoundInv, SoundTypes
<1> QED
  BY <1>1, <1>2, <1>3, PTL DEF PlaybackSpec

(* What waits for the source buffer is moved by an updateend that is still   *)
(* to come, and append_okay says whether one is.                             *)
THEOREM QueueKeepsMoving == PlaybackSpec => []QueueMoves
<1>1. PlaybackInit => SoundInv
  BY SoundStarts
<1>2. SoundInv /\ [PlaybackNext]_playbackVars => SoundInv'
  BY SoundStep
<1>3. SoundInv => QueueMoves
  BY DEF SoundInv, QueueMoves, Steady, Moves, Sound
<1> QED
  BY <1>1, <1>2, <1>3, PTL DEF PlaybackSpec
-----------------------------------------------------------------------------
(* The numbers: four bytes that were read are written back as they came.     *)
Octet(b) == b \in Int /\ 0 <= b /\ b < 256
Half(n) == n \in Int /\ 0 <= n /\ n < 65536

LEMMA OctetsInHalf ==
  ASSUME NEW high, NEW low, Octet(high), Octet(low), NEW n, n = high * 256 + low
  PROVE  Half(n) /\ n % 256 = low /\ (n % 65536) \div 256 = high
<1>1. Half(n)
  BY SMT DEF Octet, Half
<1>2. n % 256 = low /\ n \div 256 = high
  BY SMT DEF Octet
<1>3. n % 65536 = n
  BY <1>1, SMT DEF Half
<1> QED
  BY <1>1, <1>2, <1>3, SMT

LEMMA TwoBytes ==
  ASSUME NEW b1, NEW b2, Octet(b1), Octet(b2), NEW little \in BOOLEAN
  PROVE  LET n == getUint16(<<b1, b2>>, little)
         IN  Half(n) /\ setUint16(n, little) = <<b1, b2>>
<1> DEFINE n == getUint16(<<b1, b2>>, little)
<1>1. n = IF little THEN b2 * 256 + b1 ELSE b1 * 256 + b2
  BY SMT DEF getUint16
<1> HIDE DEF n
<1>2. CASE little
  <2>1. n = b2 * 256 + b1
    BY <1>1, <1>2, SMT
  <2>2. Half(n) /\ n % 256 = b1 /\ (n % 65536) \div 256 = b2
    BY <2>1, OctetsInHalf, SMT
  <2>3. setUint16(n, little) = <<b1, b2>>
    BY <1>2, <2>2, SMT DEF setUint16
  <2> QED
    BY <2>2, <2>3, SMT DEF n
<1>3. CASE ~little
  <2>1. n = b1 * 256 + b2
    BY <1>1, <1>3, SMT
  <2>2. Half(n) /\ n % 256 = b2 /\ (n % 65536) \div 256 = b1
    BY <2>1, OctetsInHalf, SMT
  <2>3. setUint16(n, little) = <<b1, b2>>
    BY <1>3, <2>2, SMT DEF setUint16
  <2> QED
    BY <2>2, <2>3, SMT DEF n
<1> QED
  BY <1>2, <1>3, SMT

(* The sign: a number of 32 bits comes apart into the halves it was made of. *)
LEMMA Halves ==
  ASSUME NEW high, NEW low, Half(high), Half(low), NEW little \in BOOLEAN
  PROVE  LET w == Signed32(high, low)
         IN  w % 65536 = low /\ setUint16(w \div 65536, little) = setUint16(high, little)
<1>1. ASSUME NEW n \in Int
      PROVE  (n * 65536 + low) % 65536 = low /\ (n * 65536 + low) \div 65536 = n
  BY SMT DEF Half
<1>2. CASE high < 32768
  <2>1. Signed32(high, low) = high * 65536 + low /\ high \in Int
    BY <1>2, SMT DEF Signed32, Half
  <2> QED
    BY <1>1, <2>1, SMT
<1>3. CASE ~(high < 32768)
  <2>1. Signed32(high, low) = (high - 65536) * 65536 + low /\ high - 65536 \in Int
    BY <1>3, SMT DEF Signed32, Half
  <2>2. Signed32(high, low) % 65536 = low /\ Signed32(high, low) \div 65536 = high - 65536
    BY <1>1, <2>1, SMT
  <2>3. (high - 65536) % 65536 = high % 65536 /\ (high - 65536) % 256 = high % 256
    BY SMT DEF Half
  <2> QED
    BY <2>2, <2>3, SMT DEF setUint16
<1> QED
  BY <1>2, <1>3, SMT

LEMMA EchoKeeps ==
  ASSUME NEW b \in [1..4 -> Int], \A i \in 1..4 : Octet(b[i]), NEW little \in BOOLEAN
  PROVE  setUint32(getUint32(b, little), little) = b
<1> DEFINE first == getUint16(<<b[1], b[2]>>, little)
           second == getUint16(<<b[3], b[4]>>, little)
<1>1. Octet(b[1]) /\ Octet(b[2]) /\ Octet(b[3]) /\ Octet(b[4])
  BY SMT
<1>2. Half(first) /\ setUint16(first, little) = <<b[1], b[2]>>
  BY <1>1, TwoBytes, SMT
<1>3. Half(second) /\ setUint16(second, little) = <<b[3], b[4]>>
  BY <1>1, TwoBytes, SMT
<1>4. getUint32(b, little) = IF little THEN Signed32(second, first) ELSE Signed32(first, second)
  BY SMT DEF getUint32
<1>5. b = <<b[1], b[2]>> \o <<b[3], b[4]>>
  BY SMT
<1> DEFINE w == getUint32(b, little)
<1> HIDE DEF first, second
<1>6. CASE little
  <2>1. w % 65536 = first /\ setUint16(w \div 65536, little) = setUint16(second, little)
    <3>1. w = Signed32(second, first)
      BY <1>4, <1>6, SMT
    <3> HIDE DEF w
    <3> QED
      BY <1>2, <1>3, <3>1, Halves, SMT
  <2> HIDE DEF w
  <2>2. setUint16(w % 65536, little) = <<b[1], b[2]>>
    BY <1>2, <1>3, <2>1, SMT
  <2>3. setUint16(w \div 65536, little) = <<b[3], b[4]>>
    BY <1>2, <1>3, <2>1, SMT
  <2> DEFINE p == setUint16(w % 65536, little)
             q == setUint16(w \div 65536, little)
  <2>4. setUint32(w, little) = p \o q
    <3>1. setUint32(w, little) = Joined(q, p, little)
      BY ONLY SMT DEF setUint32, p, q
    <3> HIDE DEF p, q
    <3> QED
      BY ONLY <1>6, <3>1, Zenon DEF Joined
  <2> HIDE DEF p, q
  <2>5. p \o q = <<b[1], b[2]>> \o <<b[3], b[4]>>
    <3>1. p = <<b[1], b[2]>> /\ q = <<b[3], b[4]>>
      BY <2>2, <2>3, SMT DEF p, q
    <3> QED
      BY ONLY <3>1, Zenon
  <2>6. setUint32(w, little) = b
    BY ONLY <1>5, <2>4, <2>5, Zenon
  <2> QED
    BY ONLY <2>6, Zenon DEF w
<1>7. CASE ~little
  <2>1. w % 65536 = second /\ setUint16(w \div 65536, little) = setUint16(first, little)
    <3>1. w = Signed32(first, second)
      BY <1>4, <1>7, SMT
    <3> HIDE DEF w
    <3> QED
      BY <1>2, <1>3, <3>1, Halves, SMT
  <2> HIDE DEF w
  <2>2. setUint16(w % 65536, little) = <<b[3], b[4]>>
    BY <1>2, <1>3, <2>1, SMT
  <2>3. setUint16(w \div 65536, little) = <<b[1], b[2]>>
    BY <1>2, <1>3, <2>1, SMT
  <2> DEFINE p == setUint16(w % 65536, little)
             q == setUint16(w \div 65536, little)
  <2>4. setUint32(w, little) = q \o p
    <3>1. setUint32(w, little) = Joined(q, p, little)
      BY ONLY SMT DEF setUint32, p, q
    <3> HIDE DEF p, q
    <3> QED
      BY ONLY <1>7, <3>1, Zenon DEF Joined
  <2> HIDE DEF p, q
  <2>5. q \o p = <<b[1], b[2]>> \o <<b[3], b[4]>>
    <3>1. q = <<b[1], b[2]>> /\ p = <<b[3], b[4]>>
      BY <2>2, <2>3, SMT DEF p, q
    <3> QED
      BY ONLY <3>1, Zenon
  <2>6. setUint32(w, little) = b
    BY ONLY <1>5, <2>4, <2>5, Zenon
  <2> QED
    BY ONLY <2>6, Zenon DEF w
<1> QED
  BY <1>6, <1>7, SMT

(* Every connection id goes back to the server with the bytes it came with.  *)
THEOREM NumbersComeBack == WireSpec => []NumbersSurvive
<1>1. WireInit => NumbersSurvive
  BY DEF WireInit, WireIdle, NoNumber, NumbersSurvive
<1>2. NumbersSurvive /\ [WireNext]_wireVars => NumbersSurvive'
  <2> SUFFICES ASSUME NumbersSurvive, [WireNext]_wireVars PROVE NumbersSurvive'
    OBVIOUS
  <2>1. CASE UNCHANGED number
    BY <2>1 DEF NumbersSurvive
  <2>2. ASSUME NEW b \in [1..4 -> Bytes], NEW little \in BOOLEAN, Echo(b, little) PROVE NumbersSurvive'
    <3>1. \A n \in Bytes : Octet(n)
      BY WireAssumption, SMT DEF Octet
    <3>2. b \in [1..4 -> Int] /\ \A i \in 1..4 : Octet(b[i])
      BY <3>1, SMT DEF Octet
    <3> QED
      BY <2>2, <3>2, EchoKeeps, SMT DEF Echo, NumbersSurvive
  <2>3. CASE WriteField \/ UNCHANGED wireVars
    BY <2>1, <2>3 DEF WriteField, wireVars
  <2>4. ASSUME NEW layout \in Written, BeginWriting(layout) PROVE NumbersSurvive'
    BY <2>1, <2>4 DEF BeginWriting
  <2>5. ASSUME NEW m \in Received, Receive(m) PROVE NumbersSurvive'
    BY <2>1, <2>5 DEF Receive
  <2>6. ASSUME NEW picture \in Pictures, Unpack(picture) PROVE NumbersSurvive'
    BY <2>1, <2>6 DEF Unpack
  <2>7. ASSUME NEW n \in 1..5, NEW data \in [1..n -> Bytes], Base64(data) PROVE NumbersSurvive'
    BY <2>1, <2>7 DEF Base64
  <2> QED
    BY <2>2, <2>3, <2>4, <2>5, <2>6, <2>7 DEF WireNext
<1> QED
  BY <1>1, <1>2, PTL DEF WireSpec

(***************************************************************************)
(* The display: what the pictures and the page show.                       *)
(***************************************************************************)

Jpegs == [surface : Surfaces, canvas : Canvases, image : Images,
          sheer : BOOLEAN, plain : BOOLEAN, cacheMe : BOOLEAN, last : BOOLEAN]
DisplayTypes ==
    /\ surfaces \in [Surfaces -> Canvases \cup {NoCanvas}]
    /\ primary_surface \in Surfaces \cup {NoSurface}
    /\ stream \in Surfaces \cup {NoSurface}
    /\ paint \in [Canvases -> {"blank", "sheer", "solid"}]
    /\ pending \subseteq Jpegs
    /\ serverCache \in [Images -> {"out", "whole", "flat", "lost"}]
    /\ DOMAIN cache = {"made", "of"}

(* No two surfaces have the same canvas, and a canvas that a JPEG is decoded *)
(* for is no other surface's.                                                *)
CanvasesApart ==
    /\ \A s, t \in Surfaces : surfaces[s] = surfaces[t] /\ surfaces[s] # NoCanvas => s = t
    /\ \A s \in Surfaces, p \in pending : surfaces[s] = p.canvas => s = p.surface

(* What the server may expect of an image is in the cache under its key.     *)
CacheAgrees ==
    \A id \in Images :
        /\ serverCache[id] = "whole" =>
             getUint64(id) \in DOMAIN cache.of /\ cache.of[getUint64(id)] = Picture(id, "own")
        /\ serverCache[id] = "flat" =>
             /\ getUint64(id) \in DOMAIN cache.of
             /\ cache.of[getUint64(id)] \in {Picture(id, "own"), Picture(id, "none")}

(* A canvas that is not in doubt shows the last picture or will: the JPEG    *)
(* that is the last will be drawn as it was sent, with alpha only onto what  *)
(* is blank and stays so.                                                    *)
Good(p) ==
    p.plain /\ (p.sheer => paint[p.canvas] = "blank" /\ \A q \in pending : q.canvas = p.canvas => q = p)
Firm(c) ==
    c \notin doubt =>
        /\ \A p \in pending : p.canvas = c /\ p.last => Good(p)
        /\ (\A p \in pending : p.canvas = c => ~p.last) => c \in right
PicturesInv == ~ended => \A s \in Surfaces : surfaces[s] # NoCanvas => Firm(surfaces[s])

PrimaryExists == primary_surface # NoSurface => surfaces[primary_surface] # NoCanvas

DisplayInv ==
    /\ DisplayTypes /\ CanvasesApart /\ CacheAgrees /\ PrimaryExists
    /\ PicturesInv /\ PrimaryHasTheEvents

(* The steps that leave the surfaces alone.                                 *)
Settled == UNCHANGED surfaceVars /\ UNCHANGED <<ended, displayDeaf>>

(* A canvas nothing happens to stays as firm as it was.                     *)
LEMMA FirmKeeps ==
  ASSUME NEW c, Firm(c), paint'[c] = paint[c],
         c \in right => c \in right', c \in doubt => c \in doubt',
         \A p : p.canvas = c => (p \in pending' <=> p \in pending)
  PROVE  Firm(c)'
<1> SUFFICES ASSUME c \notin doubt'
             PROVE  /\ \A p \in pending' : p.canvas = c /\ p.last => Good(p)'
                    /\ (\A p \in pending' : p.canvas = c => ~p.last) => c \in right'
  BY DEF Firm
<1>1. c \notin doubt
  OBVIOUS
<1>2. ASSUME NEW p \in pending', p.canvas = c, p.last PROVE Good(p)'
  <2>1. Good(p)
    BY <1>1, <1>2 DEF Firm
  <2> QED
    BY <1>2, <2>1 DEF Good
<1>3. (\A p \in pending' : p.canvas = c => ~p.last) => c \in right'
  BY <1>1 DEF Firm
<1> QED
  BY <1>2, <1>3

LEMMA SettledKeeps ==
  ASSUME DisplayInv, Settled
  PROVE  PrimaryExists' /\ PrimaryHasTheEvents'
BY DEF DisplayInv, Settled, surfaceVars, PrimaryExists, PrimaryHasTheEvents

(* The JPEGs of a canvas are overtaken, and no others.                      *)
LEMMA OvertakenIs ==
  ASSUME DisplayTypes, NEW c
  PROVE  /\ Overtaken(c) \subseteq Jpegs
         /\ \A q \in Overtaken(c) : q.canvas = c => ~q.last
         /\ \A q : q.canvas # c => (q \in Overtaken(c) <=> q \in pending)
         /\ \A q \in Overtaken(c) : \E p \in pending : q.surface = p.surface /\ q.canvas = p.canvas
<1> DEFINE Put(p) == IF p.canvas = c THEN [p EXCEPT !.last = FALSE] ELSE p
<1>1. Overtaken(c) = {Put(p) : p \in pending}
  BY DEF Overtaken
<1>2. ASSUME NEW p \in pending
      PROVE  /\ Put(p) \in Jpegs /\ Put(p).surface = p.surface /\ Put(p).canvas = p.canvas
             /\ p.canvas = c => ~Put(p).last
             /\ p.canvas # c => Put(p) = p
  <2>1. p \in Jpegs
    BY DEF DisplayTypes
  <2>2. CASE p.canvas = c
    <3>1. Put(p) = [p EXCEPT !.last = FALSE]
      BY <2>2
    <3> QED
      BY <2>1, <2>2, <3>1 DEF Jpegs
  <2>3. CASE p.canvas # c
    BY <2>1, <2>3
  <2> QED
    BY <2>2, <2>3
<1> HIDE DEF Put
<1>3. ASSUME NEW q, q.canvas # c PROVE q \in Overtaken(c) <=> q \in pending
  <2>1. ASSUME NEW p \in pending, q = Put(p) PROVE q = p
    BY <1>2, <1>3, <2>1
  <2> QED
    BY <1>1, <1>2, <1>3, <2>1
<1>4. Overtaken(c) \subseteq Jpegs
  BY <1>1, <1>2
<1>5. \A q \in Overtaken(c) : q.canvas = c => ~q.last
  BY <1>1, <1>2
<1>6. \A q \in Overtaken(c) : \E p \in pending : q.surface = p.surface /\ q.canvas = p.canvas
  BY <1>1, <1>2
<1> QED
  BY <1>3, <1>4, <1>5, <1>6

(* Whatever is put on a canvas at once, it is in doubt or shows it.         *)
LEMMA OvertakenKeeps ==
  ASSUME DisplayInv, NEW s \in Surfaces, Settled, pending' = Overtaken(surfaces[s]),
         surfaces[s] \in doubt' \/ surfaces[s] \in right',
         \A d \in Canvases \ {surfaces[s]} :
            /\ paint'[d] = paint[d] /\ (d \in right => d \in right') /\ (d \in doubt => d \in doubt')
  PROVE  PicturesInv' /\ CanvasesApart' /\ pending' \subseteq Jpegs
<1> PICK c : c = surfaces[s]
  OBVIOUS
<1>1. surfaces' = surfaces /\ ended' = ended
  BY DEF Settled, surfaceVars
<1>2. /\ pending' \subseteq Jpegs
      /\ \A q \in pending' : q.canvas = c => ~q.last
      /\ \A q : q.canvas # c => (q \in pending' <=> q \in pending)
      /\ \A q \in pending' : \E p \in pending : q.surface = p.surface /\ q.canvas = p.canvas
  BY OvertakenIs DEF DisplayInv
<1>3. CanvasesApart'
  BY <1>1, <1>2 DEF DisplayInv, CanvasesApart
<1>4. PicturesInv'
  <2> SUFFICES ASSUME ~ended', NEW t \in Surfaces, NEW d, d = surfaces'[t], d # NoCanvas
               PROVE  Firm(d)'
    BY Zenon DEF PicturesInv, Firm, Good
  <2>1. d = surfaces[t] /\ Firm(d) /\ d \in Canvases
    BY <1>1 DEF DisplayInv, PicturesInv, DisplayTypes
  <2>2. CASE d = c
    BY <1>1, <1>2, <2>2 DEF Firm
  <2>3. CASE d # c
    BY <1>2, <2>1, <2>3, FirmKeeps
  <2> QED
    BY <2>2, <2>3
<1> QED
  BY <1>2, <1>3, <1>4

LEMMA DrawKeeps ==
  ASSUME DisplayInv, NEW s \in Surfaces, NEW asSent \in BOOLEAN, NEW sheer \in BOOLEAN, NEW can \in BOOLEAN,
         Draw(s, asSent, sheer, can), Settled, can => asSent
  PROVE  /\ PicturesInv' /\ CanvasesApart' /\ pending' \subseteq Jpegs
         /\ paint' \in [Canvases -> {"blank", "sheer", "solid"}]
<1> DEFINE c == surfaces[s]
<1>1. /\ right' = IF asSent /\ ~Blends(sheer, c) THEN right \cup {c} ELSE right \ {c}
      /\ paint' = [paint EXCEPT ![c] = Painted(sheer, c)]
      /\ doubt' = IF can /\ ~Blends(sheer, c) THEN doubt \ {c} ELSE doubt \cup {c}
      /\ pending' = Overtaken(c)
  BY DEF Draw
<1>2. paint \in [Canvases -> {"blank", "sheer", "solid"}] /\ Painted(sheer, c) \in {"blank", "sheer", "solid"}
  BY DEF DisplayInv, DisplayTypes, Painted
<1>3. paint' \in [Canvases -> {"blank", "sheer", "solid"}]
  BY <1>1, <1>2
<1>4. c \in doubt' \/ c \in right'
  BY <1>1
<1>5. \A d \in Canvases \ {c} :
        /\ paint'[d] = paint[d] /\ (d \in right => d \in right') /\ (d \in doubt => d \in doubt')
  BY <1>1, <1>2
<1> QED
  BY <1>1, <1>3, <1>4, <1>5, OvertakenKeeps

LEMMA NotDrawnKeeps ==
  ASSUME DisplayInv, NEW s \in Surfaces, NotDrawn(s, FALSE), Settled
  PROVE  PicturesInv' /\ CanvasesApart' /\ pending' \subseteq Jpegs /\ paint' = paint
<1>1. /\ right' = right \ {surfaces[s]} /\ paint' = paint
      /\ doubt' = doubt \cup {surfaces[s]} /\ pending' = Overtaken(surfaces[s])
  BY DEF NotDrawn
<1> QED
  BY <1>1, OvertakenKeeps

(* A picture goes under the key of its image; the server expects nothing    *)
(* more of another image with that key.                                     *)
LEMMA CachedAgrees ==
  ASSUME DisplayInv, NEW id \in Images, NEW alpha, NEW mark,
         cache' = Cached(id, Picture(id, alpha)), serverCache' = Ledger(id, mark),
         mark \in {"out", "lost"} \/ mark = Lasting(Picture(id, alpha))
  PROVE  /\ CacheAgrees' /\ DOMAIN cache' = {"made", "of"}
         /\ serverCache' \in [Images -> {"out", "whole", "flat", "lost"}]
<1> USE DEF DisplayInv
<1> DEFINE k == getUint64(id)
<1>1. /\ cache'.of = [i \in DOMAIN cache.of \cup {k} |-> IF i = k THEN Picture(id, alpha) ELSE cache.of[i]]
      /\ DOMAIN cache' = {"made", "of"}
  BY DEF Cached
<1>2. mark \in {"out", "whole", "flat", "lost"}
  BY DEF Lasting
<1>3. serverCache' \in [Images -> {"out", "whole", "flat", "lost"}]
  BY <1>2 DEF Ledger, DisplayTypes
<1>4. ASSUME NEW other \in Images
      PROVE  /\ serverCache'[other] = "whole" =>
                  /\ getUint64(other) \in DOMAIN cache'.of
                  /\ cache'.of[getUint64(other)] = Picture(other, "own")
             /\ serverCache'[other] = "flat" =>
                  /\ getUint64(other) \in DOMAIN cache'.of
                  /\ cache'.of[getUint64(other)] \in {Picture(other, "own"), Picture(other, "none")}
  <2>1. CASE other = id
    <3>1. serverCache'[id] = mark
      BY DEF Ledger
    <3>2. /\ mark = "whole" => alpha = "own"
          /\ mark = "flat" => alpha = "none"
      BY DEF Lasting, Picture
    <3>3. k \in DOMAIN cache'.of /\ cache'.of[k] = Picture(id, alpha)
      BY <1>1
    <3> QED
      BY <2>1, <3>1, <3>2, <3>3
  <2>2. CASE other # id /\ getUint64(other) = k
    <3>1. serverCache'[other] = IF serverCache[other] # "out" THEN "lost" ELSE serverCache[other]
      BY <2>2 DEF Ledger, SameKey
    <3> QED
      BY <3>1
  <2>3. CASE other # id /\ getUint64(other) # k
    <3>1. serverCache'[other] = serverCache[other]
      BY <2>3 DEF Ledger, SameKey
    <3>2. getUint64(other) \in DOMAIN cache.of =>
            getUint64(other) \in DOMAIN cache'.of /\ cache'.of[getUint64(other)] = cache.of[getUint64(other)]
      BY <1>1, <2>3
    <3> QED
      BY <3>1, <3>2 DEF CacheAgrees
  <2> QED
    BY <2>1, <2>2, <2>3
<1>5. CacheAgrees'
  <2>1. \A other \in Images : getUint64(other)' = getUint64(other)
    BY DEF getUint64, Keys
  <2> QED
    BY <1>4, <2>1 DEF CacheAgrees, Picture, getUint64, Keys
<1> QED
  BY <1>1, <1>3, <1>5

LEMMA DrawBitmapStep ==
  ASSUME DisplayInv, NEW s \in Surfaces, NEW id \in Images, NEW alpha, NEW plain \in BOOLEAN,
         NEW cacheMe \in BOOLEAN, DrawBitmap(s, id, alpha, plain, cacheMe)
  PROVE  DisplayInv'
<1> USE DEF DisplayInv
<1> DEFINE c == surfaces[s]
           picture == Picture(id, alpha)
           asSent == plain /\ AsSent(picture, c)
           sheer == Sheer(picture)
<1>1. Settled /\ UNCHANGED <<stream>> /\ Draw(s, asSent, sheer, asSent)
  BY DEF DrawBitmap, Settled
<1>2. asSent \in BOOLEAN /\ sheer \in BOOLEAN
  BY DEF AsSent, Sheer
<1>3. /\ PicturesInv' /\ CanvasesApart' /\ pending' \subseteq Jpegs
      /\ paint' \in [Canvases -> {"blank", "sheer", "solid"}]
  <2> HIDE DEF asSent, sheer
  <2> QED
    BY <1>1, <1>2, DrawKeeps
<1>4. /\ CacheAgrees' /\ DOMAIN cache' = {"made", "of"}
      /\ serverCache' \in [Images -> {"out", "whole", "flat", "lost"}]
  <2>1. CASE cacheMe
    <3>1. cache' = Cached(id, Drawn(picture, c)) /\ serverCache' = Ledger(id, Lasting(Drawn(picture, c)))
      BY <2>1 DEF DrawBitmap
    <3>2. Drawn(picture, c) = Picture(id, Drawn(picture, c).alpha)
      BY DEF Drawn, stripAlpha, Picture
    <3> QED
      BY <3>1, <3>2, CachedAgrees
  <2>2. CASE ~cacheMe
    BY <2>2 DEF DrawBitmap, CacheAgrees, DisplayTypes
  <2> QED
    BY <2>1, <2>2
<1>5. DisplayTypes'
  BY <1>1, <1>3, <1>4 DEF DisplayTypes, Settled, surfaceVars
<1> QED
  BY <1>1, <1>3, <1>4, <1>5, SettledKeeps

(* An image the server does not count on any more.                          *)
LEMMA LostAgrees ==
  ASSUME DisplayInv, cache' = cache, NEW id \in Images, NEW cacheMe \in BOOLEAN,
         serverCache' = IF cacheMe THEN [serverCache EXCEPT ![id] = "lost"] ELSE serverCache
  PROVE  CacheAgrees' /\ serverCache' \in [Images -> {"out", "whole", "flat", "lost"}]
<1> USE DEF DisplayInv
<1>1. serverCache' \in [Images -> {"out", "whole", "flat", "lost"}]
  BY DEF DisplayTypes
<1>2. \A other \in Images : serverCache'[other] \in {serverCache[other], "lost"}
  BY DEF DisplayTypes
<1> QED
  BY <1>1, <1>2 DEF CacheAgrees

LEMMA DrawUnknownStep ==
  ASSUME DisplayInv, NEW s \in Surfaces, NEW id \in Images, NEW cacheMe \in BOOLEAN,
         DrawUnknown(s, id, cacheMe)
  PROVE  DisplayInv'
<1> USE DEF DisplayInv
<1>1. Settled /\ UNCHANGED <<stream, cache>> /\ NotDrawn(s, FALSE)
  BY DEF DrawUnknown, Settled
<1>2. PicturesInv' /\ CanvasesApart' /\ pending' \subseteq Jpegs /\ paint' = paint
  BY <1>1, NotDrawnKeeps
<1>3. CacheAgrees' /\ serverCache' \in [Images -> {"out", "whole", "flat", "lost"}]
  BY <1>1, LostAgrees DEF DrawUnknown
<1>4. DisplayTypes'
  BY <1>1, <1>2, <1>3 DEF DisplayTypes, Settled, surfaceVars
<1> QED
  BY <1>1, <1>2, <1>3, <1>4, SettledKeeps

(* What is drawn from the cache is as it was sent as far as the server may  *)
(* expect it; a surface without alpha takes the alpha of all that is under  *)
(* the key.                                                                 *)
LEMMA DrawFromCacheStep ==
  ASSUME DisplayInv, NEW s \in Surfaces, NEW id \in Images, NEW plain \in BOOLEAN, DrawFromCache(s, id, plain)
  PROVE  DisplayInv'
<1> USE DEF DisplayInv
<1> DEFINE c == surfaces[s]
           k == getUint64(id)
           usable == serverCache[id] = "whole" \/ (serverCache[id] = "flat" /\ c \notin argb)
           picture == cache.of[k]
<1>1. Settled /\ UNCHANGED <<stream>>
  BY DEF DrawFromCache, Settled
<1>2. usable => k \in DOMAIN cache.of /\ picture.image = id /\ AsSent(picture, c)
  <2>1. CASE serverCache[id] = "whole"
    <3>1. k \in DOMAIN cache.of /\ picture = Picture(id, "own")
      BY <2>1 DEF CacheAgrees
    <3> HIDE DEF k, picture
    <3> QED
      BY <3>1 DEF AsSent, Picture
  <2>2. CASE serverCache[id] = "flat" /\ c \notin argb
    <3>1. k \in DOMAIN cache.of /\ picture \in {Picture(id, "own"), Picture(id, "none")}
      BY <2>2 DEF CacheAgrees
    <3> HIDE DEF k, picture
    <3> QED
      BY <2>2, <3>1 DEF AsSent, Picture
  <2> QED
    BY <2>1, <2>2
<1>3. CASE k \notin DOMAIN cache.of
  <2>1. NotDrawn(s, plain /\ usable) /\ UNCHANGED <<cache, serverCache>>
    BY <1>3 DEF DrawFromCache
  <2>2. (plain /\ usable) = FALSE
    BY <1>2, <1>3
  <2>3. NotDrawn(s, FALSE)
    BY <2>1, <2>2
  <2>4. PicturesInv' /\ CanvasesApart' /\ pending' \subseteq Jpegs /\ paint' = paint
    BY <1>1, <2>3, NotDrawnKeeps
  <2>5. CacheAgrees'
    BY <2>1 DEF CacheAgrees
  <2>6. DisplayTypes'
    BY <1>1, <2>1, <2>4 DEF DisplayTypes, Settled, surfaceVars
  <2> QED
    BY <1>1, <2>4, <2>5, <2>6, SettledKeeps
<1>4. CASE k \in DOMAIN cache.of
  <2> DEFINE asSent == plain /\ picture.image = id /\ AsSent(picture, c)
             sheer == Sheer(picture)
             can == plain /\ usable
  <2>1. /\ Draw(s, asSent, sheer, can)
        /\ cache' = [cache EXCEPT !.of[k] = Drawn(@, c)]
        /\ serverCache' = IF c \in argb THEN serverCache ELSE Flattened(id)
    BY <1>4 DEF DrawFromCache
  <2>2. asSent \in BOOLEAN /\ sheer \in BOOLEAN /\ can \in BOOLEAN /\ (can => asSent)
    BY <1>2 DEF AsSent, Sheer
  <2>3. /\ PicturesInv' /\ CanvasesApart' /\ pending' \subseteq Jpegs
        /\ paint' \in [Canvases -> {"blank", "sheer", "solid"}]
    <3> HIDE DEF asSent, sheer, can
    <3> QED
      BY <1>1, <2>1, <2>2, DrawKeeps
  <2>4. /\ DOMAIN cache' = {"made", "of"} /\ DOMAIN cache'.of = DOMAIN cache.of
        /\ cache'.of[k] = Drawn(picture, c)
        /\ \A i \in DOMAIN cache.of : i # k => cache'.of[i] = cache.of[i]
    BY <1>4, <2>1 DEF DisplayTypes
  <2>5. serverCache' \in [Images -> {"out", "whole", "flat", "lost"}]
    BY <2>1 DEF Flattened, DisplayTypes
  <2>6. ASSUME NEW other \in Images
        PROVE  /\ serverCache'[other] = "whole" =>
                    /\ getUint64(other) \in DOMAIN cache'.of
                    /\ cache'.of[getUint64(other)] = Picture(other, "own")
               /\ serverCache'[other] = "flat" =>
                    /\ getUint64(other) \in DOMAIN cache'.of
                    /\ cache'.of[getUint64(other)] \in {Picture(other, "own"), Picture(other, "none")}
    <3>1. CASE getUint64(other) # k
      <4>1. serverCache'[other] = serverCache[other]
        BY <2>1, <3>1 DEF Flattened, SameKey
      <4> QED
        BY <2>4, <3>1, <4>1 DEF CacheAgrees
    <3>2. CASE getUint64(other) = k /\ c \in argb
      <4>1. serverCache'[other] = serverCache[other] /\ cache'.of[k] = picture
        BY <2>1, <2>4, <3>2 DEF Drawn
      <4> QED
        BY <2>4, <3>2, <4>1 DEF CacheAgrees
    <3>3. CASE getUint64(other) = k /\ c \notin argb
      <4>1. cache'.of[k] = stripAlpha(picture)
        BY <2>4, <3>3 DEF Drawn
      <4>2. serverCache'[other] = IF other \in Translucent /\ serverCache[other] = "whole"
                                  THEN "flat" ELSE serverCache[other]
        BY <2>1, <3>3 DEF Flattened, SameKey
      <4>3. stripAlpha(Picture(other, "none")) = Picture(other, "none")
        BY DEF stripAlpha, Sheer, Picture
      <4>4. stripAlpha(Picture(other, "own")) = IF other \in Translucent THEN Picture(other, "none")
                                                                         ELSE Picture(other, "own")
        BY DEF stripAlpha, Sheer, Picture
      <4>5. /\ serverCache[other] = "whole" => picture = Picture(other, "own")
            /\ serverCache[other] = "flat" => picture \in {Picture(other, "own"), Picture(other, "none")}
        BY <3>3 DEF CacheAgrees
      <4> HIDE DEF picture
      <4>6. CASE serverCache'[other] = "whole"
        <5>1. serverCache[other] = "whole" /\ other \notin Translucent
          BY <4>2, <4>6
        <5> QED
          BY <1>4, <2>4, <3>3, <4>1, <4>4, <4>5, <4>6, <5>1
      <4>7. CASE serverCache'[other] = "flat"
        <5>1. serverCache[other] \in {"whole", "flat"}
          BY <4>2, <4>7
        <5>2. stripAlpha(picture) \in {Picture(other, "own"), Picture(other, "none")}
          BY <4>3, <4>4, <4>5, <5>1
        <5> QED
          BY <1>4, <2>4, <3>3, <4>1, <4>7, <5>2
      <4> QED
        BY <4>6, <4>7
    <3> QED
      BY <3>1, <3>2, <3>3
  <2>7. CacheAgrees'
    BY <2>6 DEF CacheAgrees, Picture, getUint64, Keys
  <2>8. DisplayTypes'
    BY <1>1, <2>3, <2>4, <2>5 DEF DisplayTypes, Settled, surfaceVars
  <2> QED
    BY <1>1, <2>3, <2>7, <2>8, SettledKeeps
<1> QED
  BY <1>3, <1>4

LEMMA DrawSurfaceStep ==
  ASSUME DisplayInv, NEW s \in Surfaces, NEW from \in Surfaces, NEW plain \in BOOLEAN,
         DrawSurface(s, from, plain)
  PROVE  DisplayInv'
<1> USE DEF DisplayInv
<1> DEFINE source == surfaces[from]
           asSent == plain /\ source \in right
           sheer == paint[source] # "solid"
           can == plain /\ source \notin doubt /\ ~Loading(source)
<1>1. /\ Settled /\ UNCHANGED <<stream, cache, serverCache>> /\ Draw(s, asSent, sheer, can)
      /\ ~ended /\ surfaces[from] # NoCanvas
  BY DEF DrawSurface, Settled, Exists
<1>2. asSent \in BOOLEAN /\ sheer \in BOOLEAN /\ can \in BOOLEAN
  BY DEF Loading
<1>3. can => asSent
  BY <1>1 DEF PicturesInv, Firm, Loading
<1>4. /\ PicturesInv' /\ CanvasesApart' /\ pending' \subseteq Jpegs
      /\ paint' \in [Canvases -> {"blank", "sheer", "solid"}]
  <2> HIDE DEF asSent, sheer, can
  <2> QED
    BY <1>1, <1>2, <1>3, DrawKeeps
<1>5. CacheAgrees'
  BY <1>1 DEF CacheAgrees
<1>6. DisplayTypes'
  BY <1>1, <1>4 DEF DisplayTypes, Settled, surfaceVars
<1> QED
  BY <1>1, <1>4, <1>5, <1>6, SettledKeeps

LEMMA DrawFillStep ==
  ASSUME DisplayInv, NEW s \in Surfaces, NEW solid \in BOOLEAN, NEW plain \in BOOLEAN, DrawFill(s, solid, plain)
  PROVE  DisplayInv'
<1> USE DEF DisplayInv
<1>1. Settled /\ UNCHANGED <<stream, cache, serverCache>>
  BY DEF DrawFill, Settled
<1>2. /\ PicturesInv' /\ CanvasesApart' /\ pending' \subseteq Jpegs
      /\ paint' \in [Canvases -> {"blank", "sheer", "solid"}]
  <2>1. CASE solid
    <3>1. Draw(s, plain, FALSE, plain)
      BY <2>1 DEF DrawFill
    <3> QED
      BY <1>1, <3>1, DrawKeeps
  <2>2. CASE ~solid
    <3>1. NotDrawn(s, FALSE)
      BY <2>2 DEF DrawFill
    <3> QED
      BY <1>1, <3>1, NotDrawnKeeps DEF DisplayTypes
  <2> QED
    BY <2>1, <2>2
<1>3. CacheAgrees'
  BY <1>1 DEF CacheAgrees
<1>4. DisplayTypes'
  BY <1>1, <1>2 DEF DisplayTypes, Settled, surfaceVars
<1> QED
  BY <1>1, <1>2, <1>3, <1>4, SettledKeeps

(* A JPEG that starts is for the canvas its surface has now, and the last.  *)
LEMMA DecodeKeeps ==
  ASSUME DisplayInv, NEW s \in Surfaces, NEW id \in Images, NEW plain \in BOOLEAN, NEW cacheMe \in BOOLEAN,
         Decode(s, id, plain, cacheMe), Settled
  PROVE  PicturesInv' /\ CanvasesApart' /\ pending' \subseteq Jpegs /\ paint' = paint
<1> USE DEF DisplayInv
<1> PICK c : c = surfaces[s]
  OBVIOUS
<1> PICK sheer \in BOOLEAN : sheer = (id \in Translucent /\ c \in argb)
  OBVIOUS
<1> DEFINE n == [surface |-> s, canvas |-> c, image |-> id, sheer |-> sheer,
                 plain |-> plain, cacheMe |-> cacheMe, last |-> TRUE]
<1>1. /\ pending' = Overtaken(c) \cup {n} /\ right' = right \ {c} /\ paint' = paint
      /\ doubt' = IF plain /\ ~(sheer /\ (paint[c] # "blank" \/ Loading(c))) THEN doubt \ {c} ELSE doubt \cup {c}
      /\ c # NoCanvas
  BY DEF Decode, Exists
<1>2. c \in Canvases
  BY <1>1 DEF DisplayTypes
<1>3. n \in Jpegs /\ n.surface = s /\ n.canvas = c /\ n.last /\ n.plain = plain /\ n.sheer = sheer
  BY <1>2 DEF Jpegs
<1>4. surfaces' = surfaces /\ ended' = ended
  BY DEF Settled, surfaceVars
<1> HIDE DEF n
<1>5. /\ Overtaken(c) \subseteq Jpegs
      /\ \A q \in Overtaken(c) : q.canvas = c => ~q.last
      /\ \A q : q.canvas # c => (q \in Overtaken(c) <=> q \in pending)
      /\ \A q \in Overtaken(c) : \E p \in pending : q.surface = p.surface /\ q.canvas = p.canvas
  BY OvertakenIs
<1>6. CanvasesApart'
  BY <1>1, <1>3, <1>4, <1>5 DEF CanvasesApart
<1>7. Firm(c)'
  <2> SUFFICES ASSUME c \notin doubt'
               PROVE  /\ \A p \in pending' : p.canvas = c /\ p.last => Good(p)'
                      /\ (\A p \in pending' : p.canvas = c => ~p.last) => c \in right'
    BY DEF Firm
  <2>1. plain /\ (sheer => paint[c] = "blank" /\ ~Loading(c))
    BY <1>1
  <2>2. ASSUME sheer, NEW q \in pending', q.canvas = c PROVE q = n
    <3>1. \A p \in pending : p.canvas # c
      BY <2>1, <2>2 DEF Loading
    <3> QED
      BY <1>1, <1>5, <2>2, <3>1
  <2>3. Good(n)'
    BY <1>1, <1>3, <2>1, <2>2 DEF Good
  <2>4. ASSUME NEW p \in pending', p.canvas = c, p.last PROVE p = n
    BY <1>1, <1>5, <2>4
  <2> QED
    BY <1>1, <1>3, <2>3, <2>4
<1>8. PicturesInv'
  <2> SUFFICES ASSUME ~ended', NEW t \in Surfaces, NEW d, d = surfaces'[t], d # NoCanvas
               PROVE  Firm(d)'
    BY Zenon DEF PicturesInv, Firm, Good
  <2>1. d = surfaces[t] /\ Firm(d)
    BY <1>4 DEF PicturesInv
  <2>2. CASE d = c
    BY <1>7, <2>2
  <2>3. CASE d # c
    <3>1. \A p : p.canvas = d => (p \in pending' <=> p \in pending)
      BY <1>1, <1>3, <1>5, <2>3
    <3> QED
      BY <1>1, <2>1, <2>3, <3>1, FirmKeeps
  <2> QED
    BY <2>2, <2>3
<1> QED
  BY <1>1, <1>3, <1>5, <1>6, <1>8

LEMMA DrawJpegStep ==
  ASSUME DisplayInv, NEW s \in Surfaces, NEW id \in Images, NEW plain \in BOOLEAN, NEW cacheMe \in BOOLEAN,
         DrawJpeg(s, id, plain, cacheMe)
  PROVE  DisplayInv'
<1> USE DEF DisplayInv
<1>1. Settled /\ UNCHANGED <<stream, cache>> /\ Decode(s, id, plain, cacheMe)
  BY DEF DrawJpeg, Settled
<1>2. PicturesInv' /\ CanvasesApart' /\ pending' \subseteq Jpegs /\ paint' = paint
  BY <1>1, DecodeKeeps
<1>3. CacheAgrees' /\ serverCache' \in [Images -> {"out", "whole", "flat", "lost"}]
  BY <1>1, LostAgrees DEF DrawJpeg
<1>4. DisplayTypes'
  BY <1>1, <1>2, <1>3 DEF DisplayTypes, Settled, surfaceVars
<1> QED
  BY <1>1, <1>2, <1>3, <1>4, SettledKeeps

LEMMA StreamDataStep ==
  ASSUME DisplayInv, NEW id \in Images, NEW plain \in BOOLEAN, StreamData(id, plain)
  PROVE  DisplayInv'
<1> USE DEF DisplayInv
<1>1. Settled /\ UNCHANGED <<stream, cache, serverCache>> /\ Decode(stream, id, plain, FALSE)
  BY DEF StreamData, Settled
<1>2. stream \in Surfaces
  BY DEF StreamData, DisplayTypes
<1>3. PicturesInv' /\ CanvasesApart' /\ pending' \subseteq Jpegs /\ paint' = paint
  BY <1>1, <1>2, DecodeKeeps
<1>4. CacheAgrees'
  BY <1>1 DEF CacheAgrees
<1>5. DisplayTypes'
  BY <1>1, <1>3 DEF DisplayTypes, Settled, surfaceVars
<1> QED
  BY <1>1, <1>3, <1>4, <1>5, SettledKeeps

(* The picture that arrives is drawn on the canvas it was decoded for, or   *)
(* on none, or on one that is in doubt from then on; no other surface shows *)
(* the canvas it was decoded for.                                           *)
LEMMA OnloadStep ==
  ASSUME DisplayInv, NEW p \in pending, Onload(p)
  PROVE  DisplayInv'
<1> USE DEF DisplayInv
<1> PICK c : c = surfaces[p.surface]
  OBVIOUS
<1>1. Settled /\ UNCHANGED <<stream>> /\ pending' = pending \ {p}
  BY DEF Onload, Settled
<1>2. /\ p \in Jpegs /\ p.surface \in Surfaces /\ p.canvas \in Canvases /\ p.image \in Images
      /\ surfaces' = surfaces /\ ended' = ended
  BY <1>1 DEF DisplayTypes, Settled, surfaceVars, Jpegs
<1>3. CanvasesApart' /\ pending' \subseteq Jpegs
  BY <1>1, <1>2 DEF CanvasesApart, DisplayTypes
<1>4. paint' \in [Canvases -> {"blank", "sheer", "solid"}]
  BY DEF Onload, pictureVars, Painted, DisplayTypes
<1>5. /\ CacheAgrees' /\ DOMAIN cache' = {"made", "of"}
      /\ serverCache' \in [Images -> {"out", "whole", "flat", "lost"}]
  <2>1. CASE p.cacheMe /\ ~ended
    <3> DEFINE mark == IF serverCache[p.image] = "out" THEN "out" ELSE Lasting(Grabbed(p))
    <3>1. cache' = Cached(p.image, Grabbed(p)) /\ serverCache' = Ledger(p.image, mark)
      BY <2>1 DEF Onload
    <3>2. Grabbed(p) = Picture(p.image, Grabbed(p).alpha)
      BY DEF Grabbed, stripAlpha, Picture
    <3>3. mark \in {"out", "lost"} \/ mark = Lasting(Grabbed(p))
      OBVIOUS
    <3> HIDE DEF mark
    <3> QED
      BY <1>2, <3>1, <3>2, <3>3, CachedAgrees
  <2>2. CASE ~(p.cacheMe /\ ~ended)
    BY <2>2 DEF Onload, CacheAgrees, DisplayTypes
  <2> QED
    BY <2>1, <2>2
<1>6. DisplayTypes'
  BY <1>1, <1>3, <1>4, <1>5 DEF DisplayTypes, Settled, surfaceVars
<1>7. PicturesInv'
  <2> SUFFICES ASSUME ~ended', NEW t \in Surfaces, NEW d, d = surfaces'[t], d # NoCanvas
               PROVE  Firm(d)'
    BY Zenon DEF PicturesInv, Firm, Good
  <2>1. d = surfaces[t] /\ Firm(d) /\ ~ended /\ d \in Canvases
    BY <1>2 DEF PicturesInv, DisplayTypes
  <2>2. \/ UNCHANGED pictureVars /\ c = NoCanvas
        \/ /\ right' = IF c = p.canvas /\ p.last /\ p.plain /\ ~Blends(p.sheer, c) THEN right \cup {c} ELSE right \ {c}
           /\ paint' = [paint EXCEPT ![c] = Painted(p.sheer, c)]
           /\ doubt' = IF c = p.canvas /\ ~Late(p) THEN doubt ELSE doubt \cup {c}
    BY <2>1 DEF Onload
  <2>3. CASE d # c /\ d # p.canvas
    <3>1. paint'[d] = paint[d] /\ (d \in right => d \in right') /\ (d \in doubt => d \in doubt')
      BY <2>1, <2>2, <2>3 DEF pictureVars, DisplayTypes
    <3>2. \A q : q.canvas = d => (q \in pending' <=> q \in pending)
      BY <1>1, <2>3
    <3> QED
      BY <2>1, <3>1, <3>2, FirmKeeps
  <2>4. CASE d = c /\ d # p.canvas
    <3>1. d \in doubt'
      BY <2>1, <2>2, <2>4
    <3> QED
      BY <3>1 DEF Firm
  <2>5. CASE d = p.canvas
    <3>1. t = p.surface /\ d = c
      BY <2>1, <2>5 DEF CanvasesApart
    <3>2. /\ right' = IF p.last /\ p.plain /\ ~Blends(p.sheer, c) THEN right \cup {c} ELSE right \ {c}
          /\ doubt' = IF ~Late(p) THEN doubt ELSE doubt \cup {c}
      BY <2>1, <2>2, <2>5, <3>1
    <3> SUFFICES ASSUME d \notin doubt'
                 PROVE  /\ \A q \in pending' : q.canvas = d /\ q.last => Good(q)'
                        /\ (\A q \in pending' : q.canvas = d => ~q.last) => d \in right'
      BY DEF Firm
    <3>3. ~Late(p) /\ d \notin doubt
      BY <3>1, <3>2
    <3>4. ASSUME NEW q \in pending', q.canvas = d, q.last PROVE Good(q)'
      <4>1. q \in pending /\ q # p
        BY <1>1, <3>4
      <4>2. Good(q)
        BY <2>1, <3>3, <3>4, <4>1 DEF Firm
      <4>3. q.plain /\ ~q.sheer
        BY <2>5, <3>4, <4>1, <4>2 DEF Good
      <4> QED
        BY <4>3 DEF Good
    <3>5. CASE p.last
      <4>1. Good(p)
        BY <2>1, <2>5, <3>3, <3>5 DEF Firm
      <4>2. p.plain /\ ~Blends(p.sheer, c)
        BY <2>5, <3>1, <4>1 DEF Good, Blends
      <4>3. d \in right'
        BY <3>1, <3>2, <3>5, <4>2
      <4> QED
        BY <3>4, <4>3
    <3>6. CASE ~p.last
      <4>1. PICK q \in pending : q.canvas = p.canvas /\ q.last
        BY <3>3, <3>6 DEF Late
      <4>2. q \in pending' /\ q.canvas = d /\ q.last
        BY <1>1, <2>5, <3>6, <4>1
      <4> QED
        BY <3>4, <4>2
    <3> QED
      BY <3>5, <3>6
  <2> QED
    BY <2>3, <2>4, <2>5
<1> QED
  BY <1>1, <1>3, <1>5, <1>6, <1>7, SettledKeeps

LEMMA InvalListStep ==
  ASSUME DisplayInv, NEW ids \in SUBSET Images, InvalList(ids)
  PROVE  DisplayInv'
<1> USE DEF DisplayInv
<1>1. /\ UNCHANGED surfaceVars /\ UNCHANGED <<right, doubt, paint, pending, stream, ended>> /\ ~displayDeaf
      /\ serverCache' = [other \in Images |->
                           IF other \in ids \/ serverCache[other] = "out" THEN "out"
                           ELSE IF \E id \in ids : other \in SameKey(id) THEN "lost"
                           ELSE serverCache[other]]
      /\ cache' = [cache EXCEPT !.of = Restrict(@, DOMAIN @ \ {getUint64(id) : id \in ids})]
  BY DEF InvalList, pictureVars
<1>2. DisplayTypes'
  BY <1>1 DEF DisplayTypes, surfaceVars
<1>3. CanvasesApart' /\ PicturesInv'
  BY <1>1 DEF CanvasesApart, PicturesInv, Firm, Good, surfaceVars
<1>4. CacheAgrees'
  <2> DEFINE gone == {getUint64(id) : id \in ids}
  <2>1. cache'.of = [k \in DOMAIN cache.of \ gone |-> cache.of[k]]
    BY <1>1 DEF DisplayTypes, Restrict
  <2>2. ASSUME NEW other \in Images, serverCache'[other] \in {"whole", "flat"}
        PROVE  /\ serverCache'[other] = serverCache[other] /\ getUint64(other) \notin gone
               /\ getUint64(other) \in DOMAIN cache.of => cache'.of[getUint64(other)] = cache.of[getUint64(other)]
    <3>1. serverCache'[other] = serverCache[other] /\ getUint64(other) \notin gone
      BY <1>1, <2>2 DEF SameKey
    <3> HIDE DEF gone
    <3> QED
      BY <2>1, <3>1
  <2> HIDE DEF gone
  <2>3. ASSUME NEW other \in Images
        PROVE  /\ serverCache'[other] = "whole" =>
                    /\ getUint64(other) \in DOMAIN cache'.of
                    /\ cache'.of[getUint64(other)] = Picture(other, "own")
               /\ serverCache'[other] = "flat" =>
                    /\ getUint64(other) \in DOMAIN cache'.of
                    /\ cache'.of[getUint64(other)] \in {Picture(other, "own"), Picture(other, "none")}
    BY <2>1, <2>2 DEF CacheAgrees
  <2> QED
    BY <2>3 DEF CacheAgrees, Picture, getUint64, Keys
<1>5. PrimaryExists' /\ PrimaryHasTheEvents'
  BY <1>1 DEF surfaceVars, PrimaryExists, PrimaryHasTheEvents
<1> QED
  BY <1>2, <1>3, <1>4, <1>5

(* A surface gets a canvas that no other has and no JPEG is decoded for.    *)
LEMMA SurfaceCreateStep ==
  ASSUME DisplayInv, NEW s \in Surfaces, NEW primary \in BOOLEAN, NEW alpha \in BOOLEAN,
         SurfaceCreate(s, primary, alpha)
  PROVE  DisplayInv'
<1> USE DEF DisplayInv
<1>1. PICK c \in Free :
         /\ surfaces' = [surfaces EXCEPT ![s] = c]
         /\ right' = right \cup {c} /\ doubt' = doubt \ {c}
         /\ paint' = [paint EXCEPT ![c] = IF alpha THEN "blank" ELSE "solid"]
         /\ IF primary THEN primary_surface' = s /\ onScreen' = onScreen \cup {c} /\ hooked' = hooked \cup {c}
                       ELSE UNCHANGED <<primary_surface, onScreen, hooked>>
  BY DEF SurfaceCreate, HookEvents
<1>2. /\ UNCHANGED <<cache, pending, stream, ended, displayDeaf, serverCache>>
      /\ surfaces[s] = NoCanvas /\ (primary => primary_surface = NoSurface)
  BY DEF SurfaceCreate
<1>3. /\ c \in Canvases /\ c # NoCanvas /\ (\A t \in Surfaces : surfaces[t] # c)
      /\ \A p \in pending : p.canvas # c
  BY DisplayAssumption DEF Free, Range, DisplayTypes
<1>4. \A t \in Surfaces : surfaces'[t] = IF t = s THEN c ELSE surfaces[t]
  BY <1>1 DEF DisplayTypes
<1>5. DisplayTypes'
  BY <1>1, <1>2, <1>3 DEF DisplayTypes
<1>6. CanvasesApart'
  BY <1>2, <1>3, <1>4 DEF CanvasesApart
<1>7. CacheAgrees'
  BY <1>2 DEF CacheAgrees
<1>8. PicturesInv'
  <2> SUFFICES ASSUME ~ended', NEW t \in Surfaces, NEW d, d = surfaces'[t], d # NoCanvas
               PROVE  Firm(d)'
    BY Zenon DEF PicturesInv, Firm, Good
  <2>1. CASE t = s
    BY <1>1, <1>2, <1>3, <1>4, <2>1 DEF Firm
  <2>2. CASE t # s
    <3>1. surfaces[t] = d /\ d # c /\ d \in Canvases /\ Firm(d)
      BY <1>2, <1>3, <1>4, <2>2 DEF PicturesInv, DisplayTypes
    <3>2. paint'[d] = paint[d] /\ (d \in right => d \in right') /\ (d \in doubt => d \in doubt')
      BY <1>1, <3>1 DEF DisplayTypes
    <3> QED
      BY <1>2, <3>1, <3>2, FirmKeeps
  <2> QED
    BY <2>1, <2>2
<1>9. PrimaryExists' /\ PrimaryHasTheEvents'
  <2>1. CASE primary
    <3>1. onScreen = {} /\ hooked = {}
      BY <1>2, <2>1 DEF PrimaryHasTheEvents
    <3>2. onScreen' = {c} /\ hooked' = {c} /\ primary_surface' = s /\ s # NoSurface /\ surfaces'[s] = c
      BY <1>1, <1>4, <2>1, <3>1, DisplayAssumption
    <3> QED
      BY <1>3, <3>2 DEF PrimaryExists, PrimaryHasTheEvents
  <2>2. CASE ~primary
    <3>1. primary_surface # NoSurface =>
            primary_surface \in Surfaces /\ surfaces'[primary_surface] = surfaces[primary_surface]
      BY <1>2, <1>4 DEF PrimaryExists, DisplayTypes
    <3>2. UNCHANGED <<primary_surface, onScreen, hooked>>
      BY <1>1, <2>2
    <3> QED
      BY <3>1, <3>2 DEF PrimaryExists, PrimaryHasTheEvents
  <2> QED
    BY <2>1, <2>2
<1> QED
  BY <1>5, <1>6, <1>7, <1>8, <1>9

LEMMA DeleteKeeps ==
  ASSUME DisplayInv, NEW gone \in SUBSET Surfaces, Delete(gone), ended' = ended \/ ended' = TRUE
  PROVE  DisplayInv'
<1> USE DEF DisplayInv
<1>1. /\ UNCHANGED <<cache, pending, stream, displayDeaf, serverCache>>
      /\ surfaces' = [s \in Surfaces |-> IF s \in gone THEN NoCanvas ELSE surfaces[s]]
      /\ right' = right \ {surfaces[s] : s \in gone} /\ doubt' = doubt \ {surfaces[s] : s \in gone}
      /\ paint' = [c \in Canvases |-> IF c \in {surfaces[s] : s \in gone} THEN "solid" ELSE paint[c]]
      /\ IF primary_surface \in gone
         THEN /\ primary_surface' = NoSurface /\ onScreen' = onScreen \ {surfaces[primary_surface]}
              /\ hooked' = hooked \ {surfaces[primary_surface]}
         ELSE UNCHANGED <<primary_surface, onScreen, hooked>>
  BY DEF Delete, UnhookEvents, Forgotten
<1>2. DisplayTypes'
  <2> DEFINE all == {surfaces[s] : s \in gone}
  <2>1. paint' = [c \in Canvases |-> IF c \in all THEN "solid" ELSE paint[c]]
    BY <1>1
  <2> HIDE DEF all
  <2>2. paint' \in [Canvases -> {"blank", "sheer", "solid"}]
    BY <2>1 DEF DisplayTypes
  <2> QED
    BY <1>1, <2>2 DEF DisplayTypes
<1>3. CanvasesApart'
  <2>1. \A p \in pending : p.canvas # NoCanvas
    BY DisplayAssumption DEF DisplayTypes, Jpegs
  <2>2. \A s \in Surfaces : surfaces'[s] \in {surfaces[s], NoCanvas}
    BY <1>1
  <2> HIDE DEF DisplayInv
  <2>3. CanvasesApart
    BY DEF DisplayInv
  <2>4. \A s, t \in Surfaces : surfaces'[s] = surfaces'[t] /\ surfaces'[s] # NoCanvas => s = t
    BY <2>2, <2>3 DEF CanvasesApart
  <2>5. \A s \in Surfaces, p \in pending : surfaces'[s] = p.canvas => s = p.surface
    BY <2>1, <2>2, <2>3 DEF CanvasesApart
  <2> QED
    BY <1>1, <2>4, <2>5 DEF CanvasesApart
<1>4. CacheAgrees'
  BY <1>1 DEF CacheAgrees
<1>5. PicturesInv'
  <2> SUFFICES ASSUME ~ended', NEW t \in Surfaces, NEW d, d = surfaces'[t], d # NoCanvas
               PROVE  Firm(d)'
    BY Zenon DEF PicturesInv, Firm, Good
  <2> DEFINE all == {surfaces[s] : s \in gone}
  <2>1. surfaces[t] = d /\ t \notin gone /\ ~ended
    BY <1>1
  <2>2. d \in Canvases /\ Firm(d) /\ d \notin all
    BY <2>1 DEF CanvasesApart, PicturesInv, DisplayTypes
  <2>3. paint'[d] = paint[d] /\ (d \in right => d \in right') /\ (d \in doubt => d \in doubt')
    <3> HIDE DEF all
    <3>1. /\ right' = right \ all /\ doubt' = doubt \ all
          /\ paint' = [c \in Canvases |-> IF c \in all THEN "solid" ELSE paint[c]]
      BY <1>1 DEF all
    <3>2. \A x : x \in doubt => x \in doubt' \/ x \in all
      BY <3>1
    <3> QED
      BY <2>2, <3>1, <3>2
  <2> QED
    BY <1>1, <2>2, <2>3, FirmKeeps
<1>6. PrimaryExists' /\ PrimaryHasTheEvents'
  <2>1. CASE primary_surface \in gone
    <3>1. onScreen = {surfaces[primary_surface]} /\ hooked = {surfaces[primary_surface]}
      BY <2>1, DisplayAssumption DEF PrimaryHasTheEvents
    <3>2. onScreen' = {} /\ hooked' = {} /\ primary_surface' = NoSurface
      BY <1>1, <2>1, <3>1
    <3> QED
      BY <3>2 DEF PrimaryExists, PrimaryHasTheEvents
  <2>2. CASE primary_surface \notin gone
    <3>1. primary_surface # NoSurface => surfaces'[primary_surface] = surfaces[primary_surface]
      BY <1>1, <2>2 DEF DisplayTypes
    <3>2. UNCHANGED <<primary_surface, onScreen, hooked>>
      BY <1>1, <2>2
    <3> QED
      BY <3>1, <3>2 DEF PrimaryExists, PrimaryHasTheEvents
  <2> QED
    BY <2>1, <2>2
<1> QED
  BY <1>2, <1>3, <1>4, <1>5, <1>6

LEMMA StreamStep ==
  ASSUME DisplayInv, stream' \in Surfaces \cup {NoSurface},
         UNCHANGED <<surfaceVars, pictureVars, cache, pending, ended, displayDeaf, serverCache>>
  PROVE  DisplayInv'
<1> USE DEF DisplayInv, surfaceVars, pictureVars
<1>1. DisplayTypes' /\ CanvasesApart'
  BY DEF DisplayTypes, CanvasesApart
<1>2. CacheAgrees'
  BY DEF CacheAgrees
<1>3. PicturesInv' /\ PrimaryExists' /\ PrimaryHasTheEvents'
  BY DEF PicturesInv, Firm, Good, PrimaryExists, PrimaryHasTheEvents
<1> QED
  BY <1>1, <1>2, <1>3

LEMMA DisplayStep == DisplayInv /\ [DisplayNext]_displayVars => DisplayInv'
<1> SUFFICES ASSUME DisplayInv, [DisplayNext]_displayVars
             PROVE  DisplayInv'
  OBVIOUS
<1>1. ASSUME NEW s \in Surfaces, DrawNext(s) PROVE DisplayInv'
  <2>1. CASE \E id \in Images, cacheMe, plain \in BOOLEAN, alpha \in {"own", "wrong"} :
               DrawBitmap(s, id, alpha, plain, cacheMe)
    BY <2>1, DrawBitmapStep
  <2>2. CASE \E id \in Images, cacheMe, plain \in BOOLEAN :
               DrawUnknown(s, id, cacheMe) \/ DrawJpeg(s, id, plain, cacheMe)
    BY <2>2, DrawUnknownStep, DrawJpegStep
  <2>3. CASE \E id \in Images, plain \in BOOLEAN : DrawFromCache(s, id, plain)
    BY <2>3, DrawFromCacheStep
  <2>4. CASE \E from \in Surfaces, plain \in BOOLEAN : DrawSurface(s, from, plain)
    BY <2>4, DrawSurfaceStep
  <2>5. CASE \E solid, plain \in BOOLEAN : DrawFill(s, solid, plain)
    BY <2>5, DrawFillStep
  <2> QED
    BY <1>1, <2>1, <2>2, <2>3, <2>4, <2>5, Zenon DEF DrawNext
<1>2. CASE \E s \in Surfaces : SurfaceDestroy(s)
  <2> PICK s \in Surfaces : SurfaceDestroy(s)
    BY <1>2
  <2>1. Delete({s}) /\ ended' = ended
    BY DEF SurfaceDestroy
  <2> QED
    BY <2>1, DeleteKeeps
<1>3. CASE \E s \in Surfaces : StreamCreate(s)
  BY <1>3, StreamStep DEF StreamCreate
<1>4. CASE \E s \in Surfaces, primary, alpha \in BOOLEAN : SurfaceCreate(s, primary, alpha)
  BY <1>4, SurfaceCreateStep
<1>5. CASE \E id \in Images \ Translucent, plain \in BOOLEAN : StreamData(id, plain)
  BY <1>5, StreamDataStep
<1>6. CASE \E p \in pending : Onload(p)
  BY <1>6, OnloadStep
<1>7. CASE \E ids \in SUBSET Images : InvalList(ids)
  BY <1>7, InvalListStep
<1>8. CASE StreamDestroy
  BY <1>8, StreamStep DEF StreamDestroy
<1>9. CASE DisplayStop
  <2>1. ended' = TRUE /\ Delete({s \in Surfaces : surfaces[s] # NoCanvas})
    BY <1>9 DEF DisplayStop
  <2>2. {s \in Surfaces : surfaces[s] # NoCanvas} \in SUBSET Surfaces
    OBVIOUS
  <2> QED
    BY <2>1, <2>2, DeleteKeeps
<1>10. CASE UNCHANGED displayVars
  BY <1>10, StreamStep DEF displayVars, surfaceVars, pictureVars, DisplayInv, DisplayTypes
<1> QED
  BY <1>1, <1>2, <1>3, <1>4, <1>5, <1>6, <1>7, <1>8, <1>9, <1>10,
     Zenon DEF DisplayNext

LEMMA DisplayStarts == DisplayInit => DisplayInv
<1> SUFFICES ASSUME DisplayInit PROVE DisplayInv
  OBVIOUS
<1>1. /\ surfaces = [s \in Surfaces |-> NoCanvas] /\ primary_surface = NoSurface /\ onScreen = {} /\ hooked = {}
      /\ cache = [made |-> FALSE, of |-> <<>>] /\ pending = {} /\ stream = NoSurface
      /\ serverCache = [id \in Images |-> "out"] /\ paint = [c \in Canvases |-> "solid"]
  BY DEF DisplayInit
<1>2. DOMAIN cache = {"made", "of"}
  BY <1>1
<1>3. DisplayTypes
  BY <1>1, <1>2 DEF DisplayTypes
<1>4. CanvasesApart /\ PicturesInv
  BY <1>1 DEF CanvasesApart, PicturesInv
<1>5. CacheAgrees
  BY <1>1 DEF CacheAgrees
<1>6. PrimaryExists /\ PrimaryHasTheEvents
  BY <1>1 DEF PrimaryExists, PrimaryHasTheEvents
<1> QED
  BY <1>3, <1>4, <1>5, <1>6 DEF DisplayInv

(* For any surfaces, images with alpha and without, ids that share a key and *)
(* number of JPEGs the browser decodes at a time: a canvas that is not in    *)
(* doubt, and for which no JPEG is decoded, shows the picture sent last for  *)
(* its surface.                                                              *)
THEOREM PicturesAreTheLast == DisplaySpec => []LastPictureShows
<1>1. DisplayInv => LastPictureShows
  <2> SUFFICES ASSUME DisplayInv, NEW s \in Surfaces, Exists(s), surfaces[s] \notin doubt, ~Loading(surfaces[s])
               PROVE  surfaces[s] \in right
    BY Zenon DEF LastPictureShows
  <2>1. Firm(surfaces[s])
    BY DEF DisplayInv, PicturesInv, Exists
  <2> QED
    BY <2>1 DEF Firm, Loading
<1> QED
  BY <1>1, DisplayStarts, DisplayStep, PTL DEF DisplaySpec

(* The page shows the primary surface and listens to it and to nothing else,*)
(* whatever surfaces come and go, and none after the connection has stopped.*)
THEOREM EventsArePrimarys == DisplaySpec => []PrimaryHasTheEvents
<1>1. DisplayInv => PrimaryHasTheEvents
  BY DEF DisplayInv
<1> QED
  BY <1>1, DisplayStarts, DisplayStep, PTL DEF DisplaySpec
-----------------------------------------------------------------------------
(* A channel: wire.js and spiceconn.js.                                     *)

(* The pieces a server sends, and what comes after each of them.            *)
Deeds == {"", "refuse", "throw", "set_ack"}
SentPieces == [kind : {"hdr", "reply", "auth", "mini", "body"}, len : Nat, size : Nat, does : Deeds, n : Nat]
Shaped(p) ==
    /\ p.len > 0
    /\ p.kind \in {"hdr", "reply", "auth"} => p.len = 1 /\ p.size = 1
    /\ p.kind = "mini" => p.len = Mini
    /\ p.does = "set_ack" => p.kind = "body" \/ (p.kind = "mini" /\ p.size = 0)
Follows(p, q) ==
    /\ p.kind = "hdr" => q.kind = "reply"
    /\ p.kind = "reply" => q.kind = "auth"
    /\ p.kind \in {"auth", "body"} \/ (p.kind = "mini" /\ p.size = 0) => q.kind = "mini"
    /\ p.kind = "mini" /\ p.size # 0 => q.kind = "body" /\ q.len = p.size
HalfSent(p) == p.kind = "mini" /\ p.size # 0
Chained(o) ==
    /\ \A i \in 1..Len(o) : Shaped(o[i]) /\ (HalfSent(o[i]) => i < Len(o))
    /\ \A i \in 1..Len(o) - 1 : Follows(o[i], o[i+1])

Acks == [window : Nat, until : Int]
Servers == [sent : Nat, ticket : BOOLEAN, window : Nat, unacked : Int, synced : BOOLEAN]
ChannelStates == [ws : {"connecting", "open", "closed"},
    state : {"connecting", "start", "link", "ticket", "ready", "error", "closing"},
    needed : Nat, saved : Nat, buffers : Seq(Nat), ack : Acks,
    owed : Seq(SentPieces),
    srv : Servers,
    timeout : BOOLEAN, threw : BOOLEAN, thrown : BOOLEAN, garbled : BOOLEAN]

(* The stage the channel is in: what the state asks for is what comes next. *)
Asks(s) ==
    /\ s.state \in {"start", "link", "ticket", "ready"}
    /\ s.state # "ready" => s.needed = 1 /\ s.saved = 0
    /\ s.state = "ready" => s.needed = (IF s.saved = 0 THEN Mini ELSE s.saved)
Stage(s) ==
    /\ s.state \in {"start", "link"} =>
         s.srv.sent = 0 /\ ~s.srv.ticket /\ \A i \in 1..Len(s.owed) : s.owed[i].kind \in {"hdr", "reply"}
    /\ s.state \in {"ticket", "ready"} => \A i \in 1..Len(s.owed) : s.owed[i].kind \notin {"hdr", "reply"}
    /\ s.state = "ticket" => (s.owed = <<>> <=> s.srv.sent = 0)
    /\ s.state = "ready" => s.srv.sent # 0 /\ (s.owed = <<>> => s.saved = 0)
Aligned(s) ==
    /\ Asks(s) /\ Stage(s) /\ Chained(s.owed)
    /\ s.owed # <<>> => s.owed[1].kind = Expected(s) /\ s.owed[1].len = s.needed

(* The bytes of what is owed, and its messages from the k-th piece on.      *)
Lens(o) == Total([i \in 1..Len(o) |-> o[i].len])
Weight(p) == IF p.kind = "body" \/ (p.kind = "mini" /\ p.size = 0) THEN 1 ELSE 0
Pending(o, k) == Total([i \in 1..Len(o) - k + 1 |-> Weight(o[i + k - 1])])

Held(s) == IF s.buffers = <<>> THEN 0 ELSE s.buffers[1]
OneBlock(s) == Len(s.buffers) <= 1 /\ (s.buffers # <<>> => s.buffers[1] > 0) /\ Held(s) <= Lens(s.owed)

(* The server's count: messages of its last SET_ACK on, less what was acked.*)
LastSetAck(o, k, w) ==
    /\ k \in 1..Len(o) /\ o[k].does = "set_ack" /\ o[k].n = w
    /\ \A i \in k+1..Len(o) : o[i].does # "set_ack"
Counted(s) ==
    s.srv.window # 0 =>
      \/ /\ s.srv.synced /\ s.ack.window = s.srv.window /\ s.ack.until \in 1..s.ack.window
         /\ s.srv.unacked = s.ack.window - s.ack.until + Pending(s.owed, 1)
         /\ Answered(s)
      \/ /\ ~s.srv.synced
         /\ \E k \in 1..Len(s.owed) : /\ LastSetAck(s.owed, k, s.srv.window)
                                      /\ s.srv.unacked = Pending(s.owed, k)
Right(s) == Aligned(s) /\ OneBlock(s) /\ Counted(s)
Gone(s) == s.ws = "closed" /\ s.state = "closing"
OnTrack(s) ==
    /\ ~s.garbled
    /\ \/ s.thrown
       \/ s.ws = "closed" /\ (s.state = "ready" => Counted(s))
       \/ s.ws = "open" /\ Right(s)

Starting ==
    /\ state = "connecting" /\ owed = <<>> /\ rd.needed = 0 /\ rd.saved = 0 /\ rd.buffers = <<>>
    /\ srv.sent = 0 /\ ~srv.ticket /\ srv.window = 0 /\ ~garbled
NoneWaits == ws = "open" => Held(Channel) < rd.needed
Readers == [needed : Nat, buffers : Seq(Nat), saved : Nat]
ChannelTypes == main \in BOOLEAN /\ rd \in Readers /\ Channel \in ChannelStates
ChannelInv == ~threw => IF ws = "connecting" THEN Starting ELSE OnTrack(Channel) /\ NoneWaits

LEMMA TotalIs ==
  ASSUME NEW f
  PROVE  Total(f) = SumOf(f)
BY Zenon DEF Total, SumOf

LEMMA TotalNone ==
  ASSUME NEW f \in [1..0 -> Nat]
  PROVE  Total(f) = 0
BY TotalIs, SumNone

LEMMA TotalNat ==
  ASSUME NEW n \in Nat, NEW f \in [1..n -> Nat]
  PROVE  Total(f) \in Nat
BY TotalIs, SumNat

LEMMA TotalLast ==
  ASSUME NEW n \in Nat, NEW f \in [1..n+1 -> Nat], NEW g \in [1..n -> Nat],
         \A i \in 1..n : g[i] = f[i]
  PROVE  Total(f) = Total(g) + f[n+1]
BY TotalIs, SumLast

LEMMA TotalFirst ==
  ASSUME NEW n \in Nat, NEW f \in [1..n+1 -> Nat], NEW g \in [1..n -> Nat],
         \A i \in 1..n : g[i] = f[i+1]
  PROVE  Total(f) = f[1] + Total(g)
BY TotalIs, SumFirst

LEMMA PieceFields ==
  ASSUME NEW p \in SentPieces
  PROVE  /\ p.len \in Nat /\ p.size \in Nat /\ p.n \in Nat
         /\ p.kind \in {"hdr", "reply", "auth", "mini", "body"}
         /\ p.does \in Deeds
BY DEF SentPieces

LEMMA LensNat ==
  ASSUME NEW o \in Seq(SentPieces)
  PROVE  Lens(o) \in Nat /\ Lens(<<>>) = 0
<1> DEFINE f == [i \in 1..Len(o) |-> o[i].len]
           e == [i \in 1..Len(<<>>) |-> <<>>[i].len]
<1>1. Len(o) \in Nat /\ f \in [1..Len(o) -> Nat]
  BY ElementOfSeq, LenProperties, PieceFields
<1>2. e \in [1..0 -> Nat]
  OBVIOUS
<1>3. Lens(o) = Total(f) /\ Lens(<<>>) = Total(e)
  BY DEF Lens
<1> HIDE DEF f, e
<1> QED
  BY <1>1, <1>2, <1>3, TotalNat, TotalNone

LEMMA LensTail ==
  ASSUME NEW o \in Seq(SentPieces), o # <<>>
  PROVE  Lens(o) = o[1].len + Lens(Tail(o))
<1> DEFINE n == Len(Tail(o))
           f == [i \in 1..Len(o) |-> o[i].len]
           g == [i \in 1..n |-> Tail(o)[i].len]
<1>1. /\ n \in Nat /\ Len(o) = n + 1 /\ \A i \in 1..n : Tail(o)[i] = o[i+1]
      /\ \A i \in 1..n+1 : o[i] \in SentPieces
  BY HeadTailProperties, EmptySeq, ElementOfSeq
<1> HIDE DEF n
<1>0. \A i \in 1..n+1 : o[i].len \in Nat
  BY <1>1, PieceFields
<1>2. f \in [1..n+1 -> Nat] /\ g \in [1..n -> Nat] /\ \A i \in 1..n : g[i] = f[i+1]
  BY <1>0, <1>1
<1>3. f[1] = o[1].len
  BY <1>1
<1>4. Lens(o) = Total(f) /\ Lens(Tail(o)) = Total(g)
  BY DEF Lens, n
<1> HIDE DEF f, g
<1> QED
  BY <1>1, <1>2, <1>3, <1>4, TotalFirst

LEMMA LensLast ==
  ASSUME NEW o \in Seq(SentPieces), NEW p \in SentPieces
  PROVE  Lens(Append(o, p)) = Lens(o) + p.len
<1> DEFINE n == Len(o)
           f == [i \in 1..Len(Append(o, p)) |-> Append(o, p)[i].len]
           g == [i \in 1..n |-> o[i].len]
<1>1. /\ n \in Nat /\ Len(Append(o, p)) = n + 1 /\ \A i \in 1..n : Append(o, p)[i] = o[i]
      /\ Append(o, p)[n+1] = p /\ \A i \in 1..n : o[i] \in SentPieces
      /\ \A i \in 1..n+1 : Append(o, p)[i] \in SentPieces
  BY AppendProperties, LenProperties, ElementOfSeq
<1> HIDE DEF n
<1>0. (\A i \in 1..n : o[i].len \in Nat) /\ p.len \in Nat
  BY <1>1, PieceFields
<1>2. f \in [1..n+1 -> Nat] /\ g \in [1..n -> Nat] /\ \A i \in 1..n : g[i] = f[i]
  BY <1>0, <1>1
<1>3. f[n+1] = p.len
  BY <1>1
<1>4. Lens(Append(o, p)) = Total(f) /\ Lens(o) = Total(g)
  BY DEF Lens, n
<1> HIDE DEF f, g
<1> QED
  BY <1>1, <1>2, <1>3, <1>4, TotalLast

LEMMA PendingNone ==
  ASSUME NEW o \in Seq(SentPieces)
  PROVE  Pending(o, Len(o) + 1) = 0
<1> DEFINE f == [i \in 1..Len(o) - (Len(o) + 1) + 1 |-> Weight(o[i + (Len(o) + 1) - 1])]
<1>1. f \in [1..0 -> Nat]
  BY LenProperties
<1>2. Pending(o, Len(o) + 1) = Total(f)
  BY DEF Pending
<1> HIDE DEF f
<1> QED
  BY <1>1, <1>2, TotalNone

LEMMA PendingFirst ==
  ASSUME NEW o \in Seq(SentPieces), o # <<>>
  PROVE  /\ Pending(Tail(o), 1) \in Nat
         /\ Pending(o, 1) = Weight(o[1]) + Pending(Tail(o), 1)
<1> DEFINE n == Len(Tail(o))
           f == [i \in 1..Len(o) - 1 + 1 |-> Weight(o[i + 1 - 1])]
           g == [i \in 1..n - 1 + 1 |-> Weight(Tail(o)[i + 1 - 1])]
<1>1. n \in Nat /\ Len(o) = n + 1 /\ \A i \in 1..n : Tail(o)[i] = o[i+1]
  BY HeadTailProperties, EmptySeq, ElementOfSeq
<1>2. Pending(o, 1) = Total(f) /\ Pending(Tail(o), 1) = Total(g)
  BY DEF Pending
<1> HIDE DEF n
<1>3. f \in [1..n+1 -> Nat] /\ g \in [1..n -> Nat] /\ \A i \in 1..n : g[i] = f[i+1]
  BY <1>1 DEF Weight
<1>4. f[1] = Weight(o[1])
  BY <1>1
<1> HIDE DEF f, g
<1> QED
  BY <1>1, <1>2, <1>3, <1>4, TotalFirst, TotalNat

LEMMA PendingTail ==
  ASSUME NEW o \in Seq(SentPieces), NEW k \in 2..Len(o)
  PROVE  Pending(Tail(o), k - 1) = Pending(o, k)
<1>1. o # <<>> /\ Len(Tail(o)) = Len(o) - 1 /\ \A i \in 1..Len(o)-1 : Tail(o)[i] = o[i+1]
  BY HeadTailProperties, EmptySeq
<1>2. Len(o) \in Nat
  BY LenProperties
<1>3. \A i \in 1..Len(o) - k + 1 : Tail(o)[i + (k - 1) - 1] = o[i + k - 1]
  BY <1>1, <1>2
<1>4. [i \in 1..Len(Tail(o)) - (k - 1) + 1 |-> Weight(Tail(o)[i + (k - 1) - 1])]
      = [i \in 1..Len(o) - k + 1 |-> Weight(o[i + k - 1])]
  BY <1>1, <1>2, <1>3
<1> QED
  BY <1>4, Zenon DEF Pending

LEMMA PendingLast ==
  ASSUME NEW o \in Seq(SentPieces), NEW p \in SentPieces, NEW k \in 1..Len(o) + 1
  PROVE  Pending(Append(o, p), k) = Pending(o, k) + Weight(p) /\ Pending(o, k) \in Nat
<1> DEFINE n == Len(o) - k + 1
           f == [i \in 1..Len(Append(o, p)) - k + 1 |-> Weight(Append(o, p)[i + k - 1])]
           g == [i \in 1..Len(o) - k + 1 |-> Weight(o[i + k - 1])]
<1>1. /\ n \in Nat /\ Len(Append(o, p)) - k + 1 = n + 1 /\ (n + 1) + k - 1 = Len(o) + 1
      /\ \A i \in 1..n : i + k - 1 \in 1..Len(o)
      /\ \A i \in 1..Len(o) : Append(o, p)[i] = o[i]
      /\ Append(o, p)[Len(o)+1] = p
  BY AppendProperties, LenProperties
<1>2. Pending(Append(o, p), k) = Total(f) /\ Pending(o, k) = Total(g)
  BY DEF Pending
<1>3. f \in [1..n+1 -> Nat] /\ g \in [1..n -> Nat] /\ \A i \in 1..n : g[i] = f[i]
  BY <1>1 DEF Weight
<1>4. f[n+1] = Weight(p)
  BY <1>1
<1> HIDE DEF f, g, n
<1> QED
  BY <1>1, <1>2, <1>3, <1>4, TotalLast, TotalNat

(* The operators on the channel's record, one by one.                       *)
LEMMA ReportIs ==
  ASSUME NEW s \in ChannelStates
  PROVE  /\ Stopped(s) \in ChannelStates /\ Stopped(s).threw = s.threw
         /\ Stopped(s).buffers = s.buffers /\ Stopped(s).garbled = s.garbled /\ Gone(Stopped(s))
         /\ Report(s) \in ChannelStates /\ Report(s).threw = s.threw
         /\ Report(s).buffers = s.buffers /\ Report(s).garbled = s.garbled
         /\ Report(s).thrown \/ Gone(Report(s))
<1>1. /\ Stopped(s) \in ChannelStates /\ Stopped(s).threw = s.threw
      /\ Stopped(s).buffers = s.buffers /\ Stopped(s).garbled = s.garbled /\ Gone(Stopped(s))
  BY DEF Stopped, ChannelStates, Gone
<1>2. CASE main
  BY <1>1, <1>2 DEF Report
<1>3. CASE ~main
  <2>1. Report(s) = [s EXCEPT !.thrown = TRUE]
    BY <1>3 DEF Report
  <2> QED
    BY <1>1, <2>1 DEF ChannelStates
<1> QED
  BY <1>2, <1>3

LEMMA FailedIs ==
  ASSUME NEW s \in ChannelStates
  PROVE  /\ Failed(s) \in ChannelStates /\ Failed(s).threw = s.threw
         /\ Failed(s).buffers = s.buffers /\ Failed(s).garbled = s.garbled
         /\ Failed(s).thrown \/ Gone(Failed(s))
<1> DEFINE t == [s EXCEPT !.state = "error"]
<1>1. t \in ChannelStates /\ t.threw = s.threw /\ t.buffers = s.buffers /\ t.garbled = s.garbled
  BY DEF ChannelStates
<1>2. Failed(s) = Report(t)
  BY DEF Failed
<1> HIDE DEF t
<1> QED
  BY <1>1, <1>2, ReportIs

(* Counting a message, and answering SET_ACK, changes only the counts.      *)
OnlyCounts(s, t) ==
    /\ t \in ChannelStates
    /\ t.ws = s.ws /\ t.state = s.state /\ t.needed = s.needed /\ t.saved = s.saved
    /\ t.buffers = s.buffers /\ t.owed = s.owed /\ t.threw = s.threw /\ t.garbled = s.garbled
    /\ t.srv.sent = s.srv.sent /\ t.srv.ticket = s.srv.ticket /\ t.srv.window = s.srv.window
    /\ t.ack.window = s.ack.window /\ t.srv.synced = s.srv.synced /\ t.thrown = s.thrown

Recounted(s, a, v) == [s EXCEPT !.ack = a, !.srv = v]

LEMMA WithCounts ==
  ASSUME NEW s \in ChannelStates, NEW a \in Acks, NEW v \in Servers
  PROVE  LET t == Recounted(s, a, v) IN
         /\ t \in ChannelStates /\ t.ack = a /\ t.srv = v
         /\ t.ws = s.ws /\ t.state = s.state /\ t.needed = s.needed /\ t.saved = s.saved
         /\ t.buffers = s.buffers /\ t.owed = s.owed /\ t.threw = s.threw /\ t.garbled = s.garbled
         /\ t.thrown = s.thrown
BY DEF Recounted, ChannelStates

LEMMA CountParts ==
  ASSUME NEW s \in ChannelStates
  PROVE  /\ s.ack \in Acks /\ s.srv \in Servers
         /\ \A n \in Int : LET a == [s.ack EXCEPT !.until = n] IN
              a \in Acks /\ a.window = s.ack.window /\ a.until = n
         /\ \A n \in Int : LET v == [s.srv EXCEPT !.unacked = n] IN
              v \in Servers /\ v.unacked = n /\ v.sent = s.srv.sent /\ v.ticket = s.srv.ticket
              /\ v.window = s.srv.window /\ v.synced = s.srv.synced
         /\ \A b \in BOOLEAN : LET v == [s.srv EXCEPT !.synced = b] IN
              v \in Servers /\ v.synced = b /\ v.sent = s.srv.sent /\ v.ticket = s.srv.ticket
              /\ v.window = s.srv.window /\ v.unacked = s.srv.unacked
<1>1. s.ack \in Acks /\ s.srv \in Servers
  BY DEF ChannelStates, Acks, Servers
<1> DEFINE a0 == s.ack
           v0 == s.srv
<1> HIDE DEF a0, v0
<1>2. a0 \in Acks /\ v0 \in Servers
  BY <1>1 DEF a0, v0
<1>3. \A n \in Int : LET a == [a0 EXCEPT !.until = n] IN
              a \in Acks /\ a.window = a0.window /\ a.until = n
  BY <1>2 DEF Acks
<1>4. \A n \in Int : LET v == [v0 EXCEPT !.unacked = n] IN
              v \in Servers /\ v.unacked = n /\ v.sent = v0.sent /\ v.ticket = v0.ticket
              /\ v.window = v0.window /\ v.synced = v0.synced
  BY <1>2 DEF Servers
<1>5. \A b \in BOOLEAN : LET v == [v0 EXCEPT !.synced = b] IN
              v \in Servers /\ v.synced = b /\ v.sent = v0.sent /\ v.ticket = v0.ticket
              /\ v.window = v0.window /\ v.unacked = v0.unacked
  BY <1>2 DEF Servers
<1> QED
  BY <1>1, <1>3, <1>4, <1>5, Zenon DEF a0, v0

LEMMA CountIs ==
  ASSUME NEW s \in ChannelStates
  PROVE  LET t == CountMessage(s) IN
         /\ OnlyCounts(s, t)
         /\ s.ack.window # 0 /\ s.ack.until - 1 > 0 =>
              t.ack.until = s.ack.until - 1 /\ t.srv.unacked = s.srv.unacked
         /\ s.ack.window # 0 /\ ~(s.ack.until - 1 > 0) =>
              /\ t.ack.until = s.ack.window
              /\ t.srv.unacked = IF s.srv.synced THEN s.srv.unacked - s.srv.window ELSE s.srv.unacked
         /\ ~s.srv.synced => t.srv.unacked = s.srv.unacked
<1>0. /\ s.ack.window \in Nat /\ s.ack.until \in Int /\ s.srv.unacked \in Int /\ s.srv.window \in Nat
      /\ s.ack \in Acks /\ s.srv \in Servers
  BY CountParts DEF Acks, Servers
<1>1. CASE s.ack.window = 0
  <2>1. CountMessage(s) = s
    BY <1>1 DEF CountMessage
  <2> QED
    BY <1>1, <2>1 DEF OnlyCounts
<1>2. CASE s.ack.window # 0 /\ s.ack.until - 1 > 0
  <2> DEFINE a == [s.ack EXCEPT !.until = s.ack.until - 1]
             t == Recounted(s, a, s.srv)
  <2>1. CountMessage(s) = t
    BY <1>2 DEF CountMessage, Recounted, ChannelStates
  <2>2. s.ack.until - 1 \in Int
    BY <1>0
  <2>3. a \in Acks /\ a.window = s.ack.window /\ a.until = s.ack.until - 1
    BY <2>2, CountParts, Zenon
  <2> HIDE DEF a
  <2>4. OnlyCounts(s, t) /\ t.ack = a /\ t.srv = s.srv
    <3> HIDE DEF t
    <3>1. LET r == t IN
          /\ r \in ChannelStates /\ r.ack = a /\ r.srv = s.srv
          /\ r.ws = s.ws /\ r.state = s.state /\ r.needed = s.needed /\ r.saved = s.saved
          /\ r.buffers = s.buffers /\ r.owed = s.owed /\ r.threw = s.threw /\ r.garbled = s.garbled
          /\ r.thrown = s.thrown
      BY <1>0, <2>3, WithCounts, Zenon DEF t
    <3> QED
      BY <2>3, <3>1 DEF OnlyCounts
  <2> HIDE DEF t
  <2> QED
    BY <1>2, <2>1, <2>3, <2>4
<1>3. CASE s.ack.window # 0 /\ ~(s.ack.until - 1 > 0)
  <2> DEFINE a == [s.ack EXCEPT !.until = s.ack.window]
             u == Recounted(s, a, s.srv)
             v == [s.srv EXCEPT !.unacked = s.srv.unacked - s.srv.window]
             w == Recounted(u, a, v)
  <2>1. CountMessage(s) = SendAck(u)
    BY <1>3 DEF CountMessage, Recounted, ChannelStates
  <2>2. s.ack.window \in Int /\ s.srv.unacked - s.srv.window \in Int
    BY <1>0
  <2>3. a \in Acks /\ a.window = s.ack.window /\ a.until = s.ack.window
    BY <2>2, CountParts, Zenon
  <2>4. /\ v \in Servers /\ v.unacked = s.srv.unacked - s.srv.window /\ v.sent = s.srv.sent
        /\ v.ticket = s.srv.ticket /\ v.window = s.srv.window /\ v.synced = s.srv.synced
    BY <2>2, CountParts, Zenon
  <2>5. OnlyCounts(s, u) /\ u.ack = a /\ u.srv = s.srv
    <3> HIDE DEF a, u
    <3>1. LET r == u IN
          /\ r \in ChannelStates /\ r.ack = a /\ r.srv = s.srv
          /\ r.ws = s.ws /\ r.state = s.state /\ r.needed = s.needed /\ r.saved = s.saved
          /\ r.buffers = s.buffers /\ r.owed = s.owed /\ r.threw = s.threw /\ r.garbled = s.garbled
          /\ r.thrown = s.thrown
      BY <1>0, <2>3, WithCounts, Zenon DEF u
    <3> QED
      BY <2>3, <3>1 DEF OnlyCounts
  <2>6. CASE s.srv.synced
    <3>1. SendAck(u) = w
      <4>1. SendAck(u) = [u EXCEPT !.srv.unacked = @ - u.srv.window]
        BY <2>5, <2>6 DEF SendAck
      <4>2. u \in ChannelStates
        BY <2>5 DEF OnlyCounts
      <4> HIDE DEF u, a
      <4> QED
        BY <2>5, <4>1, <4>2 DEF Recounted, ChannelStates
    <3> HIDE DEF u, v, a
    <3>2. OnlyCounts(u, w) /\ w.ack = a /\ w.srv = v
      <4> HIDE DEF w
      <4>0. u \in ChannelStates
        BY <2>5 DEF OnlyCounts
      <4>1. LET r == w IN
            /\ r \in ChannelStates /\ r.ack = a /\ r.srv = v
            /\ r.ws = u.ws /\ r.state = u.state /\ r.needed = u.needed /\ r.saved = u.saved
            /\ r.buffers = u.buffers /\ r.owed = u.owed /\ r.threw = u.threw /\ r.garbled = u.garbled
            /\ r.thrown = u.thrown
        BY <2>3, <2>4, <4>0, WithCounts, Zenon DEF w
      <4> QED
        BY <2>3, <2>4, <2>5, <4>1 DEF OnlyCounts
    <3> HIDE DEF w
    <3> QED
      BY <1>3, <2>1, <2>3, <2>4, <2>5, <2>6, <3>1, <3>2 DEF OnlyCounts
  <2>7. CASE ~s.srv.synced
    <3> HIDE DEF u, a
    <3>1. SendAck(u) = u
      BY <2>5, <2>7 DEF SendAck
    <3> QED
      BY <1>3, <2>1, <2>3, <2>5, <2>7, <3>1
  <2> QED
    BY <2>6, <2>7
<1> QED
  BY <1>1, <1>2, <1>3

(* A message that is handled: its handler throws, or it is counted.         *)
Answering(s, p) == [s EXCEPT !.ack = [window |-> p.n, until |-> p.n], !.srv.synced = Answered(s)]

LEMMA AnsweringIs ==
  ASSUME NEW s \in ChannelStates, NEW p \in SentPieces
  PROVE  LET t == Answering(s, p) IN
         /\ t \in ChannelStates
         /\ t.ws = s.ws /\ t.state = s.state /\ t.needed = s.needed /\ t.saved = s.saved
         /\ t.buffers = s.buffers /\ t.owed = s.owed /\ t.threw = s.threw /\ t.garbled = s.garbled
         /\ t.srv.sent = s.srv.sent /\ t.srv.ticket = s.srv.ticket /\ t.srv.window = s.srv.window
         /\ t.thrown = s.thrown /\ t.srv.unacked = s.srv.unacked
         /\ t.ack.window = p.n /\ t.ack.until = p.n /\ t.srv.synced = Answered(s)
<1> DEFINE a == [window |-> p.n, until |-> p.n]
           v == [s.srv EXCEPT !.synced = Answered(s)]
           t == Recounted(s, a, v)
<1>1. Answered(s) \in BOOLEAN
  BY DEF Answered
<1>2. Answering(s, p) = t
  BY DEF Answering, Recounted, ChannelStates
<1>3. a \in Acks
  <2>1. p.n \in Nat
    BY PieceFields
  <2> QED
    BY <2>1 DEF Acks
<1>4. /\ v \in Servers /\ v.synced = Answered(s) /\ v.sent = s.srv.sent /\ v.ticket = s.srv.ticket
      /\ v.window = s.srv.window /\ v.unacked = s.srv.unacked
  BY <1>1, CountParts, Zenon
<1>5. a.window = p.n /\ a.until = p.n
  OBVIOUS
<1> HIDE DEF a, v
<1>6. LET r == t IN
      /\ r \in ChannelStates /\ r.ack = a /\ r.srv = v
      /\ r.ws = s.ws /\ r.state = s.state /\ r.needed = s.needed /\ r.saved = s.saved
      /\ r.buffers = s.buffers /\ r.owed = s.owed /\ r.threw = s.threw /\ r.garbled = s.garbled
      /\ r.thrown = s.thrown
  BY <1>3, <1>4, WithCounts, Zenon
<1> HIDE DEF t
<1> QED
  BY <1>2, <1>4, <1>5, <1>6

Kept(s, t) ==
    /\ t \in ChannelStates /\ t.ws = s.ws /\ t.buffers = s.buffers /\ t.owed = s.owed
    /\ t.threw = s.threw /\ t.garbled = s.garbled
Placed(s, t, st, n, k) == t.state = st /\ t.needed = n /\ t.saved = k /\ t.thrown = s.thrown
SameServer(s, t) ==
    t.srv.sent = s.srv.sent /\ t.srv.ticket = s.srv.ticket /\ t.srv.window = s.srv.window
SameCounts(s, t) == t.ack = s.ack /\ t.srv = s.srv

LEMMA MessageIs ==
  ASSUME NEW s \in ChannelStates, NEW p \in SentPieces
  PROVE  LET t == ProcessMessage(s, p) IN
         /\ Kept(s, t) /\ SameServer(s, t)
         /\ \/ t.thrown
            \/ /\ Placed(s, t, s.state, s.needed, s.saved)
               /\ t = CountMessage(IF p.does = "set_ack" THEN Answering(s, p) ELSE s)
<1>1. CASE p.does = "throw"
  <2>1. ProcessMessage(s, p) = [s EXCEPT !.thrown = TRUE]
    BY <1>1 DEF ProcessMessage
  <2> QED
    BY <2>1 DEF ChannelStates, Kept, SameServer
<1>2. CASE p.does = "set_ack"
  <2> DEFINE u == Answering(s, p)
             t == CountMessage(u)
  <2>1. ProcessMessage(s, p) = t
    BY <1>2 DEF ProcessMessage, Answering
  <2>2. /\ u \in ChannelStates
        /\ u.ws = s.ws /\ u.state = s.state /\ u.needed = s.needed /\ u.saved = s.saved
        /\ u.buffers = s.buffers /\ u.owed = s.owed /\ u.threw = s.threw /\ u.garbled = s.garbled
        /\ u.srv.sent = s.srv.sent /\ u.srv.ticket = s.srv.ticket /\ u.srv.window = s.srv.window
        /\ u.thrown = s.thrown
    BY AnsweringIs
  <2>3. OnlyCounts(u, t)
    <3> HIDE DEF u
    <3> QED
      BY <2>2, CountIs
  <2> HIDE DEF t, u
  <2>4. Kept(s, t) /\ SameServer(s, t) /\ Placed(s, t, s.state, s.needed, s.saved)
    BY <2>2, <2>3 DEF Kept, SameServer, OnlyCounts, Placed
  <2> QED
    BY <1>2, <2>1, <2>4 DEF t, u
<1>3. CASE p.does \notin {"throw", "set_ack"}
  <2> DEFINE t == CountMessage(s)
  <2>1. ProcessMessage(s, p) = t
    BY <1>3 DEF ProcessMessage
  <2>2. OnlyCounts(s, t)
    BY CountIs
  <2> HIDE DEF t
  <2>3. Kept(s, t) /\ SameServer(s, t) /\ Placed(s, t, s.state, s.needed, s.saved)
    BY <2>2 DEF Kept, SameServer, OnlyCounts, Placed
  <2> QED
    BY <1>3, <2>1, <2>3 DEF t
<1> QED
  BY <1>1, <1>2, <1>3

LEMMA HdrIs ==
  ASSUME NEW s \in ChannelStates, NEW p \in SentPieces
  PROVE  LET r == Hdr(s, p) IN
         /\ r \in ChannelStates /\ r.threw = s.threw /\ r.buffers = s.buffers /\ r.garbled = s.garbled
         /\ \/ r.thrown \/ Gone(r)
            \/ Kept(s, r) /\ Placed(s, r, "link", p.size, s.saved) /\ SameCounts(s, r)
<1>1. CASE p.does = "refuse"
  BY <1>1, FailedIs DEF Hdr
<1>2. CASE p.does # "refuse"
  <2>1. Hdr(s, p) = [[s EXCEPT !.needed = p.size] EXCEPT !.state = "link"]
    BY <1>2 DEF Hdr, Request
  <2>2. p.size \in Nat
    BY PieceFields
  <2> QED
    BY <2>1, <2>2 DEF ChannelStates, Kept, Placed, SameCounts
<1> QED
  BY <1>1, <1>2

LEMMA ReplyIs ==
  ASSUME NEW s \in ChannelStates, NEW p \in SentPieces
  PROVE  LET r == Reply(s, p) IN
         /\ r \in ChannelStates /\ r.threw = s.threw /\ r.buffers = s.buffers /\ r.garbled = s.garbled
         /\ \/ r.thrown \/ Gone(r)
            \/ /\ Kept(s, r) /\ Placed(s, r, "ticket", 1, s.saved)
               /\ r.srv.sent = s.srv.sent /\ r.srv.ticket /\ r.srv.window = s.srv.window
               /\ r.srv.unacked = s.srv.unacked /\ r.srv.synced = s.srv.synced /\ r.ack = s.ack
<1>1. CASE p.does = "refuse"
  BY <1>1, FailedIs DEF Reply
<1>2. CASE p.does # "refuse"
  <2> DEFINE v == [s.srv EXCEPT !.ticket = TRUE]
  <2>1. Reply(s, p) = [s EXCEPT !.needed = 1, !.state = "ticket", !.srv = v]
    BY <1>2 DEF Reply, Request, ChannelStates
  <2>2. /\ v \in Servers /\ v.sent = s.srv.sent /\ v.ticket /\ v.window = s.srv.window
        /\ v.unacked = s.srv.unacked /\ v.synced = s.srv.synced
    <3>1. s.srv \in Servers
      BY CountParts
    <3> QED
      BY <3>1 DEF Servers
  <2> DEFINE r == Reply(s, p)
  <2>3. s.srv \in Servers /\ v \in Servers
    BY <2>2, CountParts
  <2> DEFINE u == [s EXCEPT !.needed = 1, !.state = "ticket"]
  <2>5. /\ u \in ChannelStates /\ u.ws = s.ws /\ u.buffers = s.buffers /\ u.owed = s.owed
        /\ u.threw = s.threw /\ u.garbled = s.garbled /\ u.saved = s.saved /\ u.needed = 1
        /\ u.state = "ticket" /\ u.thrown = s.thrown /\ u.ack = s.ack
    BY DEF ChannelStates
  <2>6. r = [u EXCEPT !.srv = v]
    BY <2>1
  <2> HIDE DEF v, r, u
  <2>4. /\ r \in ChannelStates /\ r.ws = s.ws /\ r.buffers = s.buffers /\ r.owed = s.owed
        /\ r.threw = s.threw /\ r.garbled = s.garbled /\ r.saved = s.saved /\ r.needed = 1
        /\ r.state = "ticket" /\ r.thrown = s.thrown /\ r.srv = v /\ r.ack = s.ack
    BY <2>3, <2>5, <2>6 DEF ChannelStates
  <2> QED
    BY <2>2, <2>4 DEF r, Kept, Placed
<1> QED
  BY <1>1, <1>2

LEMMA AuthIs ==
  ASSUME NEW s \in ChannelStates, NEW p \in SentPieces
  PROVE  LET r == Auth(s, p) IN
         /\ r \in ChannelStates /\ r.threw = s.threw /\ r.buffers = s.buffers /\ r.garbled = s.garbled
         /\ \/ r.thrown \/ Gone(r)
            \/ Kept(s, r) /\ Placed(s, r, "ready", Mini, s.saved) /\ SameCounts(s, r)
<1>1. CASE p.does = "refuse"
  BY <1>1, FailedIs DEF Auth
<1>2. CASE p.does # "refuse"
  <2>1. Auth(s, p) = [[s EXCEPT !.needed = Mini] EXCEPT !.state = "ready", !.timeout = FALSE]
    BY <1>2 DEF Auth, Request
  <2>2. Mini \in Nat
    BY ChannelAssumption
  <2> DEFINE u == [s EXCEPT !.needed = Mini]
             r == Auth(s, p)
  <2>3. /\ u \in ChannelStates /\ u.ws = s.ws /\ u.buffers = s.buffers /\ u.owed = s.owed
        /\ u.threw = s.threw /\ u.garbled = s.garbled /\ u.saved = s.saved /\ u.needed = Mini
        /\ u.thrown = s.thrown /\ u.srv = s.srv /\ u.ack = s.ack
    BY <2>2 DEF ChannelStates
  <2>4. r = [u EXCEPT !.state = "ready", !.timeout = FALSE]
    BY <2>1
  <2> HIDE DEF u, r
  <2>5. /\ r \in ChannelStates /\ r.ws = u.ws /\ r.buffers = u.buffers /\ r.owed = u.owed
        /\ r.threw = u.threw /\ r.garbled = u.garbled /\ r.saved = u.saved /\ r.needed = u.needed
        /\ r.state = "ready" /\ r.thrown = u.thrown /\ r.srv = u.srv /\ r.ack = u.ack
    BY <2>3, <2>4 DEF ChannelStates
  <2> QED
    BY <2>3, <2>5 DEF r, Kept, Placed, SameCounts
<1> QED
  BY <1>1, <1>2

(* A message's end: counted, and the next header asked for.                 *)
Ended(s, p, r, k) ==
    LET t == ProcessMessage(s, p) IN
    Kept(s, r) /\ Placed(s, r, s.state, Mini, k) /\ ~t.thrown /\ SameCounts(t, r)

LEMMA MiniIs ==
  ASSUME NEW s \in ChannelStates, NEW p \in SentPieces
  PROVE  LET r == Mini0(s, p) IN
         /\ r \in ChannelStates /\ r.threw = s.threw /\ r.buffers = s.buffers /\ r.garbled = s.garbled
         /\ p.size # 0 => Kept(s, r) /\ Placed(s, r, s.state, p.size, p.size) /\ SameCounts(s, r)
         /\ p.size = 0 => r.thrown \/ Ended(s, p, r, s.saved)
<1>1. CASE p.size # 0
  <2>1. Mini0(s, p) = [[s EXCEPT !.needed = p.size] EXCEPT !.saved = p.size]
    BY <1>1 DEF Mini0, Request
  <2>2. p.size \in Nat
    BY PieceFields
  <2> QED
    BY <1>1, <2>1, <2>2 DEF ChannelStates, Kept, Placed, SameCounts
<1>2. CASE p.size = 0
  <2> DEFINE t == ProcessMessage(s, p)
  <2>1. Kept(s, t) /\ (t.thrown \/ Placed(s, t, s.state, s.needed, s.saved))
    BY MessageIs
  <2>2. Mini0(s, p) = IF t.thrown THEN t ELSE [t EXCEPT !.needed = Mini]
    BY <1>2 DEF Mini0, Then, Request
  <2>3. Mini \in Nat
    BY ChannelAssumption
  <2> DEFINE r == Mini0(s, p)
  <2>4. /\ r \in ChannelStates /\ r.threw = s.threw /\ r.buffers = s.buffers /\ r.garbled = s.garbled
        /\ r.thrown \/ (Kept(s, r) /\ Placed(s, r, s.state, Mini, s.saved) /\ ~t.thrown /\ SameCounts(t, r))
    <3> HIDE DEF t, r
    <3>1. t \in ChannelStates
      BY <2>1 DEF Kept
    <3>2. r = IF t.thrown THEN t ELSE [t EXCEPT !.needed = Mini]
      BY <2>2 DEF r
    <3> QED
      BY <2>1, <2>3, <3>1, <3>2 DEF ChannelStates, Kept, Placed, SameCounts
  <2> QED
    BY <1>2, <2>4 DEF Ended
<1> QED
  BY <1>1, <1>2

LEMMA BodyIs ==
  ASSUME NEW s \in ChannelStates, NEW p \in SentPieces
  PROVE  LET r == Body(s, p) IN
         /\ r \in ChannelStates /\ r.threw = s.threw /\ r.buffers = s.buffers /\ r.garbled = s.garbled
         /\ r.thrown \/ Ended(s, p, r, 0)
<1> DEFINE t == ProcessMessage(s, p)
           r == Body(s, p)
<1>1. Kept(s, t) /\ (t.thrown \/ Placed(s, t, s.state, s.needed, s.saved))
  BY MessageIs
<1>2. Body(s, p) = IF t.thrown THEN t ELSE [[t EXCEPT !.needed = Mini] EXCEPT !.saved = 0]
  BY DEF Body, Then, Request
<1>3. Mini \in Nat
  BY ChannelAssumption
<1>4. /\ r \in ChannelStates /\ r.threw = s.threw /\ r.buffers = s.buffers /\ r.garbled = s.garbled
      /\ r.thrown \/ (Kept(s, r) /\ Placed(s, r, s.state, Mini, 0) /\ ~t.thrown /\ SameCounts(t, r))
  <2>2. r = IF t.thrown THEN t ELSE [[t EXCEPT !.needed = Mini] EXCEPT !.saved = 0]
    BY <1>2
  <2> HIDE DEF t, r
  <2>1. t \in ChannelStates
    BY <1>1 DEF Kept
  <2> QED
    BY <1>1, <1>3, <2>1, <2>2 DEF ChannelStates, Kept, Placed, SameCounts
<1> QED
  BY <1>4 DEF Ended

(* The next piece, taken off what is owed.                                  *)
Rid(s) == [s EXCEPT !.owed = Tail(@)]

LEMMA RidIs ==
  ASSUME NEW s \in ChannelStates, s.owed # <<>>
  PROVE  LET t == Rid(s) IN
         /\ t \in ChannelStates /\ t.owed = Tail(s.owed) /\ t.ws = s.ws /\ t.buffers = s.buffers
         /\ t.threw = s.threw /\ t.garbled = s.garbled /\ t.thrown = s.thrown
         /\ t.state = s.state /\ t.needed = s.needed /\ t.saved = s.saved /\ SameCounts(s, t)
         /\ Head(s.owed) = s.owed[1] /\ s.owed[1] \in SentPieces /\ s.owed \in Seq(SentPieces)
<1>1. s.owed \in Seq(SentPieces) /\ Tail(s.owed) \in Seq(SentPieces)
  BY HeadTailProperties DEF ChannelStates
<1>2. Head(s.owed) = s.owed[1] /\ s.owed[1] \in SentPieces
  <2>1. Head(s.owed) \in SentPieces
    BY <1>1, HeadTailProperties
  <2> QED
    BY <2>1
<1> DEFINE o == Tail(s.owed)
<1>3. Rid(s) = [s EXCEPT !.owed = o] /\ o \in Seq(SentPieces)
  BY <1>1 DEF Rid
<1> HIDE DEF o
<1>4. LET t == Rid(s) IN
         /\ t \in ChannelStates /\ t.owed = o /\ t.ws = s.ws /\ t.buffers = s.buffers
         /\ t.threw = s.threw /\ t.garbled = s.garbled /\ t.thrown = s.thrown
         /\ t.state = s.state /\ t.needed = s.needed /\ t.saved = s.saved /\ SameCounts(s, t)
  BY <1>3 DEF ChannelStates, SameCounts
<1> QED
  BY <1>1, <1>2, <1>4 DEF o

LEMMA InboundType ==
  ASSUME NEW s \in ChannelStates
  PROVE  /\ ProcessInbound(s) \in ChannelStates
         /\ ProcessInbound(s).threw = s.threw /\ ProcessInbound(s).buffers = s.buffers
<1> DEFINE p == Head(s.owed)
           t == Rid(s)
           off == s.garbled \/ s.owed = <<>> \/ p.len # s.needed \/ p.kind # Expected(s)
<1>1. CASE off
  <2>1. ProcessInbound(s) = [Stopped(s) EXCEPT !.garbled = TRUE]
    BY <1>1 DEF ProcessInbound
  <2>2. Stopped(s) \in ChannelStates /\ Stopped(s).threw = s.threw /\ Stopped(s).buffers = s.buffers
    BY ReportIs
  <2> QED
    BY <2>1, <2>2 DEF ChannelStates
<1>2. CASE ~off
  <2>1. /\ t \in ChannelStates /\ t.threw = s.threw /\ t.buffers = s.buffers /\ p \in SentPieces
    BY <1>2, RidIs
  <2>2. ProcessInbound(s) = CASE p.kind = "hdr"   -> Hdr(t, p)
                              [] p.kind = "reply" -> Reply(t, p)
                              [] p.kind = "auth"  -> Auth(t, p)
                              [] p.kind = "mini"  -> Mini0(t, p)
                              [] OTHER            -> Body(t, p)
    BY <1>2 DEF ProcessInbound, Rid
  <2>3. ProcessInbound(s) \in {Hdr(t, p), Reply(t, p), Auth(t, p), Mini0(t, p), Body(t, p)}
    <3>1. p.kind \in {"hdr", "reply", "auth", "mini", "body"}
      BY <2>1, PieceFields
    <3> HIDE DEF t, p, off
    <3> QED
      BY <2>2, <3>1
  <2> HIDE DEF t, p, off
  <2>4. \A r \in {Hdr(t, p), Reply(t, p), Auth(t, p), Mini0(t, p), Body(t, p)} :
          r \in ChannelStates /\ r.threw = t.threw /\ r.buffers = t.buffers
    <3>1. Hdr(t, p) \in ChannelStates /\ Hdr(t, p).threw = t.threw /\ Hdr(t, p).buffers = t.buffers
      BY <2>1, HdrIs
    <3>2. Reply(t, p) \in ChannelStates /\ Reply(t, p).threw = t.threw /\ Reply(t, p).buffers = t.buffers
      BY <2>1, ReplyIs
    <3>3. Auth(t, p) \in ChannelStates /\ Auth(t, p).threw = t.threw /\ Auth(t, p).buffers = t.buffers
      BY <2>1, AuthIs
    <3>4. Mini0(t, p) \in ChannelStates /\ Mini0(t, p).threw = t.threw /\ Mini0(t, p).buffers = t.buffers
      BY <2>1, MiniIs
    <3>5. Body(t, p) \in ChannelStates /\ Body(t, p).threw = t.threw /\ Body(t, p).buffers = t.buffers
      BY <2>1, BodyIs
    <3> QED
      BY <3>1, <3>2, <3>3, <3>4, <3>5, Zenon
  <2> QED
    BY <2>1, <2>3, <2>4
<1> QED
  BY <1>1, <1>2

LEMMA ChainedTail ==
  ASSUME NEW o \in Seq(SentPieces), o # <<>>, Chained(o)
  PROVE  /\ Chained(Tail(o)) /\ Shaped(o[1]) /\ Len(Tail(o)) = Len(o) - 1
         /\ \A i \in 1..Len(Tail(o)) : Tail(o)[i] = o[i+1]
         /\ Tail(o) # <<>> => Follows(o[1], Tail(o)[1]) /\ Shaped(Tail(o)[1])
         /\ HalfSent(o[1]) => Tail(o) # <<>>
<1>1. /\ Len(o) \in Nat /\ Len(Tail(o)) = Len(o) - 1 /\ Len(o) > 0 /\ Tail(o) \in Seq(SentPieces)
      /\ \A i \in 1..Len(Tail(o)) : Tail(o)[i] = o[i+1]
  BY HeadTailProperties, EmptySeq
<1>2. Tail(o) # <<>> <=> Len(Tail(o)) # 0
  BY <1>1, EmptySeq
<1> DEFINE q == Tail(o)
<1> HIDE DEF q
<1>3. Len(q) = Len(o) - 1 /\ (\A i \in 1..Len(q) : q[i] = o[i+1]) /\ (q # <<>> <=> Len(q) # 0)
  BY <1>1, <1>2 DEF q
<1>4. ASSUME NEW i \in 1..Len(q) PROVE Shaped(q[i]) /\ (HalfSent(q[i]) => i < Len(q))
  <2>1. i + 1 \in 1..Len(o)
    BY <1>1, <1>3
  <2> QED
    BY <1>1, <1>3, <2>1 DEF Chained
<1>5. ASSUME NEW i \in 1..Len(q) - 1 PROVE Follows(q[i], q[i+1])
  <2>1. i + 1 \in 1..Len(o) - 1 /\ i \in 1..Len(q) /\ i + 1 \in 1..Len(q)
    BY <1>1, <1>3
  <2>2. Follows(o[i+1], o[(i+1)+1])
    BY <2>1 DEF Chained
  <2> QED
    BY <1>3, <2>1, <2>2
<1>6. Shaped(o[1]) /\ (HalfSent(o[1]) => 1 < Len(o))
  BY <1>1 DEF Chained
<1>7. ASSUME q # <<>> PROVE Follows(o[1], q[1]) /\ Shaped(q[1])
  <2>1. 1 \in 1..Len(o) - 1 /\ 1 \in 1..Len(q)
    BY <1>1, <1>3, <1>7
  <2> QED
    BY <1>3, <1>4, <2>1 DEF Chained
<1>8. Chained(q)
  BY <1>4, <1>5 DEF Chained
<1> QED
  BY <1>1, <1>3, <1>6, <1>7, <1>8 DEF q

LEMMA SetAckCounts ==
  ASSUME NEW p, Shaped(p), Weight(p) = 0
  PROVE  p.does # "set_ack"
<1>1. p.kind # "body" /\ ~(p.kind = "mini" /\ p.size = 0)
  BY DEF Weight
<1> QED
  BY <1>1 DEF Shaped

LEMMA CountedIdle ==
  ASSUME NEW s \in ChannelStates, NEW r \in ChannelStates, s.owed # <<>>, Chained(s.owed),
         r.owed = Tail(s.owed), r.ack = s.ack, r.srv.window = s.srv.window,
         r.srv.unacked = s.srv.unacked, r.srv.synced = s.srv.synced,
         Weight(s.owed[1]) = 0, Counted(s)
  PROVE  Counted(r)
<1> SUFFICES ASSUME r.srv.window # 0
             PROVE  \/ /\ r.srv.synced /\ r.ack.window = r.srv.window /\ r.ack.until \in 1..r.ack.window
                       /\ r.srv.unacked = r.ack.window - r.ack.until + Pending(r.owed, 1)
                       /\ Answered(r)
                    \/ /\ ~r.srv.synced
                       /\ \E k \in 1..Len(r.owed) : /\ LastSetAck(r.owed, k, r.srv.window)
                                                    /\ r.srv.unacked = Pending(r.owed, k)
  BY DEF Counted
<1> DEFINE o == s.owed
           q == Tail(s.owed)
<1>1. o \in Seq(SentPieces) /\ q \in Seq(SentPieces) /\ o[1] \in SentPieces
  BY RidIs, HeadTailProperties
<1>2. /\ Shaped(o[1]) /\ Len(q) = Len(o) - 1 /\ \A i \in 1..Len(q) : q[i] = o[i+1]
  BY <1>1, ChainedTail
<1>3. Len(o) \in Nat /\ Len(q) \in Nat /\ DOMAIN o = 1..Len(o) /\ DOMAIN q = 1..Len(q)
  BY <1>1, LenProperties
<1>4. o[1].does # "set_ack"
  BY <1>2, SetAckCounts
<1>5. CASE s.srv.synced
  <2>1. /\ s.ack.window = s.srv.window /\ s.ack.until \in 1..s.ack.window
        /\ s.srv.unacked = s.ack.window - s.ack.until + Pending(o, 1) /\ Answered(s)
    BY <1>5 DEF Counted
  <2>2. Pending(q, 1) = Pending(o, 1)
    BY <1>1, PendingFirst
  <2>3. Answered(r)
    <3> SUFFICES ASSUME NEW i \in 1..Len(q) PROVE q[i].does # "set_ack"
      BY <1>3 DEF Answered
    <3>1. i + 1 \in 1..Len(o)
      BY <1>2, <1>3
    <3> QED
      BY <1>2, <1>3, <2>1, <3>1 DEF Answered
  <2> QED
    BY <1>5, <2>1, <2>2, <2>3
<1>6. CASE ~s.srv.synced
  <2>1. PICK k \in 1..Len(o) : LastSetAck(o, k, s.srv.window) /\ s.srv.unacked = Pending(o, k)
    BY <1>6 DEF Counted
  <2>2. k \in 2..Len(o)
    BY <1>3, <1>4, <2>1 DEF LastSetAck
  <2>3. Pending(q, k - 1) = Pending(o, k)
    BY <1>1, <2>2, PendingTail
  <2>4. k - 1 \in 1..Len(q) /\ q[k-1] = o[k]
    BY <1>2, <1>3, <2>2
  <2>5. \A i \in k..Len(q) : q[i] = o[i+1] /\ i + 1 \in k+1..Len(o)
    BY <1>2, <1>3, <2>2
  <2>6. LastSetAck(q, k - 1, r.srv.window)
    BY <2>1, <2>4, <2>5 DEF LastSetAck
  <2> QED
    BY <1>6, <2>1, <2>3, <2>4, <2>6
<1> QED
  BY <1>5, <1>6

LEMMA CountedMessage ==
  ASSUME NEW s \in ChannelStates, NEW r \in ChannelStates, s.owed # <<>>, Chained(s.owed),
         ~ProcessMessage(Rid(s), s.owed[1]).thrown,
         r.owed = Tail(s.owed), SameCounts(ProcessMessage(Rid(s), s.owed[1]), r),
         Weight(s.owed[1]) = 1, Counted(s)
  PROVE  Counted(r)
<1> SUFFICES ASSUME r.srv.window # 0
             PROVE  \/ /\ r.srv.synced /\ r.ack.window = r.srv.window /\ r.ack.until \in 1..r.ack.window
                       /\ r.srv.unacked = r.ack.window - r.ack.until + Pending(r.owed, 1)
                       /\ Answered(r)
                    \/ /\ ~r.srv.synced
                       /\ \E k \in 1..Len(r.owed) : /\ LastSetAck(r.owed, k, r.srv.window)
                                                    /\ r.srv.unacked = Pending(r.owed, k)
  BY DEF Counted
<1> DEFINE o == s.owed
           q == Tail(s.owed)
           p == s.owed[1]
           t == Rid(s)
           u == IF p.does = "set_ack" THEN Answering(t, p) ELSE t
           m == CountMessage(u)
<1>1. /\ o \in Seq(SentPieces) /\ q \in Seq(SentPieces) /\ p \in SentPieces /\ p.n \in Nat
      /\ t \in ChannelStates /\ t.owed = q /\ t.ack = s.ack /\ t.srv = s.srv
  <2>1. p \in SentPieces /\ o \in Seq(SentPieces) /\ t \in ChannelStates /\ t.owed = q /\ t.ack = s.ack /\ t.srv = s.srv
    BY RidIs DEF SameCounts
  <2> QED
    BY <2>1, HeadTailProperties, PieceFields
<1>2. /\ Len(q) = Len(o) - 1 /\ \A i \in 1..Len(q) : q[i] = o[i+1]
  BY <1>1, ChainedTail
<1>3. Len(o) \in Nat /\ Len(q) \in Nat /\ DOMAIN o = 1..Len(o) /\ DOMAIN q = 1..Len(q)
  BY <1>1, LenProperties
<1>4. r.ack = m.ack /\ r.srv = m.srv
  <2>1. ProcessMessage(t, p) = m
    BY <1>1, MessageIs
  <2> QED
    BY <2>1 DEF SameCounts
<1>5. /\ u \in ChannelStates /\ u.srv.window = s.srv.window /\ u.srv.unacked = s.srv.unacked
      /\ p.does # "set_ack" => u.ack = s.ack /\ u.srv.synced = s.srv.synced
      /\ p.does = "set_ack" => u.ack.window = p.n /\ u.ack.until = p.n /\ u.srv.synced = Answered(t)
  <2>1. CASE p.does = "set_ack"
    <3>1. LET a == Answering(t, p) IN
          /\ a \in ChannelStates /\ a.srv.window = t.srv.window /\ a.srv.unacked = t.srv.unacked
          /\ a.ack.window = p.n /\ a.ack.until = p.n /\ a.srv.synced = Answered(t)
      BY <1>1, AnsweringIs, Zenon
    <3> QED
      BY <1>1, <2>1, <3>1
  <2>2. CASE p.does # "set_ack"
    BY <1>1, <2>2
  <2> QED
    BY <2>1, <2>2
<1> HIDE DEF u, m
<1>6. /\ m.ack.window = u.ack.window /\ m.srv.window = u.srv.window /\ m.srv.synced = u.srv.synced
      /\ u.ack.window # 0 /\ u.ack.until - 1 > 0 =>
           m.ack.until = u.ack.until - 1 /\ m.srv.unacked = u.srv.unacked
      /\ u.ack.window # 0 /\ ~(u.ack.until - 1 > 0) =>
           /\ m.ack.until = u.ack.window
           /\ m.srv.unacked = IF u.srv.synced THEN u.srv.unacked - u.srv.window ELSE u.srv.unacked
      /\ ~u.srv.synced => m.srv.unacked = u.srv.unacked
  BY <1>5, CountIs DEF m, OnlyCounts
<1>7. Answered(r) <=> \A i \in 1..Len(q) : q[i].does # "set_ack"
  BY <1>3 DEF Answered
<1>8. Answered(t) <=> \A i \in 1..Len(q) : q[i].does # "set_ack"
  BY <1>1, <1>3 DEF Answered
<1>9. Pending(o, 1) = 1 + Pending(q, 1) /\ Pending(q, 1) \in Nat
  BY <1>1, PendingFirst
<1>10. s.srv.window \in Nat /\ s.ack.window \in Nat
  BY CountParts DEF Acks, Servers
<1>11. ASSUME u.srv.synced, u.ack.window = s.srv.window, u.ack.until \in 1..u.ack.window,
              s.srv.unacked = u.ack.window - u.ack.until + Pending(o, 1), Answered(r)
       PROVE  /\ r.srv.synced /\ r.ack.window = r.srv.window /\ r.ack.until \in 1..r.ack.window
              /\ r.srv.unacked = r.ack.window - r.ack.until + Pending(q, 1)
              /\ Answered(r)
  <2>1. CASE u.ack.until - 1 > 0
    <3>1. u.ack.window # 0
      BY <1>10, <1>11
    <3>2. r.ack.until = u.ack.until - 1 /\ r.srv.unacked = s.srv.unacked
      BY <1>4, <1>5, <1>6, <2>1, <3>1
    <3>3. r.ack.window = s.srv.window /\ r.srv.window = s.srv.window /\ r.srv.synced
      BY <1>4, <1>5, <1>6, <1>11
    <3>4. s.srv.unacked = s.srv.window - r.ack.until + Pending(q, 1)
      BY <1>9, <1>10, <1>11, <3>2
    <3> QED
      BY <1>10, <1>11, <2>1, <3>2, <3>3, <3>4
  <2>2. CASE ~(u.ack.until - 1 > 0)
    BY <1>4, <1>5, <1>6, <1>9, <1>10, <1>11, <2>2
  <2> QED
    BY <2>1, <2>2
<1>12. CASE s.srv.synced
  <2>1. /\ s.ack.window = s.srv.window /\ s.ack.until \in 1..s.ack.window
        /\ s.srv.unacked = s.ack.window - s.ack.until + Pending(o, 1) /\ Answered(s)
    BY <1>4, <1>5, <1>6, <1>12 DEF Counted
  <2>2. \A i \in 1..Len(o) : o[i].does # "set_ack"
    BY <1>3, <2>1 DEF Answered
  <2>3. p.does # "set_ack" /\ Answered(r)
    <3>1. p.does # "set_ack"
      BY <1>2, <1>3, <2>2
    <3>2. ASSUME NEW i \in 1..Len(q) PROVE q[i].does # "set_ack"
      <4>1. i + 1 \in 1..Len(o)
        BY <1>2, <1>3
      <4> QED
        BY <1>2, <2>2, <4>1
    <3> QED
      BY <1>7, <3>1, <3>2
  <2> QED
    BY <1>5, <1>11, <1>12, <2>1, <2>3
<1>13. CASE ~s.srv.synced
  <2>1. PICK k \in 1..Len(o) : LastSetAck(o, k, s.srv.window) /\ s.srv.unacked = Pending(o, k)
    BY <1>4, <1>5, <1>6, <1>13 DEF Counted
  <2>2. CASE k = 1
    <3>1. p.does = "set_ack" /\ p.n = s.srv.window /\ s.srv.unacked = Pending(o, 1)
      BY <2>1, <2>2 DEF LastSetAck
    <3>2. ASSUME NEW i \in 1..Len(q) PROVE q[i].does # "set_ack"
      <4>1. i + 1 \in k+1..Len(o)
        BY <1>2, <1>3, <2>2
      <4> QED
        BY <1>2, <2>1, <4>1 DEF LastSetAck
    <3>3. Answered(r) /\ Answered(t)
      BY <1>7, <1>8, <3>2
    <3>4. s.srv.window # 0
      BY <1>4, <1>5, <1>6
    <3>5. /\ u.srv.synced /\ u.ack.window = s.srv.window /\ u.ack.until = s.srv.window
      BY <1>5, <3>1, <3>3
    <3>6. u.ack.until \in 1..u.ack.window /\ u.ack.window - u.ack.until = 0
      BY <1>10, <3>4, <3>5
    <3>7. s.srv.unacked = u.ack.window - u.ack.until + Pending(o, 1)
      BY <1>9, <3>1, <3>6
    <3> QED
      BY <1>11, <3>3, <3>5, <3>6, <3>7
  <2>3. CASE k # 1
    <3>1. k \in 2..Len(o)
      BY <1>3, <2>3
    <3>2. Pending(q, k - 1) = Pending(o, k)
      BY <1>1, <3>1, PendingTail
    <3>3. k - 1 \in 1..Len(q) /\ q[k-1] = o[k]
      BY <1>2, <1>3, <3>1
    <3>4. \A i \in k..Len(q) : q[i] = o[i+1] /\ i + 1 \in k+1..Len(o)
      BY <1>2, <1>3, <3>1
    <3>5. LastSetAck(q, k - 1, r.srv.window)
      BY <1>4, <1>5, <1>6, <2>1, <3>3, <3>4 DEF LastSetAck
    <3>6. ~Answered(t)
      BY <1>8, <3>3, <3>5 DEF LastSetAck
    <3>7. ~u.srv.synced
      BY <1>5, <1>13, <3>6
    <3> QED
      BY <1>4, <1>5, <1>6, <2>1, <3>2, <3>3, <3>5, <3>7
  <2> QED
    BY <2>2, <2>3
<1> QED
  BY <1>12, <1>13

(* A piece that is the one asked for is handed over, and what is asked for  *)
(* then is the next one.                                                    *)
LEMMA ExpectedIs ==
  ASSUME NEW s, Asks(s)
  PROVE  /\ Expected(s) = "hdr" <=> s.state = "start"
         /\ Expected(s) = "reply" <=> s.state = "link"
         /\ Expected(s) = "auth" <=> s.state = "ticket"
         /\ Expected(s) = "mini" <=> s.state = "ready" /\ s.saved = 0
         /\ Expected(s) = "body" <=> s.state = "ready" /\ s.saved # 0
BY DEF Asks, Expected

LEMMA AlignedNext ==
  ASSUME NEW s \in ChannelStates, NEW r \in ChannelStates, Aligned(s), s.owed # <<>>,
         r.owed = Tail(s.owed), r.srv.sent = s.srv.sent,
         LET p == s.owed[1] IN
         \/ /\ p.kind = "hdr" /\ r.state = "link" /\ r.needed = p.size /\ r.saved = s.saved
            /\ r.srv.ticket = s.srv.ticket
         \/ p.kind = "reply" /\ r.state = "ticket" /\ r.needed = 1 /\ r.saved = s.saved
         \/ p.kind = "auth" /\ r.state = "ready" /\ r.needed = Mini /\ r.saved = s.saved
         \/ p.kind = "mini" /\ r.state = s.state /\ p.size # 0 /\ r.needed = p.size /\ r.saved = p.size
         \/ p.kind = "mini" /\ r.state = s.state /\ p.size = 0 /\ r.needed = Mini /\ r.saved = s.saved
         \/ p.kind = "body" /\ r.state = s.state /\ r.needed = Mini /\ r.saved = 0
  PROVE  Aligned(r)
<1> DEFINE o == s.owed
           q == Tail(s.owed)
           p == s.owed[1]
<1>1. Asks(s) /\ Stage(s) /\ Chained(o) /\ p.kind = Expected(s)
  BY DEF Aligned
<1>2. /\ o \in Seq(SentPieces) /\ q \in Seq(SentPieces) /\ p \in SentPieces /\ p.size \in Nat
  <2>1. p \in SentPieces /\ o \in Seq(SentPieces)
    BY RidIs
  <2> QED
    BY <2>1, HeadTailProperties, PieceFields
<1>3. /\ Chained(q) /\ Shaped(p) /\ Len(q) = Len(o) - 1 /\ \A i \in 1..Len(q) : q[i] = o[i+1]
      /\ q # <<>> => Follows(p, q[1]) /\ Shaped(q[1])
      /\ HalfSent(p) => q # <<>>
  BY <1>1, <1>2, ChainedTail
<1>4. Len(o) \in Nat /\ Len(q) \in Nat /\ (q # <<>> => 1 \in 1..Len(q)) /\ 1 \in 1..Len(o)
  BY <1>2, EmptySeq, LenProperties
<1>5. \A i \in 1..Len(q) : i + 1 \in 1..Len(o)
  BY <1>3, <1>4
<1>6. r.owed = q
  OBVIOUS
<1> HIDE DEF o, q, p
<1>7. SUFFICES Asks(r) /\ Stage(r) /\ (q # <<>> => q[1].kind = Expected(r) /\ q[1].len = r.needed)
  BY <1>3, <1>6 DEF Aligned
<1>8. CASE p.kind = "hdr"
  <2>1. s.state = "start" /\ r.state = "link" /\ r.needed = p.size /\ r.saved = s.saved /\ r.srv.ticket = s.srv.ticket
    BY <1>1, <1>8, ExpectedIs DEF p
  <2>2. p.size = 1 /\ s.saved = 0
    BY <1>1, <1>3, <1>8, <2>1 DEF Shaped, Asks
  <2>3. Asks(r)
    BY <2>1, <2>2 DEF Asks
  <2>4. Stage(r)
    BY <1>1, <1>3, <1>5, <1>6, <2>1 DEF Stage, o
  <2>5. q # <<>> => q[1].kind = "reply" /\ q[1].len = 1
    BY <1>3, <1>8 DEF Follows, Shaped
  <2> QED
    BY <2>1, <2>2, <2>3, <2>4, <2>5, ExpectedIs
<1>9. CASE p.kind = "reply"
  <2>1. s.state = "link" /\ r.state = "ticket" /\ r.needed = 1 /\ r.saved = s.saved
    BY <1>1, <1>9, ExpectedIs DEF p
  <2>2. s.saved = 0
    BY <1>1, <2>1 DEF Asks
  <2>3. Asks(r)
    BY <2>1, <2>2 DEF Asks
  <2>4. q = <<>>
    <3>1. SUFFICES ASSUME q # <<>> PROVE FALSE
      OBVIOUS
    <3>2. q[1].kind = "auth" /\ q[1] = o[2] /\ 2 \in 1..Len(o)
      BY <1>3, <1>4, <1>5, <1>9, <3>1 DEF Follows
    <3> QED
      BY <1>1, <2>1, <3>2 DEF Stage, o
  <2>5. Stage(r)
    <3>1. s.srv.sent = 0
      BY <1>1, <2>1 DEF Stage
    <3>2. \A i \in 1..Len(q) : FALSE
      BY <2>4
    <3> QED
      BY <1>6, <2>1, <2>4, <3>1, <3>2 DEF Stage
  <2> QED
    BY <2>3, <2>4, <2>5
<1>10. CASE p.kind = "auth"
  <2>1. s.state = "ticket" /\ r.state = "ready" /\ r.needed = Mini /\ r.saved = s.saved
    BY <1>1, <1>10, ExpectedIs DEF p
  <2>2. s.saved = 0
    BY <1>1, <2>1 DEF Asks
  <2>3. Asks(r)
    BY <2>1, <2>2 DEF Asks
  <2>4. Stage(r)
    BY <1>1, <1>3, <1>5, <1>6, <2>1, <2>2 DEF Stage, o
  <2>5. q # <<>> => q[1].kind = "mini" /\ q[1].len = Mini
    BY <1>3, <1>10 DEF Follows, Shaped
  <2> QED
    BY <2>1, <2>2, <2>3, <2>4, <2>5, ExpectedIs
<1>11. CASE p.kind = "mini" /\ p.size # 0
  <2>1. s.state = "ready" /\ r.state = "ready" /\ r.needed = p.size /\ r.saved = p.size
    BY <1>1, <1>11, ExpectedIs DEF p
  <2>3. Asks(r)
    BY <1>11, <2>1 DEF Asks
  <2>4. q # <<>>
    BY <1>3, <1>11 DEF HalfSent
  <2>5. Stage(r)
    BY <1>1, <1>3, <1>5, <1>6, <2>1, <2>4 DEF Stage, o
  <2>6. q[1].kind = "body" /\ q[1].len = p.size
    BY <1>3, <1>11, <2>4 DEF Follows
  <2> QED
    BY <1>11, <2>1, <2>3, <2>5, <2>6, ExpectedIs
<1>12. CASE (p.kind = "mini" /\ p.size = 0) \/ p.kind = "body"
  <2>1. s.state = "ready" /\ r.state = "ready" /\ r.needed = Mini /\ r.saved = 0
    BY <1>1, <1>12, ExpectedIs DEF p
  <2>3. Asks(r)
    BY <2>1 DEF Asks
  <2>4. Stage(r)
    BY <1>1, <1>3, <1>5, <1>6, <2>1 DEF Stage, o
  <2>5. q # <<>> => q[1].kind = "mini" /\ q[1].len = Mini
    BY <1>3, <1>12 DEF Follows, Shaped
  <2> QED
    BY <2>1, <2>3, <2>4, <2>5, ExpectedIs
<1> QED
  BY <1>8, <1>9, <1>10, <1>11, <1>12 DEF p

LEMMA HandedOver ==
  ASSUME NEW s \in ChannelStates, ~s.garbled, ~s.thrown, s.ws = "open", Aligned(s), Counted(s), s.owed # <<>>
  PROVE  LET r == ProcessInbound(s) IN
         /\ ~r.garbled
         /\ \/ r.thrown \/ Gone(r)
            \/ r.ws = "open" /\ r.owed = Tail(s.owed) /\ Aligned(r) /\ Counted(r)
<1> DEFINE p == s.owed[1]
           t == Rid(s)
           r == ProcessInbound(s)
           Next1(x) == x.ws = "open" /\ x.owed = Tail(s.owed) /\ Aligned(x) /\ Counted(x)
<1>1. /\ t \in ChannelStates /\ t.owed = Tail(s.owed) /\ t.ws = "open"
      /\ ~t.garbled /\ ~t.thrown
      /\ t.state = s.state /\ t.needed = s.needed /\ t.saved = s.saved /\ t.ack = s.ack /\ t.srv = s.srv
      /\ Head(s.owed) = p /\ p \in SentPieces /\ s.owed \in Seq(SentPieces)
  BY RidIs DEF SameCounts
<1>2. /\ p.kind = Expected(s) /\ p.len = s.needed /\ Chained(s.owed) /\ Shaped(p)
      /\ p.kind \in {"hdr", "reply", "auth", "mini", "body"} /\ p.size \in Nat
  BY <1>1, ChainedTail, PieceFields DEF Aligned
<1>3. r = CASE p.kind = "hdr"   -> Hdr(t, p)
            [] p.kind = "reply" -> Reply(t, p)
            [] p.kind = "auth"  -> Auth(t, p)
            [] p.kind = "mini"  -> Mini0(t, p)
            [] OTHER            -> Body(t, p)
  BY <1>1, <1>2 DEF ProcessInbound, Rid
<1>4. s.srv \in Servers /\ p = s.owed[1]
  BY CountParts
<1> HIDE DEF t, r, p
<1>5. CASE p.kind = "hdr"
  <2>1. r = Hdr(t, p)
    BY <1>3, <1>5
  <2>2. /\ r \in ChannelStates /\ r.garbled = t.garbled
        /\ \/ r.thrown \/ Gone(r)
           \/ Kept(t, r) /\ Placed(t, r, "link", p.size, t.saved) /\ SameCounts(t, r)
    BY <1>1, <2>1, HdrIs
  <2>3. ASSUME Kept(t, r), Placed(t, r, "link", p.size, t.saved), SameCounts(t, r) PROVE Next1(r)
    <3>1. Weight(p) = 0
      BY <1>5 DEF Weight
    <3>2. /\ r.ws = "open" /\ r.owed = Tail(s.owed) /\ r.ack = s.ack /\ r.srv = s.srv
          /\ r.state = "link" /\ r.needed = p.size /\ r.saved = s.saved
      BY <1>1, <2>3 DEF Kept, Placed, SameCounts
    <3>3. Aligned(r)
      BY <1>4, <1>5, <2>2, <3>2, AlignedNext
    <3>4. Counted(r)
      BY <1>2, <1>4, <2>2, <3>1, <3>2, CountedIdle
    <3> QED
      BY <3>2, <3>3, <3>4
  <2> QED
    BY <1>1, <2>2, <2>3 DEF r
<1>6. CASE p.kind = "reply"
  <2>1. r = Reply(t, p)
    BY <1>3, <1>6
  <2>2. /\ r \in ChannelStates /\ r.garbled = t.garbled
        /\ \/ r.thrown \/ Gone(r)
           \/ /\ Kept(t, r) /\ Placed(t, r, "ticket", 1, t.saved)
              /\ r.srv.sent = t.srv.sent /\ r.srv.window = t.srv.window
              /\ r.srv.unacked = t.srv.unacked /\ r.srv.synced = t.srv.synced /\ r.ack = t.ack
    BY <1>1, <2>1, ReplyIs
  <2>3. ASSUME /\ Kept(t, r) /\ Placed(t, r, "ticket", 1, t.saved)
               /\ r.srv.sent = t.srv.sent /\ r.srv.window = t.srv.window
               /\ r.srv.unacked = t.srv.unacked /\ r.srv.synced = t.srv.synced /\ r.ack = t.ack
        PROVE  Next1(r)
    <3>1. Weight(p) = 0
      BY <1>6 DEF Weight
    <3>2. /\ r.ws = "open" /\ r.owed = Tail(s.owed)
          /\ r.state = "ticket" /\ r.needed = 1 /\ r.saved = s.saved
          /\ r.srv.sent = s.srv.sent /\ r.srv.window = s.srv.window
          /\ r.srv.unacked = s.srv.unacked /\ r.srv.synced = s.srv.synced /\ r.ack = s.ack
      BY <1>1, <2>3 DEF Kept, Placed
    <3>3. Aligned(r)
      BY <1>4, <1>6, <2>2, <3>2, AlignedNext
    <3>4. Counted(r)
      BY <1>2, <1>4, <2>2, <3>1, <3>2, CountedIdle
    <3> QED
      BY <3>2, <3>3, <3>4
  <2> QED
    BY <1>1, <2>2, <2>3 DEF r
<1>7. CASE p.kind = "auth"
  <2>1. r = Auth(t, p)
    BY <1>3, <1>7
  <2>2. /\ r \in ChannelStates /\ r.garbled = t.garbled
        /\ \/ r.thrown \/ Gone(r)
           \/ Kept(t, r) /\ Placed(t, r, "ready", Mini, t.saved) /\ SameCounts(t, r)
    BY <1>1, <2>1, AuthIs
  <2>3. ASSUME Kept(t, r), Placed(t, r, "ready", Mini, t.saved), SameCounts(t, r) PROVE Next1(r)
    <3>1. Weight(p) = 0
      BY <1>7 DEF Weight
    <3>2. /\ r.ws = "open" /\ r.owed = Tail(s.owed) /\ r.ack = s.ack /\ r.srv = s.srv
          /\ r.state = "ready" /\ r.needed = Mini /\ r.saved = s.saved
      BY <1>1, <2>3 DEF Kept, Placed, SameCounts
    <3>3. Aligned(r)
      BY <1>4, <1>7, <2>2, <3>2, AlignedNext
    <3>4. Counted(r)
      BY <1>2, <1>4, <2>2, <3>1, <3>2, CountedIdle
    <3> QED
      BY <3>2, <3>3, <3>4
  <2> QED
    BY <1>1, <2>2, <2>3 DEF r
<1>8. CASE p.kind = "mini" /\ p.size # 0
  <2>1. r = Mini0(t, p)
    BY <1>3, <1>8
  <2>2. /\ r \in ChannelStates /\ r.garbled = t.garbled
        /\ Kept(t, r) /\ Placed(t, r, t.state, p.size, p.size) /\ SameCounts(t, r)
    BY <1>1, <1>8, <2>1, MiniIs
  <2>3. Weight(p) = 0
    BY <1>2, <1>8 DEF Weight
  <2>4. /\ r.ws = "open" /\ r.owed = Tail(s.owed) /\ r.ack = s.ack /\ r.srv = s.srv
        /\ r.state = s.state /\ r.needed = p.size /\ r.saved = p.size
    BY <1>1, <2>2 DEF Kept, Placed, SameCounts
  <2>5. Aligned(r)
    BY <1>4, <1>8, <2>2, <2>4, AlignedNext
  <2>6. Counted(r)
    BY <1>2, <1>4, <2>2, <2>3, <2>4, CountedIdle
  <2> QED
    BY <1>1, <2>2, <2>4, <2>5, <2>6 DEF r
<1>9. CASE (p.kind = "mini" /\ p.size = 0) \/ p.kind = "body"
  <2> DEFINE k == IF p.kind = "mini" THEN s.saved ELSE 0
  <2>1. r \in ChannelStates /\ r.garbled = t.garbled /\ (r.thrown \/ Ended(t, p, r, k))
    <3>1. CASE p.kind = "mini"
      <4>1. r = Mini0(t, p) /\ p.size = 0
        BY <1>3, <1>9, <3>1
      <4> QED
        BY <1>1, <3>1, <4>1, MiniIs
    <3>2. CASE p.kind = "body"
      <4>1. r = Body(t, p)
        BY <1>3, <3>2
      <4> QED
        BY <1>1, <3>2, <4>1, BodyIs
    <3> QED
      BY <1>9, <3>1, <3>2
  <2>2. ASSUME Ended(t, p, r, k) PROVE Next1(r)
    <3> DEFINE m == ProcessMessage(t, p)
    <3>1. /\ Kept(t, m) /\ SameServer(t, m)
      BY <1>1, MessageIs
    <3>2. Kept(t, r) /\ Placed(t, r, t.state, Mini, k) /\ ~m.thrown /\ SameCounts(m, r)
      BY <2>2 DEF Ended
    <3>3. Weight(p) = 1
      BY <1>9 DEF Weight
    <3> HIDE DEF m
    <3>4. /\ r.ws = "open" /\ r.owed = Tail(s.owed) /\ r.srv.sent = s.srv.sent
          /\ r.state = s.state /\ r.needed = Mini /\ r.saved = k
      BY <1>1, <3>1, <3>2 DEF Kept, Placed, SameCounts, SameServer
    <3>5. Aligned(r)
      BY <1>4, <1>9, <2>1, <3>4, AlignedNext
    <3>6. Counted(r)
      BY <1>2, <1>4, <2>1, <3>2, <3>3, <3>4, CountedMessage DEF m, t
    <3> QED
      BY <3>4, <3>5, <3>6
  <2> QED
    BY <1>1, <2>1, <2>2 DEF r
<1> QED
  BY <1>2, <1>5, <1>6, <1>7, <1>8, <1>9

(* The reader's blocks are changed, and nothing else.                       *)
Reblocked(s, c) ==
    /\ c \in ChannelStates /\ c.ws = s.ws /\ c.owed = s.owed /\ c.threw = s.threw /\ c.garbled = s.garbled
    /\ c.thrown = s.thrown /\ c.state = s.state /\ c.needed = s.needed /\ c.saved = s.saved
    /\ c.ack = s.ack /\ c.srv = s.srv /\ c.timeout = s.timeout

LEMMA ReblockedIs ==
  ASSUME NEW s \in ChannelStates, NEW b \in Seq(Nat)
  PROVE  LET c == [s EXCEPT !.buffers = b] IN Reblocked(s, c) /\ c.buffers = b
BY DEF Reblocked, ChannelStates

LEMMA ReblockedKeeps ==
  ASSUME NEW s, NEW c, Reblocked(s, c)
  PROVE  /\ Aligned(s) => Aligned(c)
         /\ Counted(s) => Counted(c)
<1>1. Expected(c) = Expected(s)
  BY DEF Reblocked, Expected
<1>2. Aligned(s) => Aligned(c)
  BY <1>1 DEF Reblocked, Aligned, Asks, Stage
<1>3. Answered(c) <=> Answered(s)
  BY DEF Reblocked, Answered
<1>4. Counted(s) => Counted(c)
  BY <1>3 DEF Reblocked, Counted
<1> QED
  BY <1>2, <1>4

LEMMA AsksForSome ==
  ASSUME NEW s \in ChannelStates, Asks(s)
  PROVE  s.needed \in Nat \ {0}
BY ChannelAssumption DEF Asks, ChannelStates

(* What is cut off the first block.                                         *)
Cut(s) == [s EXCEPT !.buffers = (IF Head(s.buffers) - s.needed > 0 THEN <<Head(s.buffers) - s.needed>> ELSE <<>>)
                                \o Tail(s.buffers)]

LEMMA CutIs ==
  ASSUME NEW s \in ChannelStates, Enough(s)
  PROVE  /\ Reblocked(s, Cut(s)) /\ TakeFirst(s) = ProcessInbound(Cut(s))
         /\ OneBlock(s) => /\ s.buffers[1] - s.needed \in Nat /\ Held(s) = s.buffers[1]
                           /\ Cut(s).buffers = IF s.buffers[1] - s.needed > 0
                                               THEN <<s.buffers[1] - s.needed>> ELSE <<>>
<1> DEFINE b == s.buffers
           rest == Head(b) - s.needed
           new == IF rest > 0 THEN <<rest>> ELSE <<>>
<1>1. b \in Seq(Nat) /\ b # <<>> /\ s.needed \in Nat /\ Head(b) >= s.needed
  BY DEF Enough, ChannelStates
<1>2. Head(b) \in Nat /\ Tail(b) \in Seq(Nat) /\ Len(Tail(b)) = Len(b) - 1 /\ Head(b) = b[1]
  BY <1>1, HeadTailProperties
<1>3. rest \in Nat
  BY <1>1, <1>2
<1>4. new \in Seq(Nat)
  <2> HIDE DEF rest
  <2> QED
    BY <1>3
<1>5. new \o Tail(b) \in Seq(Nat)
  BY <1>2, <1>4, ConcatProperties
<1>6. Reblocked(s, Cut(s)) /\ Cut(s).buffers = new \o Tail(b)
  <2> DEFINE n == new \o Tail(b)
  <2>1. Cut(s) = [s EXCEPT !.buffers = n]
    BY DEF Cut
  <2> HIDE DEF n
  <2>2. n \in Seq(Nat)
    BY <1>5 DEF n
  <2> QED
    BY <2>1, <2>2, ReblockedIs DEF n
<1>7. TakeFirst(s) = ProcessInbound(Cut(s))
  BY DEF TakeFirst, Cut
<1>8. ASSUME OneBlock(s) PROVE Cut(s).buffers = new
  <2>1. Len(b) = 1
    <3>1. Len(b) \in Nat /\ Len(b) # 0
      BY <1>1, EmptySeq, LenProperties
    <3>2. Len(b) <= 1
      BY <1>8, Zenon DEF OneBlock
    <3>3. \A n \in Nat : n # 0 /\ n <= 1 => n = 1
      OBVIOUS
    <3> QED
      BY <3>1, <3>2, <3>3, Zenon
  <2>2. Tail(b) = <<>>
    <3>1. Len(Tail(b)) = 0
      BY <1>2, <2>1
    <3> QED
      BY <1>2, <3>1, EmptySeq
  <2>3. new \o <<>> = new
    BY <1>4, ConcatEmptySeq
  <2> QED
    BY <1>6, <2>2, <2>3
<1> QED
  BY <1>1, <1>2, <1>3, <1>6, <1>7, <1>8 DEF Held

LEMMA ServeType ==
  ASSUME NEW s \in ChannelStates
  PROVE  Serve(s) \in ChannelStates /\ Serve(s).threw = s.threw
<1>1. CASE Enough(s)
  <2>1. Cut(s) \in ChannelStates /\ Cut(s).threw = s.threw /\ Serve(s) = ProcessInbound(Cut(s))
    BY <1>1, CutIs DEF Reblocked, Serve
  <2> QED
    BY <2>1, InboundType
<1>2. CASE ~Enough(s)
  BY <1>2 DEF Serve
<1> QED
  BY <1>1, <1>2

(* A block that is long enough holds the piece that is asked for.           *)
LEMMA ServeOnTrack ==
  ASSUME NEW s \in ChannelStates, OnTrack(s)
  PROVE  /\ OnTrack(Serve(s))
         /\ Enough(s) /\ ~Serve(s).thrown /\ Serve(s).ws = "open" =>
              Held(Serve(s)) = Held(s) - s.needed
<1>1. CASE ~Enough(s)
  BY <1>1 DEF Serve
<1>2. CASE Enough(s)
  <2> DEFINE c == Cut(s)
             r == ProcessInbound(c)
             rest == s.buffers[1] - s.needed
  <2>1. Right(s) /\ ~s.garbled /\ ~s.thrown /\ s.ws = "open" /\ s.buffers # <<>>
    BY <1>2 DEF OnTrack, Enough
  <2>2. /\ Reblocked(s, c) /\ Serve(s) = r /\ rest \in Nat /\ Held(s) = s.buffers[1]
        /\ c.buffers = IF rest > 0 THEN <<rest>> ELSE <<>>
    BY <1>2, <2>1, CutIs DEF Serve, Right
  <2>3. Aligned(c) /\ Counted(c) /\ c \in ChannelStates /\ ~c.garbled /\ ~c.thrown /\ c.ws = "open"
    BY <2>1, <2>2, ReblockedKeeps DEF Reblocked, Right
  <2>4. s.owed \in Seq(SentPieces) /\ Lens(s.owed) \in Nat /\ Lens(<<>>) = 0
    <3>1. s.owed \in Seq(SentPieces)
      BY DEF ChannelStates
    <3> QED
      BY <3>1, LensNat
  <2>5. s.needed \in Nat \ {0} /\ s.buffers[1] \in Nat /\ s.buffers[1] <= Lens(s.owed)
    <3>1. s.needed \in Nat \ {0}
      BY <2>1, AsksForSome DEF Right, Aligned
    <3>2. s.buffers \in Seq(Nat)
      BY DEF ChannelStates
    <3>3. s.buffers[1] \in Nat
      <4>1. Head(s.buffers) = s.buffers[1]
        BY <2>1, <3>2, HeadTailProperties
      <4> QED
        BY <2>1, <3>2, <4>1, HeadTailProperties
    <3>4. Held(s) <= Lens(s.owed)
      BY <2>1 DEF Right, OneBlock
    <3> QED
      BY <2>2, <3>1, <3>3, <3>4
  <2>6. s.owed # <<>>
    BY <2>2, <2>4, <2>5
  <2>7. c.owed = s.owed /\ c.needed = s.needed
    BY <2>2 DEF Reblocked
  <2>8. Lens(s.owed) = s.needed + Lens(Tail(s.owed)) /\ Lens(Tail(s.owed)) \in Nat
    <3>1. s.owed[1].len = s.needed
      BY <2>1, <2>6 DEF Right, Aligned
    <3>2. Tail(s.owed) \in Seq(SentPieces)
      BY <2>4, <2>6, HeadTailProperties
    <3> QED
      BY <2>4, <2>6, <3>1, <3>2, LensTail, LensNat
  <2>9. r \in ChannelStates /\ r.buffers = c.buffers
    BY <2>3, InboundType
  <2>10. /\ ~r.garbled
         /\ \/ r.thrown \/ Gone(r)
            \/ r.ws = "open" /\ r.owed = Tail(s.owed) /\ Aligned(r) /\ Counted(r)
    <3> HIDE DEF c
    <3> QED
      BY <2>3, <2>6, <2>7, HandedOver
  <2> HIDE DEF r, c, rest
  <2>11. Held(r) = rest /\ Len(r.buffers) <= 1 /\ (r.buffers # <<>> => r.buffers[1] > 0)
    <3>1. CASE rest > 0
      <4>1. r.buffers = <<rest>>
        BY <2>2, <2>9, <3>1
      <4> QED
        BY <3>1, <4>1 DEF Held
    <3>2. CASE ~(rest > 0)
      <4>1. r.buffers = <<>> /\ rest = 0
        BY <2>2, <2>9, <3>2
      <4> QED
        BY <4>1 DEF Held
    <3> QED
      BY <3>1, <3>2
  <2>12. r.owed = Tail(s.owed) => OneBlock(r)
    BY <2>5, <2>8, <2>11 DEF OneBlock, rest
  <2> QED
    BY <2>2, <2>10, <2>11, <2>12 DEF OnTrack, Right, Gone, rest
<1> QED
  BY <1>1, <1>2

(* The states that Times goes through.                                      *)
ServeSteps(h, n, base) ==
    h \in [0..n -> ChannelStates] /\ h[0] = base /\ \A i \in 1..n : h[i] = Serve(h[i-1])

LEMMA ServeTrace ==
  ASSUME NEW n \in Nat, NEW base \in ChannelStates
  PROVE  \E h : ServeSteps(h, n, base) /\ Times(Serve, base, n) = h[n]
<1> DEFINE f == [i \in 1..n |-> i]
           step == [x \in (1..n) \X ChannelStates |-> Serve(x[2])]
           E(iter) == iter = [s \in SUBSET DOMAIN f |->
                                IF s = {} THEN base ELSE Serve(iter[s \ {Max(s)}])]
           iter == CHOOSE iter : E(iter)
<1>1. step \in Steps(n, ChannelStates)
  BY ServeType DEF Steps
<1>2. \A i \in 1..n, c \in ChannelStates : step[i, c] = Serve(c)
  OBVIOUS
<1> HIDE DEF step
<1>3. PICK h : IsTrace(h, n, ChannelStates, base, step)
  BY <1>1, TraceExists
<1>4. h \in [0..n -> ChannelStates] /\ h[0] = base /\ \A i \in 1..n : h[i] = step[i, h[i-1]]
  BY <1>3, Zenon DEF IsTrace
<1>5. ASSUME NEW i \in 1..n PROVE h[i] = Serve(h[i-1])
  <2>1. i - 1 \in 0..n
    OBVIOUS
  <2>2. h[i-1] \in ChannelStates
    BY <1>4, <2>1
  <2> QED
    BY <1>2, <1>4, <2>2
<1>6. DOMAIN f = 1..n
  OBVIOUS
<1>7. Times(Serve, base, n) = iter[DOMAIN f]
  BY Zenon DEF Times, FoldLeft, MapThenFoldSet
<1>8. E(iter)
  <2>1. PICK it \in [SUBSET (1..n) -> ChannelStates] : Iterates(it, n, base, step)
    BY <1>1, IterExists
  <2>2. ASSUME NEW s \in SUBSET (1..n)
        PROVE  it[s] = IF s = {} THEN base ELSE Serve(it[s \ {Max(s)}])
    <3>1. CASE s = {}
      BY <2>1, <3>1 DEF Iterates
    <3>2. CASE s # {}
      <4>1. it[s] = step[Max(s), it[s \ {Max(s)}]]
        BY <2>1, <3>2 DEF Iterates
      <4>2. Max(s) \in 1..n /\ it[s \ {Max(s)}] \in ChannelStates
        BY <3>2, MaxIsLast
      <4> QED
        BY <1>2, <3>2, <4>1, <4>2
    <3> QED
      BY <3>1, <3>2
  <2>3. E(it)
    <3>1. it = [s \in SUBSET (1..n) |-> it[s]]
      OBVIOUS
    <3> QED
      BY <1>6, <2>2, <3>1
  <2> QED
    BY <2>3, Zenon
<1>9. \A s \in SUBSET (1..n) : iter[s] = IF s = {} THEN base ELSE Serve(iter[s \ {Max(s)}])
  <2> HIDE DEF iter
  <2> QED
    BY <1>6, <1>8
<1> HIDE DEF iter, E, f
<1>10. iter[First(0)] = h[0]
  <2>1. First(0) = {} /\ {} \in SUBSET (1..n)
    BY Firsts
  <2> QED
    BY <1>4, <1>9, <2>1
<1>11. ASSUME NEW i \in 1..n, iter[First(i - 1)] = h[i-1] PROVE iter[First(i)] = h[i]
  <2>1. /\ First(i) \in SUBSET (1..n) /\ First(i) # {}
        /\ Max(First(i)) = i /\ First(i) \ {i} = First(i - 1)
    BY Firsts
  <2>2. iter[First(i)] = Serve(iter[First(i - 1)])
    BY <1>9, <2>1
  <2> QED
    BY <1>5, <1>11, <2>2
<1>12. iter[1..n] = h[n]
  BY <1>10, <1>11, FoldEnds
<1>13. ServeSteps(h, n, base)
  BY <1>4, <1>5 DEF ServeSteps
<1> QED
  BY <1>6, <1>7, <1>12, <1>13

LEMMA TimesType ==
  ASSUME NEW n \in Nat, NEW s \in ChannelStates
  PROVE  Times(Serve, s, n) \in ChannelStates /\ Times(Serve, s, n).threw = s.threw
<1>1. PICK h : ServeSteps(h, n, s) /\ Times(Serve, s, n) = h[n]
  BY ServeTrace
<1>2. h \in [0..n -> ChannelStates] /\ h[0] = s /\ \A i \in 1..n : h[i] = Serve(h[i-1])
  BY <1>1, Zenon DEF ServeSteps
<1> DEFINE S == {i \in 0..n : h[i].threw = s.threw}
<1>3. 0 \in S
  BY <1>2
<1>4. ASSUME NEW m \in 0..n-1, m \in S PROVE m + 1 \in S
  <2>1. m + 1 \in 1..n /\ m + 1 \in 0..n /\ m \in 0..n /\ (m + 1) - 1 = m
    OBVIOUS
  <2>2. h[m+1] = Serve(h[m]) /\ h[m] \in ChannelStates
    BY <1>2, <2>1
  <2>3. h[m+1].threw = h[m].threw
    BY <2>2, ServeType
  <2> QED
    BY <1>4, <2>1, <2>3
<1>5. n \in S
  <2> HIDE DEF S
  <2>1. \A m \in 0..n : m \in S
    BY <1>3, <1>4, CountUp
  <2> QED
    BY <2>1
<1>6. n \in 0..n
  OBVIOUS
<1> QED
  BY <1>1, <1>2, <1>5, <1>6

(* combine: all blocks from the first on until there is enough are one.     *)
Sums(b) == [i \in DOMAIN b |-> Total(SubSeq(b, 1, i))]
UpTo(b, m) == LET i == SelectInSeq(Sums(b), LAMBDA sum : sum >= m) IN IF i = 0 THEN Len(Sums(b)) ELSE i
Combined(b, m) == <<Sums(b)[UpTo(b, m)]>> \o SubSeq(b, UpTo(b, m) + 1, Len(b))

LEMMA CombinedType ==
  ASSUME NEW b \in Seq(Nat), b # <<>>, NEW m \in Nat
  PROVE  /\ UpTo(b, m) \in 1..Len(b) /\ Sums(b) \in [1..Len(b) -> Nat] /\ Len(Sums(b)) = Len(b)
         /\ Combined(b, m) \in Seq(Nat)
<1>1. Len(b) \in Nat \ {0} /\ DOMAIN b = 1..Len(b) /\ \A i \in 1..Len(b) : b[i] \in Nat
  BY EmptySeq, LenProperties, ElementOfSeq
<1>2. ASSUME NEW i \in 1..Len(b) PROVE Total(SubSeq(b, 1, i)) \in Nat
  <2>1. i \in Nat /\ \A j \in 1..i : b[j] \in Nat
    BY <1>1
  <2>2. SubSeq(b, 1, i) \in Seq(Nat) /\ Len(SubSeq(b, 1, i)) = i
    BY <2>1, SubSeqProperties
  <2>3. SubSeq(b, 1, i) \in [1..i -> Nat]
    BY <2>2, LenProperties
  <2> QED
    BY <2>1, <2>3, TotalNat
<1>3. Sums(b) \in [1..Len(b) -> Nat]
  BY <1>1, <1>2 DEF Sums
<1>4. Len(Sums(b)) = Len(b)
  BY <1>1, <1>3
<1>5. UpTo(b, m) \in 1..Len(b)
  <2> DEFINE I == {i \in 1..Len(Sums(b)) : Sums(b)[i] >= m}
             k == IF I # {} THEN Min(I) ELSE 0
  <2>1. UpTo(b, m) = IF k = 0 THEN Len(Sums(b)) ELSE k
    BY Zenon DEF UpTo, SelectInSeq
  <2>2. I # {} => Min(I) \in I
    <3>1. ASSUME I # {} PROVE \E x \in I : \A y \in I : x <= y
      <4>1. I \in SUBSET (1..Len(b))
        BY <1>4
      <4> HIDE DEF I
      <4> QED
        BY <1>1, <3>1, <4>1, LeastMember
    <3> QED
      BY <3>1, Zenon DEF Min
  <2>3. I \subseteq 1..Len(b)
    BY <1>4
  <2> HIDE DEF I
  <2>4. k \in 0..Len(b)
    <3>1. CASE I # {}
      <4>1. Min(I) \in 1..Len(b) /\ k = Min(I)
        BY <2>2, <2>3, <3>1, Zenon
      <4> QED
        BY <1>1, <4>1
    <3>2. CASE I = {}
      BY <1>1, <3>2
    <3> QED
      BY <3>1, <3>2
  <2> HIDE DEF k
  <2> QED
    BY <1>1, <1>4, <2>1, <2>4
<1>6. Combined(b, m) \in Seq(Nat)
  <2> DEFINE k == UpTo(b, m)
  <2>1. k \in 1..Len(b)
    BY <1>5
  <2>2. Sums(b)[k] \in Nat
    BY <1>3, <2>1
  <2>3. SubSeq(b, k + 1, Len(b)) \in Seq(Nat)
    <3>1. k + 1 \in Int /\ Len(b) \in Int /\ \A i \in k+1..Len(b) : b[i] \in Nat
      BY <1>1, <2>1
    <3> QED
      BY <3>1, SubSeqProperties
  <2>4. <<Sums(b)[k]>> \in Seq(Nat)
    BY <2>2
  <2>5. Combined(b, m) = <<Sums(b)[k]>> \o SubSeq(b, k + 1, Len(b))
    BY DEF Combined
  <2> HIDE DEF k
  <2> QED
    BY <2>3, <2>4, <2>5, ConcatProperties
<1> QED
  BY <1>3, <1>4, <1>5, <1>6

LEMMA CombineIs ==
  ASSUME NEW s \in ChannelStates
  PROVE  /\ Reblocked(s, Combine(s))
         /\ s.buffers = <<>> => Combine(s) = s
         /\ s.buffers # <<>> =>
              /\ Combine(s).buffers = Combined(s.buffers, s.needed)
              /\ Combine(s) = [s EXCEPT !.buffers = Combined(s.buffers, s.needed)]
<1>1. s.buffers \in Seq(Nat) /\ s.needed \in Nat
  BY DEF ChannelStates
<1>2. CASE s.buffers = <<>>
  <2>1. Combine(s) = s
    BY <1>2, Zenon DEF Combine
  <2> QED
    BY <1>2, <2>1 DEF Reblocked
<1>3. CASE s.buffers # <<>>
  <2> DEFINE j == Combined(s.buffers, s.needed)
  <2>1. Combine(s) = [s EXCEPT !.buffers = j]
    <3>1. Combine(s) = [s EXCEPT !.buffers = <<Sums(s.buffers)[UpTo(s.buffers, s.needed)]>>
                          \o SubSeq(@, UpTo(s.buffers, s.needed) + 1, Len(@))]
      BY <1>3, Zenon DEF Combine, Sums, UpTo
    <3> QED
      BY <3>1 DEF Combined
  <2>2. j \in Seq(Nat)
    BY <1>1, <1>3, CombinedType
  <2> HIDE DEF j
  <2>3. Reblocked(s, Combine(s)) /\ Combine(s).buffers = j
    BY <2>1, <2>2, ReblockedIs
  <2> QED
    BY <1>3, <2>1, <2>3 DEF j
<1> QED
  BY <1>2, <1>3

(* A block on its own stays as it is, and two of which the first is not     *)
(* enough become one.                                                       *)
LEMMA CombinedOne ==
  ASSUME NEW b \in Nat, NEW m \in Nat
  PROVE  Combined(<<b>>, m) = <<b>>
<1> DEFINE o == <<b>>
<1>1. o \in Seq(Nat) /\ o # <<>> /\ Len(o) = 1 /\ o[1] = b
  OBVIOUS
<1>2. UpTo(o, m) \in 1..Len(o) /\ Sums(o) \in [1..Len(o) -> Nat] /\ Len(Sums(o)) = Len(o)
  BY <1>1, CombinedType
<1>3. UpTo(o, m) = 1
  BY <1>1, <1>2
<1>4. Sums(o)[1] = b
  <2>1. Sums(o)[1] = Total(SubSeq(o, 1, 1))
    BY <1>1 DEF Sums
  <2>2. SubSeq(o, 1, 1) = <<b>>
    BY <1>1, SubSeqFull
  <2>3. Total(<<b>>) = b
    <3> DEFINE none == [i \in 1..0 |-> 0]
               one == [i \in 1..0+1 |-> b]
    <3>1. none \in [1..0 -> Nat] /\ one \in [1..0+1 -> Nat] /\ \A i \in 1..0 : none[i] = one[i]
      OBVIOUS
    <3>2. one[0+1] = b /\ one = <<b>>
      OBVIOUS
    <3> HIDE DEF none, one
    <3>3. Total(one) = Total(none) + one[0+1]
      BY <3>1, TotalLast
    <3>4. Total(none) = 0
      BY <3>1, TotalNone
    <3> QED
      BY <3>2, <3>3, <3>4
  <2> QED
    BY <2>1, <2>2, <2>3
<1>5. SubSeq(o, 2, 1) = <<>>
  BY SubSeqEmpty
<1>6. <<b>> \o <<>> = <<b>>
  OBVIOUS
<1>7. Combined(o, m) = <<Sums(o)[UpTo(o, m)]>> \o SubSeq(o, UpTo(o, m) + 1, Len(o))
  BY Zenon DEF Combined
<1> HIDE DEF o
<1>8. UpTo(o, m) + 1 = 2
  BY <1>3
<1>9. Combined(o, m) = <<b>> \o <<>>
  BY <1>1, <1>3, <1>4, <1>5, <1>7, <1>8
<1> QED
  BY <1>6, <1>9 DEF o

LEMMA CombinedTwo ==
  ASSUME NEW b \in Nat, NEW n \in Nat, NEW m \in Nat, b < m
  PROVE  Combined(<<b, n>>, m) = <<b + n>>
<1> DEFINE o == <<b, n>>
<1>1. o \in Seq(Nat) /\ o # <<>> /\ Len(o) = 2 /\ o[1] = b /\ o[2] = n
  OBVIOUS
<1>2. UpTo(o, m) \in 1..Len(o) /\ Sums(o) \in [1..Len(o) -> Nat] /\ Len(Sums(o)) = Len(o)
  BY <1>1, CombinedType
<1>3. Total(<<b>>) = b /\ Total(<<b, n>>) = b + n
  <2> DEFINE none == [i \in 1..0 |-> 0]
             one == [i \in 1..0+1 |-> b]
             two == [i \in 1..1+1 |-> IF i = 1 THEN b ELSE n]
  <2>1. none \in [1..0 -> Nat] /\ one \in [1..0+1 -> Nat] /\ \A i \in 1..0 : none[i] = one[i]
    OBVIOUS
  <2>2. one \in [1..1 -> Nat] /\ two \in [1..1+1 -> Nat] /\ \A i \in 1..1 : one[i] = two[i]
    OBVIOUS
  <2>3. one[0+1] = b /\ one = <<b>> /\ two[1+1] = n /\ two = <<b, n>>
    OBVIOUS
  <2> HIDE DEF none, one, two
  <2>4. Total(one) = Total(none) + one[0+1] /\ Total(none) = 0
    BY <2>1, TotalLast, TotalNone
  <2>5. Total(two) = Total(one) + two[1+1]
    BY <2>2, TotalLast
  <2> QED
    BY <2>3, <2>4, <2>5
<1>4. Sums(o)[1] = b /\ Sums(o)[2] = b + n
  <2>1. Sums(o)[1] = Total(SubSeq(o, 1, 1)) /\ Sums(o)[2] = Total(SubSeq(o, 1, 2))
    BY <1>1 DEF Sums
  <2>2. SubSeq(o, 1, 1) = <<b>> /\ SubSeq(o, 1, 2) = <<b, n>>
    <3>1. SubSeq(o, 1, 2) = o
      BY <1>1, SubSeqFull
    <3>2. SubSeq(o, 1, 1) = <<o[1]>> \o SubSeq(o, 2, 1)
      <4>1. 1 \in 1..Len(o) /\ 1 \in 1..Len(o) /\ 1 + 1 = 2
        BY <1>1
      <4>2. 1 \in 1..Len(o) => SubSeq(o, 1, 1) = <<o[1]>> \o SubSeq(o, 1 + 1, 1)
        BY <1>1, SubSeqRecursiveFirst
      <4> QED
        BY <4>1, <4>2
    <3>3. SubSeq(o, 2, 1) = <<>>
      BY SubSeqEmpty
    <3>4. <<b>> \o <<>> = <<b>>
      OBVIOUS
    <3>5. <<o[1]>> = <<b>>
      BY <1>1
    <3>6. SubSeq(o, 1, 1) = <<b>>
      BY <3>2, <3>3, <3>4, <3>5, Zenon
    <3> QED
      BY <3>1, <3>6, Zenon
  <2> QED
    BY <1>3, <2>1, <2>2
<1>5. UpTo(o, m) = 2
  <2> DEFINE I == {i \in 1..Len(Sums(o)) : Sums(o)[i] >= m}
             k == IF I # {} THEN Min(I) ELSE 0
  <2>1. UpTo(o, m) = IF k = 0 THEN Len(Sums(o)) ELSE k
    BY Zenon DEF UpTo, SelectInSeq
  <2>2. I = {} \/ I = {2}
    <3>1. 1 \notin I
      BY <1>4
    <3>2. I \subseteq {1, 2}
      BY <1>1, <1>2
    <3> HIDE DEF I
    <3> QED
      BY <3>1, <3>2
  <2> HIDE DEF I
  <2>3. Min({2}) = 2
    BY DEF Min
  <2>4. k = 0 \/ k = 2
    <3>1. CASE I = {}
      BY <3>1
    <3>2. CASE I = {2}
      BY <2>3, <3>2
    <3> QED
      BY <2>2, <3>1, <3>2
  <2> HIDE DEF k
  <2> QED
    BY <1>1, <1>2, <2>1, <2>4
<1>6. SubSeq(o, 3, 2) = <<>>
  BY SubSeqEmpty
<1>7. Combined(o, m) = <<Sums(o)[UpTo(o, m)]>> \o SubSeq(o, UpTo(o, m) + 1, Len(o))
  BY Zenon DEF Combined
<1>8. <<b + n>> \o <<>> = <<b + n>>
  OBVIOUS
<1> HIDE DEF o
<1>9. UpTo(o, m) + 1 = 3
  BY <1>5
<1>10. Combined(o, m) = <<b + n>> \o <<>>
  BY <1>1, <1>4, <1>5, <1>6, <1>7, <1>9
<1> QED
  BY <1>8, <1>10 DEF o

(* One block in, the reader takes what it can and keeps less than it needs. *)
LEMMA OnTrackTypes ==
  ASSUME NEW s \in ChannelStates, Right(s)
  PROVE  /\ s.needed \in Nat \ {0} /\ Held(s) \in Nat /\ Lens(s.owed) \in Nat /\ Held(s) <= Lens(s.owed)
         /\ s.buffers = <<>> \/ (s.buffers = <<Held(s)>> /\ Held(s) > 0)
<1>1. s.buffers \in Seq(Nat) /\ s.owed \in Seq(SentPieces)
  BY DEF ChannelStates
<1>2. s.needed \in Nat \ {0}
  BY AsksForSome DEF Right, Aligned
<1>3. Lens(s.owed) \in Nat
  BY <1>1, LensNat
<1>4. OneBlock(s)
  BY DEF Right
<1>5. CASE s.buffers = <<>>
  <2>1. Held(s) = 0
    BY <1>5 DEF Held
  <2>2. Held(s) \in Nat /\ Held(s) <= Lens(s.owed)
    BY <1>3, <2>1
  <2> QED
    BY <1>2, <1>3, <1>5, <2>2
<1>6. CASE s.buffers # <<>>
  <2> DEFINE b == s.buffers
             x == b[1]
  <2>1. Held(s) = x /\ x > 0 /\ Held(s) <= Lens(s.owed)
    BY <1>4, <1>6 DEF Held, OneBlock
  <2>2. Len(b) = 1
    <3>1. Len(b) \in Nat /\ Len(b) # 0
      BY <1>1, <1>6, EmptySeq, LenProperties
    <3>2. Len(b) <= 1
      BY <1>4, Zenon DEF OneBlock
    <3>3. \A n \in Nat : n # 0 /\ n <= 1 => n = 1
      OBVIOUS
    <3> QED
      BY <3>1, <3>2, <3>3, Zenon
  <2>3. x \in Nat
    BY <1>1, <2>2, ElementOfSeq
  <2>4. <<x>> \in Seq(Nat) /\ Len(<<x>>) = 1 /\ <<x>>[1] = x
    BY <2>3
  <2>5. b = <<x>>
    <3>1. \A i \in 1..Len(b) : b[i] = <<x>>[i]
      BY <2>2, <2>4
    <3> QED
      BY <1>1, <2>2, <2>4, <3>1, SeqEqual
  <2> HIDE DEF x
  <2> QED
    BY <1>2, <1>3, <2>1, <2>3, <2>5
<1> QED
  BY <1>5, <1>6

(* As many rounds as there are bytes in the block are enough.               *)
LEMMA TimesOnTrack ==
  ASSUME NEW s \in ChannelStates, OnTrack(s), NEW n \in Nat \ {0},
         Enough(s) => Held(s) < n + s.needed
  PROVE  LET r == Times(Serve, s, n + Mini) IN
         OnTrack(r) /\ (r.thrown \/ r.ws # "open" \/ Held(r) < r.needed)
<1>0. n + Mini \in Nat
  BY ChannelAssumption
<1> DEFINE N == n + Mini
<1> HIDE DEF N
<1>1. PICK h : ServeSteps(h, N, s) /\ Times(Serve, s, N) = h[N]
  BY <1>0, ServeTrace DEF N
<1>2. h \in [0..N -> ChannelStates] /\ h[0] = s /\ \A i \in 1..N : h[i] = Serve(h[i-1])
  BY <1>1, Zenon DEF ServeSteps
<1> DEFINE P(j) == OnTrack(h[j]) /\ (Enough(h[j]) => Held(h[j]) < n - j + h[j].needed)
           S == {j \in 0..N : P(j)}
<1>3. 0 \in S
  <2>1. 0 \in 0..N /\ n - 0 = n
    BY <1>0 DEF N
  <2> QED
    BY <1>2, <2>1
<1>4. ASSUME NEW m \in 0..N-1, m \in S PROVE m + 1 \in S
  <2>1. m + 1 \in 1..N /\ m + 1 \in 0..N /\ m \in 0..N /\ (m + 1) - 1 = m
    BY <1>0 DEF N
  <2> DEFINE c == h[m]
             r == h[m+1]
  <2>2. c \in ChannelStates /\ r \in ChannelStates /\ r = Serve(c)
    BY <1>2, <2>1
  <2>3. OnTrack(c) /\ (Enough(c) => Held(c) < n - m + c.needed)
    BY <1>4
  <2> HIDE DEF c, r
  <2>4. OnTrack(r)
    BY <2>2, <2>3, ServeOnTrack
  <2>5. ASSUME Enough(r) PROVE Held(r) < n - (m + 1) + r.needed
    <3>1. CASE ~Enough(c)
      BY <2>2, <2>5, <3>1 DEF Serve
    <3>2. CASE Enough(c)
      <4>1. ~r.thrown /\ r.ws = "open" /\ ~c.thrown /\ c.ws = "open"
        BY <2>5, <3>2 DEF Enough
      <4>2. Held(r) = Held(c) - c.needed
        BY <2>2, <2>3, <3>2, <4>1, ServeOnTrack
      <4>3. Right(c) /\ Right(r)
        BY <2>3, <2>4, <4>1 DEF OnTrack
      <4>4. c.needed \in Nat /\ r.needed \in Nat \ {0} /\ Held(c) \in Nat
        BY <2>2, <4>3, OnTrackTypes
      <4>5. Held(c) < n - m + c.needed
        BY <2>3, <3>2
      <4> QED
        BY <4>2, <4>4, <4>5
    <3> QED
      BY <3>1, <3>2
  <2> QED
    BY <2>1, <2>4, <2>5 DEF r
<1>5. N \in S
  <2> HIDE DEF S
  <2>1. \A m \in 0..N : m \in S
    BY <1>0, <1>3, <1>4, CountUp DEF N
  <2> QED
    BY <1>0, <2>1 DEF N
<1> DEFINE r == h[N]
<1>6. r \in ChannelStates /\ OnTrack(r) /\ (Enough(r) => Held(r) < n - N + r.needed)
  BY <1>0, <1>2, <1>5 DEF N
<1> HIDE DEF r, S
<1>7. ASSUME ~r.thrown, r.ws = "open" PROVE Held(r) < r.needed
  <2>1. Right(r)
    BY <1>6, <1>7 DEF OnTrack
  <2>2. /\ r.needed \in Nat \ {0} /\ Held(r) \in Nat
        /\ r.buffers = <<>> \/ r.buffers = <<Held(r)>>
    BY <1>6, <2>1, OnTrackTypes
  <2>3. ASSUME Held(r) >= r.needed PROVE FALSE
    <3>1. r.buffers # <<>>
      BY <2>2, <2>3 DEF Held
    <3>2. Head(r.buffers) = Held(r)
      BY <2>2, <3>1
    <3>3. Enough(r)
      BY <1>7, <2>3, <3>1, <3>2 DEF Enough
    <3>4. Held(r) < n - N + r.needed
      BY <1>6, <3>3
    <3>5. n - N <= 0 /\ n - N \in Int
      BY ChannelAssumption DEF N
    <3> QED
      BY <2>2, <2>3, <3>4, <3>5
  <2> QED
    BY <2>2, <2>3
<1> QED
  BY <1>1, <1>6, <1>7 DEF r, N

LEMMA AppendOne ==
  ASSUME NEW x \in Nat, NEW n \in Nat
  PROVE  Append(<<x>>, n) = <<x, n>>
<1> DEFINE a == <<x>>
           e == <<x, n>>
           q == Append(a, n)
<1>1. a \in Seq(Nat) /\ Len(a) = 1 /\ a[1] = x
  OBVIOUS
<1>2. e \in Seq(Nat) /\ Len(e) = 2 /\ e[1] = x /\ e[2] = n
  OBVIOUS
<1>3. q \in Seq(Nat) /\ Len(q) = Len(a) + 1 /\ (\A i \in 1..Len(a) : q[i] = a[i]) /\ q[Len(a) + 1] = n
  BY <1>1, AppendProperties
<1> HIDE DEF a, e, q
<1>4. Len(q) = 2 /\ q[1] = x /\ q[2] = n
  BY <1>1, <1>3
<1>5. \A i \in 1..Len(q) : q[i] = e[i]
  BY <1>2, <1>4
<1>6. q = e
  BY <1>2, <1>3, <1>4, <1>5, SeqEqual
<1> QED
  BY <1>6 DEF a, e, q

LEMMA PushedIs ==
  ASSUME NEW s \in ChannelStates, NEW n \in Nat
  PROVE  LET p == [s EXCEPT !.buffers = Append(@, n)] IN
         Reblocked(s, p) /\ p.buffers = Append(s.buffers, n)
<1> DEFINE b == Append(s.buffers, n)
<1>1. b \in Seq(Nat)
  BY AppendProperties DEF ChannelStates
<1>2. [s EXCEPT !.buffers = Append(@, n)] = [s EXCEPT !.buffers = b]
  BY DEF ChannelStates
<1> HIDE DEF b
<1> QED
  BY <1>1, <1>2, ReblockedIs DEF b

LEMMA InboundIsTyped ==
  ASSUME NEW s \in ChannelStates, NEW n \in Nat
  PROVE  Inbound(s, n) \in ChannelStates /\ Inbound(s, n).threw = s.threw
<1> DEFINE p == [s EXCEPT !.buffers = Append(@, n)]
           f == IF s.buffers = <<>> THEN Serve(p) ELSE p
<1>1. p \in ChannelStates /\ p.threw = s.threw
  BY PushedIs DEF Reblocked
<1>2. Inbound(s, n) = IF s.needed = 0 THEN p ELSE IF f.thrown THEN f ELSE Times(Serve, Combine(f), n + Mini)
  BY Zenon DEF Inbound
<1> HIDE DEF p
<1>3. f \in ChannelStates /\ f.threw = s.threw
  BY <1>1, ServeType
<1> HIDE DEF f
<1>4. Combine(f) \in ChannelStates /\ Combine(f).threw = s.threw
  BY <1>3, CombineIs DEF Reblocked
<1>5. n + Mini \in Nat
  BY ChannelAssumption
<1>6. Times(Serve, Combine(f), n + Mini) \in ChannelStates /\ Times(Serve, Combine(f), n + Mini).threw = s.threw
  BY <1>4, <1>5, TimesType
<1> QED
  BY <1>1, <1>2, <1>3, <1>6

LEMMA CombineOnTrack ==
  ASSUME NEW s \in ChannelStates, OnTrack(s)
  PROVE  /\ OnTrack(Combine(s))
         /\ Enough(Combine(s)) => Combine(s) = s
<1>1. Reblocked(s, Combine(s))
  BY CombineIs
<1>2. CASE s.thrown \/ s.ws # "open"
  <2>1. s.ws = "closed" /\ Counted(s) => Counted(Combine(s))
    BY <1>1, ReblockedKeeps
  <2> QED
    BY <1>1, <1>2, <2>1 DEF OnTrack, Reblocked, Enough
<1>3. CASE ~s.thrown /\ s.ws = "open"
  <2>1. Right(s)
    BY <1>3 DEF OnTrack
  <2>2. s.needed \in Nat /\ Held(s) \in Nat /\ (s.buffers = <<>> \/ s.buffers = <<Held(s)>>)
    BY <2>1, OnTrackTypes
  <2>3. s.buffers # <<>> => Combine(s).buffers = s.buffers
    <3>1. ASSUME s.buffers # <<>> PROVE Combine(s).buffers = s.buffers
      <4>1. s.buffers = <<Held(s)>>
        BY <2>2, <3>1
      <4>2. Combine(s).buffers = Combined(<<Held(s)>>, s.needed)
        BY <3>1, <4>1, CombineIs
      <4>3. Combined(<<Held(s)>>, s.needed) = <<Held(s)>>
        BY <2>2, CombinedOne
      <4> QED
        BY <4>1, <4>2, <4>3
    <3> QED
      BY <3>1
  <2>4. Combine(s) = s
    <3>1. s.buffers = <<>> => Combine(s) = s
      BY CombineIs
    <3>2. s.buffers # <<>> => Combine(s) = s
      <4>1. [s EXCEPT !.buffers = s.buffers] = s
        BY DEF ChannelStates
      <4>2. ASSUME s.buffers # <<>> PROVE Combine(s) = s
        <5>1. Combined(s.buffers, s.needed) = s.buffers
          BY <2>3, <4>2, CombineIs
        <5> QED
          BY <4>1, <4>2, <5>1, CombineIs
      <4> QED
        BY <4>2
    <3> QED
      BY <2>3, <3>1, <3>2
  <2> QED
    BY <2>4
<1> QED
  BY <1>2, <1>3

LEMMA InboundOnTrack ==
  ASSUME NEW s \in ChannelStates, Right(s), ~s.garbled, ~s.thrown, s.ws = "open", Held(s) < s.needed,
         NEW n \in Nat \ {0}, Held(s) + n <= Lens(s.owed)
  PROVE  LET r == Inbound(s, n) IN
         OnTrack(r) /\ (r.thrown \/ r.ws # "open" \/ Held(r) < r.needed)
<1> DEFINE p == [s EXCEPT !.buffers = Append(@, n)]
           f == IF s.buffers = <<>> THEN Serve(p) ELSE p
           c == Combine(f)
<1>1. /\ s.needed \in Nat \ {0} /\ Held(s) \in Nat /\ Lens(s.owed) \in Nat
      /\ s.buffers = <<>> \/ (s.buffers = <<Held(s)>> /\ Held(s) > 0)
  BY OnTrackTypes
<1>2. Reblocked(s, p) /\ p.buffers = Append(s.buffers, n)
  BY PushedIs
<1>3. Inbound(s, n) = IF f.thrown THEN f ELSE Times(Serve, Combine(f), n + Mini)
  <2>1. Inbound(s, n) = IF s.needed = 0 THEN p ELSE IF f.thrown THEN f ELSE Times(Serve, Combine(f), n + Mini)
    BY Zenon DEF Inbound
  <2> HIDE DEF p, f
  <2> QED
    BY <1>1, <2>1
<1>4. p \in ChannelStates /\ Aligned(p) /\ Counted(p) /\ ~p.garbled /\ ~p.thrown /\ p.ws = "open"
      /\ p.owed = s.owed /\ p.needed = s.needed
  BY <1>2, ReblockedKeeps DEF Reblocked, Right
<1> HIDE DEF p
<1>5. f \in ChannelStates
  BY <1>4, ServeType
<1>6. f.thrown \/ (c \in ChannelStates /\ OnTrack(c) /\ (Enough(c) => Held(c) < n + c.needed))
  <2>1. CASE s.buffers = <<>>
    <3>1. p.buffers = <<n>> /\ f = Serve(p)
      BY <1>2, <2>1
    <3>2. Held(p) = n /\ Held(s) = 0 /\ OneBlock(p)
      <4>1. p.buffers # <<>> /\ p.buffers[1] = n /\ Len(p.buffers) = 1
        BY <3>1
      <4>2. Held(p) = n /\ Held(s) = 0
        BY <2>1, <4>1 DEF Held
      <4> QED
        BY <1>1, <1>4, <4>1, <4>2 DEF OneBlock
    <3>3. OnTrack(p)
      BY <1>4, <3>2 DEF OnTrack, Right
    <3>4. OnTrack(f)
      BY <1>4, <3>1, <3>3, ServeOnTrack
    <3>5. ASSUME Enough(f) PROVE Held(f) < n + f.needed
      <4>1. ~f.thrown /\ f.ws = "open"
        BY <3>5 DEF Enough
      <4>2. f.needed \in Nat \ {0}
        BY <1>5, <3>4, <4>1, OnTrackTypes DEF OnTrack
      <4>3. Held(f) = n \/ Held(f) = n - p.needed
        <5>1. CASE Enough(p)
          BY <1>4, <3>1, <3>2, <3>3, <4>1, <5>1, ServeOnTrack
        <5>2. CASE ~Enough(p)
          BY <3>1, <3>2, <5>2 DEF Serve
        <5> QED
          BY <5>1, <5>2
      <4> QED
        BY <1>1, <1>4, <4>2, <4>3
    <3> HIDE DEF f
    <3>6. c \in ChannelStates /\ OnTrack(c) /\ (Enough(c) => c = f)
      BY <1>5, <3>4, CombineOnTrack, CombineIs DEF Reblocked
    <3> QED
      BY <3>5, <3>6
  <2>2. CASE s.buffers # <<>>
    <3>0. f = p /\ c = Combine(p)
      BY <2>2, Zenon
    <3>1. p.buffers = <<Held(s), n>>
      <4>1. s.buffers = <<Held(s)>>
        BY <1>1, <2>2
      <4> QED
        BY <1>1, <1>2, <4>1, AppendOne
    <3>2. Reblocked(p, c) /\ c.buffers = <<Held(s) + n>>
      <4>0. p.buffers # <<>>
        BY <3>1
      <4>1. Reblocked(p, c) /\ c.buffers = Combined(p.buffers, p.needed)
        BY <1>4, <3>0, <4>0, CombineIs, Zenon
      <4>2. Combined(<<Held(s), n>>, s.needed) = <<Held(s) + n>>
        BY <1>1, CombinedTwo
      <4> QED
        BY <1>4, <3>1, <4>1, <4>2
    <3>3. /\ Aligned(c) /\ Counted(c) /\ ~c.garbled /\ c.owed = s.owed /\ c.needed = s.needed
          /\ c \in ChannelStates /\ c.ws = "open"
      BY <1>4, <3>2, ReblockedKeeps DEF Reblocked
    <3> HIDE DEF c
    <3>4. Held(c) = Held(s) + n /\ OneBlock(c)
      <4>1. c.buffers # <<>> /\ c.buffers[1] = Held(s) + n /\ Len(c.buffers) = 1
        BY <3>2
      <4>2. Held(c) = Held(s) + n
        BY <4>1 DEF Held
      <4> QED
        BY <1>1, <3>3, <4>1, <4>2 DEF OneBlock
    <3>5. OnTrack(c)
      BY <3>3, <3>4 DEF OnTrack, Right
    <3> QED
      BY <1>1, <3>3, <3>4, <3>5
  <2> QED
    BY <2>1, <2>2
<1>7. CASE f.thrown
  <2>1. OnTrack(f)
    <3>1. s.buffers = <<>>
      BY <1>4, <1>7
    <3>2. p.buffers = <<n>> /\ f = Serve(p)
      BY <1>2, <3>1
    <3>3. p.buffers # <<>> /\ p.buffers[1] = n /\ Len(p.buffers) = 1 /\ Held(s) = 0
      BY <3>1, <3>2 DEF Held
    <3>4. Held(p) = n
      BY <3>3 DEF Held
    <3>5. OneBlock(p)
      BY <1>1, <1>4, <3>3, <3>4 DEF OneBlock
    <3> QED
      BY <1>4, <3>2, <3>5, ServeOnTrack DEF OnTrack, Right
  <2> QED
    BY <1>3, <1>7, <2>1
<1>8. CASE ~f.thrown
  <2>1. Inbound(s, n) = Times(Serve, c, n + Mini)
    BY <1>3, <1>8
  <2>2. c \in ChannelStates /\ OnTrack(c) /\ (Enough(c) => Held(c) < n + c.needed)
    BY <1>6, <1>8
  <2> HIDE DEF f, c
  <2> QED
    BY <2>1, <2>2, TimesOnTrack
<1> QED
  BY <1>7, <1>8

(* What the server appends.                                                 *)
MessageHeader(size, does, n) == Piece("mini", Mini, size, IF size = 0 THEN does ELSE "", n)
MessageBody(size, does, n) == Piece("body", size, size, does, n)

LEMMA PieceIs ==
  ASSUME NEW size \in Nat, NEW does \in Deeds, NEW n \in Nat
  PROVE  /\ LET p == MessageHeader(size, does, n) IN
              /\ p \in SentPieces /\ p.kind = "mini" /\ p.len = Mini /\ p.size = size /\ p.n = n
              /\ size = 0 => p.does = does
              /\ size # 0 => p.does # "set_ack"
         /\ LET p == MessageBody(size, does, n) IN
              p \in SentPieces /\ p.kind = "body" /\ p.len = size /\ p.size = size /\ p.does = does /\ p.n = n
<1> DEFINE nothing == ""
<1>1. nothing \in Deeds
  BY Zenon DEF Deeds
<1>2. nothing # "set_ack"
  BY Zenon
<1>3. Mini \in Nat
  BY ChannelAssumption
<1>4. MessageHeader(size, does, n) = Piece("mini", Mini, size, IF size = 0 THEN does ELSE nothing, n)
  BY Zenon DEF MessageHeader
<1> HIDE DEF nothing
<1> QED
  BY <1>1, <1>2, <1>3, <1>4 DEF MessageBody, Piece, SentPieces

Linked(o) ==
    /\ \A i \in 1..Len(o) : Shaped(o[i])
    /\ \A i \in 1..Len(o) - 1 : Follows(o[i], o[i+1])

LEMMA LinkedIs ==
  ASSUME NEW o \in Seq(SentPieces)
  PROVE  /\ Chained(o) => Linked(o) /\ (o # <<>> => ~HalfSent(o[Len(o)]))
         /\ Linked(o) /\ (o # <<>> => ~HalfSent(o[Len(o)])) => Chained(o)
<1>1. Len(o) \in Nat /\ (o # <<>> <=> Len(o) # 0)
  BY LenProperties, EmptySeq
<1>2. ASSUME Chained(o) PROVE Linked(o) /\ (o # <<>> => ~HalfSent(o[Len(o)]))
  <2>1. Linked(o)
    BY <1>2 DEF Chained, Linked
  <2>2. ASSUME o # <<>> PROVE ~HalfSent(o[Len(o)])
    <3>1. Len(o) \in 1..Len(o)
      BY <1>1, <2>2
    <3> QED
      BY <1>1, <1>2, <3>1 DEF Chained
  <2> QED
    BY <2>1, <2>2
<1>3. ASSUME Linked(o), o # <<>> => ~HalfSent(o[Len(o)]) PROVE Chained(o)
  <2>1. ASSUME NEW i \in 1..Len(o), HalfSent(o[i]) PROVE i < Len(o)
    <3>1. i # Len(o)
      BY <1>1, <1>3, <2>1
    <3> QED
      BY <1>1, <3>1
  <2> QED
    BY <1>3, <2>1 DEF Chained, Linked
<1> QED
  BY <1>2, <1>3

LEMMA AppendedIs ==
  ASSUME NEW o \in Seq(SentPieces), NEW p \in SentPieces
  PROVE  LET q == Append(o, p) IN
         /\ q \in Seq(SentPieces) /\ q # <<>> /\ Len(o) \in Nat /\ Len(q) = Len(o) + 1
         /\ \A i \in 1..Len(o) : q[i] = o[i]
         /\ q[Len(o) + 1] = p /\ q[Len(q)] = p
         /\ o = <<>> => q[1] = p
         /\ o # <<>> => q[1] = o[1]
         /\ o # <<>> <=> Len(o) # 0
<1> DEFINE q == Append(o, p)
<1>1. /\ q \in Seq(SentPieces) /\ q # <<>> /\ Len(o) \in Nat /\ Len(q) = Len(o) + 1
      /\ \A i \in 1..Len(o) : q[i] = o[i]
      /\ q[Len(o) + 1] = p
  BY AppendProperties, LenProperties
<1> HIDE DEF q
<1>2. o = <<>> => Len(o) = 0
  BY EmptySeq
<1>3. o # <<>> => 1 \in 1..Len(o)
  BY <1>1, EmptySeq
<1>4. q[Len(q)] = p
  BY <1>1
<1>5. o = <<>> => q[1] = p
  BY <1>1, <1>2
<1>6. o # <<>> => q[1] = o[1]
  BY <1>1, <1>3
<1>7. o # <<>> <=> Len(o) # 0
  BY <1>1, <1>2, <1>3
<1> QED
  BY <1>1, <1>4, <1>5, <1>6, <1>7 DEF q

LEMMA LinkedMore ==
  ASSUME NEW o \in Seq(SentPieces), NEW p \in SentPieces, Linked(o), Shaped(p),
         o # <<>> => Follows(o[Len(o)], p)
  PROVE  Linked(Append(o, p))
<1> DEFINE q == Append(o, p)
<1>1. /\ q \in Seq(SentPieces) /\ Len(o) \in Nat /\ Len(q) = Len(o) + 1
      /\ \A i \in 1..Len(o) : q[i] = o[i]
      /\ q[Len(o) + 1] = p /\ (o # <<>> <=> Len(o) # 0)
  BY AppendedIs
<1> HIDE DEF q
<1>2. ASSUME NEW i \in 1..Len(q) PROVE Shaped(q[i])
  <2>1. CASE i = Len(o) + 1
    BY <1>1, <2>1
  <2>2. CASE i # Len(o) + 1
    <3>1. i \in 1..Len(o) /\ q[i] = o[i]
      BY <1>1, <2>2
    <3> QED
      BY <3>1 DEF Linked
  <2> QED
    BY <2>1, <2>2
<1>3. ASSUME NEW i \in 1..Len(q) - 1 PROVE Follows(q[i], q[i+1])
  <2>1. CASE i = Len(o)
    <3>1. q[i] = o[Len(o)] /\ q[i+1] = p /\ o # <<>>
      BY <1>1, <2>1
    <3> QED
      BY <3>1
  <2>2. CASE i # Len(o)
    <3>1. i \in 1..Len(o) - 1 /\ i \in 1..Len(o) /\ i + 1 \in 1..Len(o)
      BY <1>1, <2>2
    <3>2. q[i] = o[i] /\ q[i+1] = o[i+1]
      BY <1>1, <3>1
    <3> QED
      BY <3>1, <3>2 DEF Linked
  <2> QED
    BY <2>1, <2>2
<1> QED
  BY <1>2, <1>3 DEF Linked, q

(* The messages that are counted stay counted when one more is sent.        *)
LEMMA SetAckStays ==
  ASSUME NEW o \in Seq(SentPieces), NEW p \in SentPieces, p.does # "set_ack", NEW k, NEW w, LastSetAck(o, k, w)
  PROVE  LastSetAck(Append(o, p), k, w)
<1> DEFINE q == Append(o, p)
<1>1. /\ Len(o) \in Nat /\ Len(q) = Len(o) + 1
      /\ \A i \in 1..Len(o) : q[i] = o[i]
      /\ q[Len(o) + 1] = p
  BY AppendedIs
<1> HIDE DEF q
<1>2. k \in 1..Len(o) /\ o[k].does = "set_ack" /\ o[k].n = w /\ \A i \in k+1..Len(o) : o[i].does # "set_ack"
  BY DEF LastSetAck
<1>3. k \in 1..Len(q) /\ q[k] = o[k]
  BY <1>1, <1>2
<1>4. ASSUME NEW i \in k+1..Len(q) PROVE q[i].does # "set_ack"
  <2>1. CASE i = Len(o) + 1
    BY <1>1, <2>1
  <2>2. CASE i # Len(o) + 1
    <3>1. i \in 1..Len(o) /\ i \in k+1..Len(o)
      BY <1>1, <1>2, <2>2
    <3> QED
      BY <1>1, <1>2, <3>1
  <2> QED
    BY <2>1, <2>2
<1> QED
  BY <1>2, <1>3, <1>4 DEF LastSetAck, q

NoLinks(o) == \A i \in 1..Len(o) : o[i].kind \notin {"hdr", "reply"}
NoSetAck(o) == \A i \in 1..Len(o) : o[i].does # "set_ack"

LEMMA MoreOfAKind ==
  ASSUME NEW o \in Seq(SentPieces), NEW p \in SentPieces
  PROVE  /\ NoLinks(o) /\ p.kind \notin {"hdr", "reply"} => NoLinks(Append(o, p))
         /\ NoSetAck(o) /\ p.does # "set_ack" => NoSetAck(Append(o, p))
<1> DEFINE q == Append(o, p)
<1>1. /\ Len(o) \in Nat /\ Len(q) = Len(o) + 1
      /\ \A i \in 1..Len(o) : q[i] = o[i]
      /\ q[Len(o) + 1] = p
  BY AppendedIs
<1> HIDE DEF q
<1>2. \A i \in 1..Len(q) : q[i] = p \/ (i \in 1..Len(o) /\ q[i] = o[i])
  <2> TAKE i \in 1..Len(q)
  <2>1. CASE i = Len(o) + 1
    BY <1>1, <2>1
  <2>2. CASE i # Len(o) + 1
    BY <1>1, <2>2
  <2> QED
    BY <2>1, <2>2
<1> QED
  BY <1>2 DEF NoLinks, NoSetAck, q

(* A whole message is sent after a whole one.                               *)
MessageSent(o, q, does, n) ==
    /\ q \in Seq(SentPieces) /\ q # <<>> /\ Chained(q) /\ NoLinks(q)
    /\ o # <<>> => q[1] = o[1]
    /\ o = <<>> => q[1].kind = "mini" /\ q[1].len = Mini
    /\ Lens(q) >= Lens(o)
    /\ does # "set_ack" =>
         /\ NoSetAck(o) => NoSetAck(q)
         /\ \A k \in 1..Len(o) + 1 : Pending(q, k) = Pending(o, k) + 1
         /\ \A k, w : LastSetAck(o, k, w) => LastSetAck(q, k, w)
    /\ does = "set_ack" => LastSetAck(q, Len(q), n) /\ Pending(q, Len(q)) = 1

LEMMA MessageIsPieces ==
  ASSUME NEW o \in Seq(SentPieces), NEW size \in Nat, NEW does \in Deeds, NEW n \in Nat
  PROVE  LET first == MessageHeader(size, does, n)
             second == MessageBody(size, does, n)
         IN  o \o Message(size, does, n) =
                 IF size = 0 THEN Append(o, first) ELSE Append(Append(o, first), second)
<1> DEFINE first == MessageHeader(size, does, n)
           second == MessageBody(size, does, n)
<1>1. first \in SentPieces /\ second \in SentPieces
  BY PieceIs
<1>2. Message(size, does, n) = <<first>> \o IF size = 0 THEN <<>> ELSE <<second>>
  BY Zenon DEF Message, MessageHeader, MessageBody
<1> HIDE DEF first, second
<1>3. /\ <<first>> \in Seq(SentPieces) /\ <<second>> \in Seq(SentPieces) /\ <<>> \in Seq(SentPieces)
      /\ Append(o, first) \in Seq(SentPieces)
  <2>1. \A x \in SentPieces : <<x>> \in Seq(SentPieces)
    OBVIOUS
  <2>2. <<>> \in Seq(SentPieces)
    BY EmptySeq
  <2>3. Append(o, first) \in Seq(SentPieces)
    BY <1>1, AppendProperties
  <2> QED
    BY <1>1, <2>1, <2>2, <2>3
<1>4. CASE size = 0
  <2>1. Message(size, does, n) = <<first>>
    BY <1>2, <1>3, <1>4, ConcatEmptySeq
  <2> QED
    BY <1>1, <1>4, <2>1, AppendIsConcat DEF first
<1>5. CASE size # 0
  <2>1. Message(size, does, n) = <<first>> \o <<second>>
    BY <1>2, <1>5
  <2>2. o \o (<<first>> \o <<second>>) = (o \o <<first>>) \o <<second>>
    <3>1. \A x, y \in Seq(SentPieces) : o \o (x \o y) = (o \o x) \o y
      BY ConcatAssociative
    <3> QED
      BY <1>3, <3>1
  <2>3. Append(o, first) = o \o <<first>> /\ Append(Append(o, first), second) = Append(o, first) \o <<second>>
    BY <1>1, <1>3, AppendIsConcat
  <2> QED
    BY <1>5, <2>1, <2>2, <2>3 DEF first, second
<1> QED
  BY <1>4, <1>5

LEMMA MessageIsSent ==
  ASSUME NEW o \in Seq(SentPieces), Chained(o), NoLinks(o),
         NEW size \in Nat, NEW does \in Deeds, NEW n \in Nat
  PROVE  MessageSent(o, o \o Message(size, does, n), does, n)
<1>1. Linked(o) /\ (o # <<>> => ~HalfSent(o[Len(o)]))
  BY LinkedIs
<1>2. ASSUME o # <<>> PROVE o[Len(o)].kind \in {"auth", "body", "mini"} /\ o[Len(o)] \in SentPieces
  <2>1. Len(o) \in 1..Len(o)
    <3>1. Len(o) \in Nat \ {0}
      BY <1>2, EmptySeq
    <3> QED
      BY <3>1
  <2>2. o[Len(o)] \in SentPieces
    BY <2>1, ElementOfSeq
  <2> QED
    BY <2>1, <2>2, PieceFields DEF NoLinks
<1>0. Mini \in Nat \ {0} /\ Lens(o) \in Nat /\ Len(o) \in Nat
  BY ChannelAssumption, LensNat, LenProperties
<1>3. CASE size = 0
  <2> DEFINE p == MessageHeader(size, does, n)
             q == Append(o, p)
  <2>1. /\ p \in SentPieces /\ p.kind = "mini" /\ p.len = Mini /\ p.size = 0 /\ p.does = does /\ p.n = n
    BY <1>3, PieceIs
  <2>2. o \o Message(size, does, n) = q
    BY <1>3, MessageIsPieces
  <2> HIDE DEF p
  <2>3. Shaped(p) /\ ~HalfSent(p) /\ Weight(p) = 1
    BY <1>0, <2>1 DEF Shaped, HalfSent, Weight
  <2>4. o # <<>> => Follows(o[Len(o)], p)
    BY <1>1, <1>2, <2>1 DEF Follows, HalfSent
  <2>5. /\ q \in Seq(SentPieces) /\ q # <<>> /\ q[Len(q)] = p /\ Len(q) = Len(o) + 1 /\ Len(o) \in Nat
        /\ (o = <<>> => q[1] = p) /\ (o # <<>> => q[1] = o[1])
    BY <2>1, AppendedIs
  <2>6. Chained(q)
    BY <1>1, <2>1, <2>3, <2>4, <2>5, LinkedMore, LinkedIs
  <2>7. NoLinks(q) /\ (does # "set_ack" /\ NoSetAck(o) => NoSetAck(q))
    BY <2>1, MoreOfAKind
  <2>8. Lens(q) >= Lens(o)
    <3>1. Lens(q) = Lens(o) + Mini
      BY <2>1, LensLast
    <3> QED
      BY <1>0, <3>1
  <2>9. \A k \in 1..Len(o) + 1 : Pending(q, k) = Pending(o, k) + 1
    BY <2>1, <2>3, PendingLast
  <2>10. ASSUME does # "set_ack", NEW k, NEW w, LastSetAck(o, k, w) PROVE LastSetAck(q, k, w)
    BY <2>1, <2>10, SetAckStays
  <2>11. ASSUME does = "set_ack" PROVE LastSetAck(q, Len(q), n) /\ Pending(q, Len(q)) = 1
    <3>1. LastSetAck(q, Len(q), n)
      BY <2>1, <2>5, <2>11 DEF LastSetAck
    <3>2. Pending(o, Len(o) + 1) = 0
      BY PendingNone
    <3>3. Len(o) + 1 \in 1..Len(o) + 1
      BY <1>0
    <3>4. Pending(q, Len(o) + 1) = 0 + 1
      BY <2>9, <3>2, <3>3
    <3> QED
      BY <2>5, <3>1, <3>4
  <2> HIDE DEF q
  <2> QED
    BY <2>1, <2>2, <2>5, <2>6, <2>7, <2>8, <2>9, <2>10, <2>11 DEF MessageSent
<1>4. CASE size # 0
  <2> DEFINE p == MessageHeader(size, does, n)
             b == MessageBody(size, does, n)
             m == Append(o, p)
             q == Append(m, b)
  <2>1. /\ p \in SentPieces /\ p.kind = "mini" /\ p.len = Mini /\ p.size = size /\ p.does # "set_ack" /\ p.n = n
        /\ b \in SentPieces /\ b.kind = "body" /\ b.len = size /\ b.size = size /\ b.does = does /\ b.n = n
    BY <1>4, PieceIs
  <2>2. o \o Message(size, does, n) = q
    BY <1>4, MessageIsPieces
  <2> HIDE DEF p, b
  <2>3. Shaped(p) /\ Weight(p) = 0 /\ Shaped(b) /\ ~HalfSent(b) /\ Weight(b) = 1 /\ Follows(p, b)
    BY <1>0, <1>4, <2>1 DEF Shaped, HalfSent, Weight, Follows
  <2>4. o # <<>> => Follows(o[Len(o)], p)
    BY <1>1, <1>2, <2>1 DEF Follows, HalfSent
  <2>5. /\ m \in Seq(SentPieces) /\ m # <<>> /\ m[Len(m)] = p /\ Len(m) = Len(o) + 1 /\ Len(o) \in Nat
        /\ (o = <<>> => m[1] = p) /\ (o # <<>> => m[1] = o[1])
    BY <2>1, AppendedIs
  <2>6. Linked(m)
    BY <1>1, <2>1, <2>3, <2>4, LinkedMore
  <2>7. NoLinks(m) /\ (NoSetAck(o) => NoSetAck(m))
    BY <2>1, MoreOfAKind
  <2>8. Lens(m) >= Lens(o) /\ Lens(o) \in Nat /\ Lens(m) \in Nat
    <3>1. Lens(m) = Lens(o) + Mini
      BY <2>1, LensLast
    <3> QED
      BY <1>0, <3>1
  <2>9. \A k \in 1..Len(o) + 1 : Pending(m, k) = Pending(o, k) + 0
    BY <2>1, <2>3, PendingLast
  <2>10. \A k, w : LastSetAck(o, k, w) => LastSetAck(m, k, w)
    <3> TAKE k, w
    <3> QED
      BY <2>1, SetAckStays
  <2>11. \A k \in 1..Len(o) + 1 : Pending(o, k) \in Nat
    BY <2>1, PendingLast
  <2> HIDE DEF m
  <2>12. /\ q \in Seq(SentPieces) /\ q # <<>> /\ q[Len(q)] = b /\ Len(q) = Len(m) + 1 /\ Len(m) \in Nat
         /\ q[1] = m[1]
    BY <2>1, <2>5, AppendedIs
  <2>13. Chained(q)
    <3>1. Linked(q)
      BY <2>1, <2>3, <2>5, <2>6, LinkedMore
    <3> QED
      BY <2>3, <2>12, <3>1, LinkedIs
  <2>14. NoLinks(q) /\ (does # "set_ack" /\ NoSetAck(o) => NoSetAck(q))
    BY <2>1, <2>5, <2>7, MoreOfAKind
  <2>15. Lens(q) >= Lens(o)
    <3>1. Lens(q) = Lens(m) + size
      BY <2>1, <2>5, LensLast
    <3> QED
      BY <2>8, <3>1
  <2>16. \A k \in 1..Len(o) + 1 : Pending(q, k) = Pending(o, k) + 1
    <3> TAKE k \in 1..Len(o) + 1
    <3>1. k \in 1..Len(m) + 1
      BY <2>5
    <3>2. Pending(q, k) = Pending(m, k) + 1
      BY <2>1, <2>3, <2>5, <3>1, PendingLast
    <3> QED
      BY <2>9, <2>11, <3>2
  <2>17. ASSUME does # "set_ack", NEW k, NEW w, LastSetAck(o, k, w) PROVE LastSetAck(q, k, w)
    <3>1. LastSetAck(m, k, w)
      BY <2>10, <2>17
    <3> QED
      BY <2>1, <2>5, <2>17, <3>1, SetAckStays
  <2>18. ASSUME does = "set_ack" PROVE LastSetAck(q, Len(q), n) /\ Pending(q, Len(q)) = 1
    <3>1. LastSetAck(q, Len(q), n)
      BY <2>1, <2>12, <2>18 DEF LastSetAck
    <3>2. Pending(q, Len(m) + 1) = Pending(m, Len(m) + 1) + 1
      BY <2>1, <2>3, <2>5, <2>12, PendingLast
    <3>3. Pending(m, Len(m) + 1) = 0
      BY <2>5, PendingNone
    <3> QED
      BY <2>12, <3>1, <3>2, <3>3
  <2> HIDE DEF q
  <2>19. (o = <<>> => q[1].kind = "mini" /\ q[1].len = Mini) /\ (o # <<>> => q[1] = o[1])
    BY <2>1, <2>5, <2>12
  <2> QED
    BY <2>2, <2>12, <2>13, <2>14, <2>15, <2>16, <2>17, <2>18, <2>19 DEF MessageSent
<1> QED
  BY <1>3, <1>4

-----------------------------------------------------------------------------
(* The channel's own state, and what Become makes of it.                    *)
Alike(s, c) ==
    /\ c.ws = s.ws /\ c.state = s.state /\ c.needed = s.needed /\ c.saved = s.saved
    /\ c.buffers = s.buffers /\ c.ack = s.ack /\ c.owed = s.owed /\ c.srv = s.srv /\ c.garbled = s.garbled

LEMMA AlikeIs ==
  ASSUME NEW s, NEW c, Alike(s, c)
  PROVE  /\ Right(s) => Right(c)
         /\ OnTrack(s) => s.thrown \/ OnTrack(c)
         /\ Held(c) = Held(s)
<1>1. Held(c) = Held(s)
  BY DEF Alike, Held
<1>2. Answered(s) <=> Answered(c)
  BY DEF Alike, Answered
<1>3. Counted(s) => Counted(c)
  BY <1>2 DEF Alike, Counted
<1>4. Expected(s) = Expected(c)
  BY DEF Alike, Expected
<1>5. Right(s) => Right(c)
  BY <1>1, <1>3, <1>4 DEF Alike, Right, Aligned, Asks, Stage, OneBlock
<1>6. OnTrack(s) => s.thrown \/ OnTrack(c)
  BY <1>3, <1>5 DEF OnTrack, Alike
<1> QED
  BY <1>1, <1>5, <1>6

LEMMA ChannelIs ==
  /\ Channel.ws = ws /\ Channel.state = state /\ Channel.needed = rd.needed /\ Channel.saved = rd.saved
  /\ Channel.buffers = rd.buffers /\ Channel.ack = ack /\ Channel.owed = owed /\ Channel.srv = srv
  /\ Channel.timeout = timeout /\ Channel.threw = threw /\ Channel.thrown = FALSE /\ Channel.garbled = garbled
BY DEF Channel

LEMMA BecomeIs ==
  ASSUME ChannelTypes, NEW r \in ChannelStates, r.threw = threw, Become(r)
  PROVE  /\ ChannelTypes' /\ Alike(r, Channel') /\ Channel'.thrown = FALSE
         /\ threw' = (threw \/ r.thrown) /\ rd'.needed = r.needed /\ ws' = r.ws
<1>1. /\ Channel'.ws = ws' /\ Channel'.state = state' /\ Channel'.needed = rd'.needed
      /\ Channel'.saved = rd'.saved /\ Channel'.buffers = rd'.buffers /\ Channel'.ack = ack'
      /\ Channel'.owed = owed' /\ Channel'.srv = srv' /\ Channel'.garbled = garbled'
      /\ Channel'.thrown = FALSE
  BY DEF Channel
<1>2. /\ ws' = r.ws /\ state' = r.state /\ timeout' = r.timeout
      /\ rd' = [needed |-> r.needed, buffers |-> r.buffers, saved |-> r.saved]
      /\ ack' = r.ack /\ owed' = r.owed /\ srv' = r.srv
      /\ threw' = (threw \/ r.thrown) /\ garbled' = r.garbled /\ main' = main
  BY DEF Become
<1>3. rd'.needed = r.needed /\ rd'.buffers = r.buffers /\ rd'.saved = r.saved
  BY <1>2
<1>4. Alike(r, Channel')
  BY <1>1, <1>2, <1>3 DEF Alike
<1>5. Channel' \in ChannelStates
  <2>1. threw' \in BOOLEAN
    BY <1>2 DEF ChannelTypes, ChannelStates
  <2>2. Channel' = [ws |-> r.ws, state |-> r.state, needed |-> r.needed, saved |-> r.saved,
                    buffers |-> r.buffers, ack |-> r.ack, owed |-> r.owed, srv |-> r.srv, timeout |-> r.timeout,
                    threw |-> threw', thrown |-> FALSE, garbled |-> r.garbled]
    BY <1>2, <1>3 DEF Channel
  <2> QED
    BY <2>1, <2>2 DEF ChannelStates
<1>6. rd' \in Readers
  BY <1>2 DEF Readers, ChannelStates
<1> QED
  BY <1>1, <1>2, <1>3, <1>4, <1>5, <1>6 DEF ChannelTypes

(* A handler, whose result r the connection takes over.                     *)
LEMMA HandledIs ==
  ASSUME ChannelTypes, NEW r \in ChannelStates, r.threw = threw, Become(r),
         r.thrown \/ (OnTrack(r) /\ (r.ws # "open" \/ Held(r) < r.needed))
  PROVE  ~threw' => ws' # "connecting" /\ OnTrack(Channel') /\ (ws' = "open" => Held(Channel') < rd'.needed)
<1>1. /\ Alike(r, Channel') /\ Channel'.thrown = FALSE
      /\ threw' = (threw \/ r.thrown) /\ rd'.needed = r.needed /\ ws' = r.ws
  BY BecomeIs
<1>2. ASSUME ~threw' PROVE ws' # "connecting" /\ OnTrack(Channel') /\ (ws' = "open" => Held(Channel') < rd'.needed)
  <2>1. ~r.thrown
    BY <1>1, <1>2
  <2> DEFINE c == Channel'
  <2>2. Alike(r, c)
    BY <1>1
  <2> HIDE DEF c
  <2>3. OnTrack(c) /\ Held(c) = Held(r)
    BY <2>1, <2>2, AlikeIs
  <2> QED
    BY <1>1, <2>1, <2>3 DEF c, OnTrack
<1> QED
  BY <1>2

LEMMA PartsAre ==
  ASSUME ChannelTypes
  PROVE  /\ main \in BOOLEAN /\ ws \in {"connecting", "open", "closed"}
         /\ state \in {"connecting", "start", "link", "ticket", "ready", "error", "closing"}
         /\ rd \in Readers /\ rd.needed \in Nat /\ rd.saved \in Nat /\ rd.buffers \in Seq(Nat)
         /\ ack \in Acks /\ owed \in Seq(SentPieces) /\ srv \in Servers
         /\ timeout \in BOOLEAN /\ threw \in BOOLEAN /\ garbled \in BOOLEAN
BY ChannelIs DEF ChannelTypes, ChannelStates

LEMMA PartsMake ==
  /\ main \in BOOLEAN /\ ws \in {"connecting", "open", "closed"}
  /\ state \in {"connecting", "start", "link", "ticket", "ready", "error", "closing"}
  /\ rd \in Readers /\ ack \in Acks /\ owed \in Seq(SentPieces) /\ srv \in Servers
  /\ timeout \in BOOLEAN /\ threw \in BOOLEAN /\ garbled \in BOOLEAN
  => ChannelTypes
BY DEF ChannelTypes, Channel, ChannelStates, Readers

(* The server's first words, and what it sends later, as pieces.            *)
LinkPiece(kind, does) == Piece(kind, 1, 1, does, 0)

LEMMA LinkPieceIs ==
  ASSUME NEW kind \in {"hdr", "reply", "auth"}, NEW does \in Deeds, does # "set_ack"
  PROVE  LET p == LinkPiece(kind, does) IN
         p \in SentPieces /\ p.kind = kind /\ p.len = 1 /\ p.does = does /\ Shaped(p) /\ ~HalfSent(p) /\ Weight(p) = 0
BY DEF LinkPiece, Piece, SentPieces, Shaped, HalfSent, Weight

Greets(o) ==
    \/ \E d \in Deeds \ {"set_ack"} : o = <<LinkPiece("hdr", d)>>
    \/ \E d \in Deeds \ {"set_ack"}, e \in Deeds \ {"set_ack"} : o = <<LinkPiece("hdr", d), LinkPiece("reply", e)>>

LEMMA Deed == /\ "" \in Deeds \ {"set_ack"} /\ "refuse" \in Deeds \ {"set_ack"} /\ "throw" \in Deeds \ {"set_ack"}
BY Zenon DEF Deeds

LEMMA OpenIs ==
  ASSUME Open
  PROVE  /\ ws = "connecting" /\ ws' = "open" /\ state' = "start" /\ rd' = [rd EXCEPT !.needed = 1]
         /\ Greets(owed') /\ UNCHANGED <<main, timeout, ack, srv, threw, garbled>>
<1>1. Greets(owed')
  <2>1. ASSUME NEW d \in Deeds \ {"set_ack"}, owed' = <<LinkPiece("hdr", d)>> PROVE Greets(owed')
    BY <2>1, Zenon DEF Greets
  <2>2. ASSUME NEW d \in Deeds \ {"set_ack"}, NEW e \in Deeds \ {"set_ack"},
               owed' = <<LinkPiece("hdr", d), LinkPiece("reply", e)>> PROVE Greets(owed')
    BY <2>2, Zenon DEF Greets
  <2>3. \/ owed' = <<LinkPiece("hdr", "refuse")>>
        \/ \E does \in {"", "refuse"} : owed' = <<LinkPiece("hdr", ""), LinkPiece("reply", does)>>
    BY Zenon DEF Open, Link, LinkPiece
  <2>4. \A does \in {"", "refuse"} : does \in Deeds \ {"set_ack"}
    BY Deed, Zenon
  <2> QED
    BY <2>1, <2>2, <2>3, <2>4, Deed, Zenon
<1> QED
  BY <1>1, Zenon DEF Open

LEMMA SendAuthIs ==
  ASSUME SendAuth
  PROVE  /\ ws = "open" /\ srv.ticket /\ srv.sent = 0
         /\ \E does \in Deeds \ {"set_ack"}, b \in BOOLEAN :
               /\ owed' = Append(owed, LinkPiece("auth", does))
               /\ srv' = [srv EXCEPT !.sent = 1, !.ticket = b]
         /\ UNCHANGED <<main, ws, state, rd, timeout, ack, threw, garbled>>
<1>1. PICK does \in {"", "refuse"} :
          /\ owed' = Append(owed, LinkPiece("auth", does))
          /\ srv' = [srv EXCEPT !.sent = 1, !.ticket = (does = "")]
  BY Zenon DEF SendAuth, Link, LinkPiece
<1>2. does \in Deeds \ {"set_ack"} /\ (does = "") \in BOOLEAN
  BY Deed, Zenon
<1>3. \E d \in Deeds \ {"set_ack"}, b \in BOOLEAN :
               /\ owed' = Append(owed, LinkPiece("auth", d))
               /\ srv' = [srv EXCEPT !.sent = 1, !.ticket = b]
  BY <1>1, <1>2, Zenon
<1> QED
  BY <1>3, Zenon DEF SendAuth

LEMMA SendMessageIs ==
  ASSUME SendMessage
  PROVE  /\ MaySend
         /\ \E size \in Nat, does \in Deeds \ {"set_ack"} : owed' = owed \o Message(size, does, 0)
         /\ srv' = [srv EXCEPT !.sent = @ + 1, !.unacked = @ + 1]
         /\ UNCHANGED <<main, ws, state, rd, timeout, ack, threw, garbled>>
<1>1. PICK size \in BodySizes, does \in {"", "throw"} : owed' = owed \o Message(size, does, 0)
  BY Zenon DEF SendMessage
<1>2. does \in Deeds \ {"set_ack"} /\ size \in Nat
  BY Deed, ChannelAssumption, Zenon
<1> QED
  BY <1>1, <1>2, Zenon DEF SendMessage

LEMMA SendSetAckIs ==
  ASSUME SendSetAck
  PROVE  /\ MaySend
         /\ \E w \in Nat :
               /\ owed' = owed \o Message(1, "set_ack", w)
               /\ srv' = [srv EXCEPT !.sent = @ + 1, !.window = w, !.unacked = 1, !.synced = FALSE]
         /\ UNCHANGED <<main, ws, state, rd, timeout, ack, threw, garbled>>
BY ChannelAssumption, Zenon DEF SendSetAck

LEMMA MessageIsTyped ==
  ASSUME NEW o \in Seq(SentPieces), NEW size \in Nat, NEW does \in Deeds, NEW n \in Nat
  PROVE  o \o Message(size, does, n) \in Seq(SentPieces)
<1> DEFINE p == MessageHeader(size, does, n)
           b == MessageBody(size, does, n)
<1>1. p \in SentPieces /\ b \in SentPieces
  BY PieceIs
<1>2. o \o Message(size, does, n) = IF size = 0 THEN Append(o, p) ELSE Append(Append(o, p), b)
  BY MessageIsPieces
<1> HIDE DEF p, b
<1>3. Append(o, p) \in Seq(SentPieces)
  BY <1>1, AppendProperties
<1>4. Append(Append(o, p), b) \in Seq(SentPieces)
  BY <1>1, <1>3, AppendProperties
<1> QED
  BY <1>2, <1>3, <1>4

LEMMA GreetsIs ==
  ASSUME NEW o, Greets(o)
  PROVE  /\ o \in Seq(SentPieces) /\ Chained(o) /\ o # <<>> /\ o[1].kind = "hdr" /\ o[1].len = 1
         /\ \A i \in 1..Len(o) : o[i].kind \in {"hdr", "reply"}
<1>1. CASE \E d \in Deeds \ {"set_ack"} : o = <<LinkPiece("hdr", d)>>
  <2> PICK d \in Deeds \ {"set_ack"} : o = <<LinkPiece("hdr", d)>>
    BY <1>1
  <2> DEFINE p == LinkPiece("hdr", d)
  <2>1. p \in SentPieces /\ p.kind = "hdr" /\ p.len = 1 /\ Shaped(p) /\ ~HalfSent(p)
    BY LinkPieceIs
  <2>2. o = <<p>>
    OBVIOUS
  <2> HIDE DEF p
  <2>3. o \in Seq(SentPieces) /\ Len(o) = 1 /\ o[1] = p /\ o # <<>>
    BY <2>1, <2>2
  <2> QED
    BY <2>1, <2>3 DEF Chained
<1>2. CASE \E d \in Deeds \ {"set_ack"}, e \in Deeds \ {"set_ack"} : o = <<LinkPiece("hdr", d), LinkPiece("reply", e)>>
  <2> PICK d \in Deeds \ {"set_ack"}, e \in Deeds \ {"set_ack"} : o = <<LinkPiece("hdr", d), LinkPiece("reply", e)>>
    BY <1>2
  <2> DEFINE p == LinkPiece("hdr", d)
             q == LinkPiece("reply", e)
  <2>1. /\ p \in SentPieces /\ p.kind = "hdr" /\ p.len = 1 /\ Shaped(p) /\ ~HalfSent(p)
        /\ q \in SentPieces /\ q.kind = "reply" /\ Shaped(q) /\ ~HalfSent(q)
    BY LinkPieceIs
  <2>2. o = <<p, q>>
    OBVIOUS
  <2> HIDE DEF p, q
  <2>3. Follows(p, q)
    BY <2>1 DEF Follows
  <2>4. o \in Seq(SentPieces) /\ Len(o) = 2 /\ o[1] = p /\ o[2] = q /\ o # <<>>
    BY <2>1, <2>2
  <2> QED
    BY <2>1, <2>3, <2>4 DEF Chained
<1>3. \/ \E d \in Deeds \ {"set_ack"} : o = <<LinkPiece("hdr", d)>>
      \/ \E d \in Deeds \ {"set_ack"}, e \in Deeds \ {"set_ack"} : o = <<LinkPiece("hdr", d), LinkPiece("reply", e)>>
  BY Zenon DEF Greets
<1> QED
  BY <1>1, <1>2, <1>3

(* Every handler's result is a state of the channel.                        *)
LEMMA ChannelStateIs ==
  ASSUME ChannelTypes
  PROVE  Channel \in ChannelStates /\ Channel.threw = threw
BY ChannelIs DEF ChannelTypes

LEMMA TimeoutIs ==
  ASSUME ChannelTypes
  PROVE  LET t == [Channel EXCEPT !.timeout = FALSE] IN
         t \in ChannelStates /\ t.threw = threw /\ t.garbled = garbled
BY ChannelStateIs, ChannelIs DEF ChannelStates

LEMMA ClosedIs ==
  ASSUME NEW s \in ChannelStates
  PROVE  LET t == [s EXCEPT !.ws = "closed"] IN
         /\ t \in ChannelStates /\ t.threw = s.threw /\ t.garbled = s.garbled /\ t.ws = "closed"
         /\ t.thrown = s.thrown /\ t.state = s.state
         /\ Counted(s) => Counted(t)
<1> DEFINE t == [s EXCEPT !.ws = "closed"]
<1>1. /\ t \in ChannelStates /\ t.threw = s.threw /\ t.garbled = s.garbled /\ t.ws = "closed"
      /\ t.thrown = s.thrown /\ t.state = s.state /\ t.owed = s.owed /\ t.srv = s.srv /\ t.ack = s.ack
  BY DEF ChannelStates
<1> HIDE DEF t
<1>2. Answered(t) <=> Answered(s)
  BY <1>1 DEF Answered
<1>3. Counted(s) => Counted(t)
  BY <1>1, <1>2 DEF Counted
<1> QED
  BY <1>1, <1>3 DEF t

(* The handlers of the socket's end and of the timer, as one.               *)
Ends(r) == r \in ChannelStates /\ r.threw = threw /\ Become(r) /\ r.garbled = garbled

LEMMA EndsAre ==
  ASSUME ChannelTypes, Timeout \/ SocketError \/ SocketClose \/ Stop
  PROVE  \E r : /\ Ends(r)
                /\ \/ r.thrown \/ Gone(r)
                   \/ r.ws = "closed" /\ r.state = state /\ (Counted(Channel) => Counted(r))
<1> DEFINE c == Channel
<1>0. c \in ChannelStates /\ c.threw = threw /\ c.garbled = garbled /\ c.state = state
  BY ChannelStateIs, ChannelIs
<1> DEFINE Ended1(r) == \/ r.thrown \/ Gone(r)
                        \/ r.ws = "closed" /\ r.state = state /\ (Counted(c) => Counted(r))
<1>1. CASE Timeout
  <2> DEFINE t == [c EXCEPT !.timeout = FALSE]
             r == Report(t)
  <2>1. t \in ChannelStates /\ t.threw = threw /\ t.garbled = garbled
    BY TimeoutIs
  <2>2. Become(r)
    BY <1>1 DEF Timeout
  <2> HIDE DEF t
  <2>3. r \in ChannelStates /\ r.threw = threw /\ r.garbled = garbled /\ (r.thrown \/ Gone(r))
    BY <2>1, ReportIs
  <2> HIDE DEF r
  <2>4. Ends(r)
    BY <2>2, <2>3 DEF Ends
  <2> QED
    BY <2>3, <2>4
<1>2. CASE SocketError
  <2> DEFINE t == Report(c)
             r == [t EXCEPT !.ws = "closed"]
  <2> HIDE DEF c
  <2>1. t \in ChannelStates /\ t.threw = threw /\ t.garbled = garbled /\ (t.thrown \/ Gone(t))
    BY <1>0, ReportIs
  <2>2. Become(r)
    BY <1>2 DEF SocketError, c
  <2> HIDE DEF t
  <2>3. r \in ChannelStates /\ r.threw = threw /\ r.garbled = garbled /\ (r.thrown \/ Gone(r))
    BY <2>1, ClosedIs DEF Gone
  <2> HIDE DEF r
  <2>4. Ends(r)
    BY <2>2, <2>3 DEF Ends
  <2> QED
    BY <2>3, <2>4 DEF c
<1>3. CASE SocketClose
  <2> DEFINE r == IF main /\ state # "error" THEN Report(c) ELSE [c EXCEPT !.ws = "closed"]
  <2>1. Become(r)
    BY <1>3 DEF SocketClose
  <2> HIDE DEF c
  <2>2. /\ r \in ChannelStates /\ r.threw = threw /\ r.garbled = garbled
        /\ \/ r.thrown \/ Gone(r)
           \/ r.ws = "closed" /\ r.state = state /\ (Counted(c) => Counted(r))
    <3>1. CASE main /\ state # "error"
      BY <1>0, <3>1, ReportIs
    <3>2. CASE ~(main /\ state # "error")
      BY <1>0, <3>2, ClosedIs
    <3> QED
      BY <3>1, <3>2
  <2> HIDE DEF r
  <2>3. Ends(r)
    BY <2>1, <2>2 DEF Ends
  <2> QED
    BY <2>2, <2>3 DEF c
<1>4. CASE Stop
  <2> DEFINE r == Stopped(c)
  <2>1. Become(r)
    BY <1>4 DEF Stop
  <2> HIDE DEF c
  <2>2. r \in ChannelStates /\ r.threw = threw /\ r.garbled = garbled /\ Gone(r)
    BY <1>0, ReportIs
  <2> HIDE DEF r
  <2>3. Ends(r)
    BY <2>1, <2>2 DEF Ends
  <2> QED
    BY <2>2, <2>3
<1> QED
  BY <1>1, <1>2, <1>3, <1>4

LEMMA OneMore ==
  ASSUME NEW v \in Servers
  PROVE  /\ LET x == [v EXCEPT !.sent = @ + 1, !.unacked = @ + 1] IN
            /\ x \in Servers /\ x.sent = v.sent + 1 /\ x.unacked = v.unacked + 1
            /\ x.ticket = v.ticket /\ x.window = v.window /\ x.synced = v.synced
         /\ \A w \in Nat :
              LET x == [v EXCEPT !.sent = @ + 1, !.window = w, !.unacked = 1, !.synced = FALSE] IN
              /\ x \in Servers /\ x.sent = v.sent + 1 /\ x.unacked = 1
              /\ x.ticket = v.ticket /\ x.window = w /\ x.synced = FALSE
<1>1. v.sent + 1 \in Nat /\ v.unacked + 1 \in Int
  BY DEF Servers
<1>2. ASSUME NEW a \in Nat, NEW u \in Int
      PROVE  LET x == [v EXCEPT !.sent = a, !.unacked = u] IN
             /\ x \in Servers /\ x.sent = a /\ x.unacked = u
             /\ x.ticket = v.ticket /\ x.window = v.window /\ x.synced = v.synced
  BY DEF Servers
<1>3. ASSUME NEW a \in Nat, NEW w \in Nat
      PROVE  LET x == [v EXCEPT !.sent = a, !.window = w, !.unacked = 1, !.synced = FALSE] IN
             /\ x \in Servers /\ x.sent = a /\ x.unacked = 1
             /\ x.ticket = v.ticket /\ x.window = w /\ x.synced = FALSE
  <2> DEFINE y == [v EXCEPT !.sent = a, !.window = w]
             x == [y EXCEPT !.unacked = 1, !.synced = FALSE]
  <2>1. y \in Servers /\ y.sent = a /\ y.window = w /\ y.ticket = v.ticket
    BY DEF Servers
  <2>2. x = [v EXCEPT !.sent = a, !.window = w, !.unacked = 1, !.synced = FALSE]
    OBVIOUS
  <2> HIDE DEF y
  <2>3. /\ x \in Servers /\ x.sent = y.sent /\ x.unacked = 1
        /\ x.ticket = y.ticket /\ x.window = y.window /\ x.synced = FALSE
    <3> DEFINE z == [y EXCEPT !.unacked = 1]
    <3>1. z \in Servers /\ z.sent = y.sent /\ z.unacked = 1 /\ z.ticket = y.ticket /\ z.window = y.window
      BY <2>1 DEF Servers
    <3>2. x = [z EXCEPT !.synced = FALSE]
      OBVIOUS
    <3> HIDE DEF z, x
    <3>3. \A b \in BOOLEAN : LET q == [z EXCEPT !.synced = b] IN
             /\ q \in Servers /\ q.sent = z.sent /\ q.unacked = z.unacked
             /\ q.ticket = z.ticket /\ q.window = z.window /\ q.synced = b
      BY <3>1 DEF Servers
    <3> QED
      BY <3>1, <3>2, <3>3, Zenon
  <2> HIDE DEF x
  <2> QED
    BY <2>1, <2>2, <2>3
<1>4. [v EXCEPT !.sent = @ + 1, !.unacked = @ + 1] = [v EXCEPT !.sent = v.sent + 1, !.unacked = v.unacked + 1]
  BY DEF Servers
<1>5. \A w : [v EXCEPT !.sent = @ + 1, !.window = w, !.unacked = 1, !.synced = FALSE]
             = [v EXCEPT !.sent = v.sent + 1, !.window = w, !.unacked = 1, !.synced = FALSE]
  BY DEF Servers
<1> DEFINE a1 == v.sent + 1
           u1 == v.unacked + 1
<1> HIDE DEF a1, u1
<1>6. a1 \in Nat /\ u1 \in Int
  BY <1>1 DEF a1, u1
<1>7. LET x == [v EXCEPT !.sent = a1, !.unacked = u1] IN
             /\ x \in Servers /\ x.sent = a1 /\ x.unacked = u1
             /\ x.ticket = v.ticket /\ x.window = v.window /\ x.synced = v.synced
  BY <1>2, <1>6
<1>8. \A w \in Nat : LET x == [v EXCEPT !.sent = a1, !.window = w, !.unacked = 1, !.synced = FALSE] IN
             /\ x \in Servers /\ x.sent = a1 /\ x.unacked = 1
             /\ x.ticket = v.ticket /\ x.window = w /\ x.synced = FALSE
  BY <1>3, <1>6
<1> QED
  BY <1>4, <1>5, <1>7, <1>8, Zenon DEF a1, u1

LEMMA ChannelTyped ==
  ASSUME ChannelTypes, [ChannelNext]_channelVars
  PROVE  ChannelTypes'
<1>0. /\ main \in BOOLEAN /\ ws \in {"connecting", "open", "closed"}
      /\ state \in {"connecting", "start", "link", "ticket", "ready", "error", "closing"}
      /\ rd \in Readers /\ ack \in Acks /\ owed \in Seq(SentPieces) /\ srv \in Servers
      /\ timeout \in BOOLEAN /\ threw \in BOOLEAN /\ garbled \in BOOLEAN
  BY PartsAre
<1>1. CASE Open
  <2>1. /\ ws' = "open" /\ state' = "start" /\ rd' = [rd EXCEPT !.needed = 1] /\ Greets(owed')
        /\ UNCHANGED <<main, timeout, ack, srv, threw, garbled>>
    BY <1>1, OpenIs
  <2>2. owed' \in Seq(SentPieces)
    BY <2>1, GreetsIs
  <2>3. rd' \in Readers
    BY <1>0, <2>1 DEF Readers
  <2> QED
    BY <1>0, <2>1, <2>2, <2>3 DEF ChannelTypes, Channel, ChannelStates
<1>2. CASE SendAuth
  <2>1. PICK does \in Deeds \ {"set_ack"}, b \in BOOLEAN :
               /\ owed' = Append(owed, LinkPiece("auth", does))
               /\ srv' = [srv EXCEPT !.sent = 1, !.ticket = b]
    BY <1>2, SendAuthIs
  <2>2. UNCHANGED <<main, ws, state, rd, timeout, ack, threw, garbled>>
    BY <1>2, SendAuthIs
  <2>3. owed' \in Seq(SentPieces)
    BY <1>0, <2>1, LinkPieceIs, AppendProperties
  <2>4. srv' \in Servers
    BY <1>0, <2>1 DEF Servers
  <2> QED
    BY <1>0, <2>2, <2>3, <2>4 DEF ChannelTypes, Channel, ChannelStates, Readers
<1>3. CASE SendMessage
  <2>1. PICK size \in Nat, does \in Deeds \ {"set_ack"} : owed' = owed \o Message(size, does, 0)
    BY <1>3, SendMessageIs
  <2>2. /\ srv' = [srv EXCEPT !.sent = @ + 1, !.unacked = @ + 1]
        /\ UNCHANGED <<main, ws, state, rd, timeout, ack, threw, garbled>>
    BY <1>3, SendMessageIs
  <2>3. owed' \in Seq(SentPieces)
    BY <1>0, <2>1, MessageIsTyped
  <2>4. srv' \in Servers
    BY <1>0, <2>2, OneMore
  <2> QED
    BY <1>0, <2>2, <2>3, <2>4 DEF ChannelTypes, Channel, ChannelStates, Readers
<1>4. CASE SendSetAck
  <2>1. PICK w \in Nat :
               /\ owed' = owed \o Message(1, "set_ack", w)
               /\ srv' = [srv EXCEPT !.sent = @ + 1, !.window = w, !.unacked = 1, !.synced = FALSE]
    BY <1>4, SendSetAckIs
  <2>2. UNCHANGED <<main, ws, state, rd, timeout, ack, threw, garbled>>
    BY <1>4, SendSetAckIs
  <2>3. owed' \in Seq(SentPieces)
    <3>1. "set_ack" \in Deeds
      BY Zenon DEF Deeds
    <3> QED
      BY <1>0, <2>1, <3>1, MessageIsTyped
  <2>4. srv' \in Servers
    BY <1>0, <2>1, OneMore
  <2> QED
    BY <1>0, <2>2, <2>3, <2>4 DEF ChannelTypes, Channel, ChannelStates, Readers
<1>5. CASE \E n \in 1..InFlight : Arrive(n)
  <2> PICK n \in 1..InFlight : Arrive(n)
    BY <1>5
  <2> DEFINE r == Inbound(Channel, n)
  <2>1. n \in Nat
    OBVIOUS
  <2>2. r \in ChannelStates /\ r.threw = threw
    BY <2>1, ChannelStateIs, InboundIsTyped
  <2>3. Become(r)
    BY DEF Arrive
  <2> HIDE DEF r
  <2> QED
    BY <2>2, <2>3, BecomeIs
<1>6. CASE Timeout \/ SocketError \/ SocketClose \/ Stop
  <2> PICK r : Ends(r)
    BY <1>6, EndsAre
  <2> QED
    BY BecomeIs DEF Ends
<1>7. CASE UNCHANGED channelVars
  BY <1>7 DEF ChannelTypes, Channel, channelVars
<1> QED
  BY <1>1, <1>2, <1>3, <1>4, <1>5, <1>6, <1>7 DEF ChannelNext

(* What the server appends is what the channel's stage expects.             *)
LEMMA RightMore ==
  ASSUME NEW s \in ChannelStates, NEW c \in ChannelStates, Right(s), s.owed # <<>> \/ s.srv.sent # 0,
         s.state \in {"ticket", "ready"}, c.srv.sent # 0,
         c.state = s.state /\ c.needed = s.needed /\ c.saved = s.saved /\ c.buffers = s.buffers /\ c.ack = s.ack,
         NEW does \in Deeds, NEW n \in Nat, MessageSent(s.owed, c.owed, does, n),
         \/ /\ does # "set_ack" /\ c.srv.window = s.srv.window /\ c.srv.synced = s.srv.synced
            /\ c.srv.unacked = s.srv.unacked + 1
         \/ does = "set_ack" /\ c.srv.window = n /\ c.srv.unacked = 1 /\ ~c.srv.synced
  PROVE  Right(c)
<1> DEFINE o == s.owed
           q == c.owed
<1>1. /\ q \in Seq(SentPieces) /\ q # <<>> /\ Chained(q) /\ NoLinks(q)
      /\ o # <<>> => q[1] = o[1]
      /\ o = <<>> => q[1].kind = "mini" /\ q[1].len = Mini
      /\ Lens(q) >= Lens(o)
  BY Zenon DEF MessageSent
<1>2. o \in Seq(SentPieces) /\ Len(o) \in Nat /\ Lens(o) \in Nat /\ Lens(q) \in Nat /\ Len(q) \in Nat
  BY <1>1, LensNat, LenProperties DEF ChannelStates
<1>3. Aligned(s) /\ OneBlock(s) /\ Counted(s)
  BY DEF Right
<1>4. Aligned(c)
  <2>1. Asks(c) /\ Asks(s)
    BY <1>3 DEF Aligned, Asks
  <2>2. Stage(c)
    BY <1>1 DEF Stage, NoLinks
  <2>3. Expected(c) = Expected(s)
    BY DEF Expected
  <2>4. q[1].kind = Expected(c) /\ q[1].len = c.needed
    <3>1. CASE o # <<>>
      BY <1>1, <1>3, <2>3, <3>1 DEF Aligned
    <3>2. CASE o = <<>>
      <4>1. s.state = "ready" /\ s.saved = 0
        BY <1>3, <3>2 DEF Aligned, Stage
      <4>2. Expected(s) = "mini" /\ s.needed = Mini
        BY <2>1, <4>1 DEF Asks, Expected
      <4> QED
        BY <1>1, <2>3, <3>2, <4>2
    <3> QED
      BY <3>1, <3>2
  <2> QED
    BY <1>1, <2>1, <2>2, <2>4 DEF Aligned
<1>5. OneBlock(c)
  <2>1. Held(c) = Held(s)
    BY DEF Held
  <2>2. Held(s) \in Nat
    BY OnTrackTypes
  <2>3. Held(s) <= Lens(o) /\ Len(s.buffers) <= 1 /\ (s.buffers # <<>> => s.buffers[1] > 0)
    BY <1>3, Zenon DEF OneBlock
  <2>4. Held(c) <= Lens(q)
    BY <1>1, <1>2, <2>1, <2>2, <2>3
  <2> QED
    BY <2>3, <2>4 DEF OneBlock
<1>6. Counted(c)
  <2> SUFFICES ASSUME c.srv.window # 0 PROVE Counted(c)
    BY DEF Counted
  <2>1. CASE does = "set_ack"
    <3>1. LastSetAck(q, Len(q), n) /\ Pending(q, Len(q)) = 1
      BY <2>1 DEF MessageSent
    <3>2. Len(q) \in 1..Len(q)
      BY <3>1, Zenon DEF LastSetAck
    <3> QED
      BY <2>1, <3>1, <3>2 DEF Counted
  <2>2. CASE does # "set_ack"
    <3>1. /\ NoSetAck(o) => NoSetAck(q)
          /\ \A k \in 1..Len(o) + 1 : Pending(q, k) = Pending(o, k) + 1
          /\ \A k, w : LastSetAck(o, k, w) => LastSetAck(q, k, w)
      BY <2>2, Zenon DEF MessageSent
    <3>2. /\ c.srv.window = s.srv.window /\ c.srv.synced = s.srv.synced /\ c.srv.unacked = s.srv.unacked + 1
      BY <2>2
    <3>3. CASE s.srv.synced
      <4>1. /\ s.ack.window = s.srv.window /\ s.ack.until \in 1..s.ack.window
            /\ s.srv.unacked = s.ack.window - s.ack.until + Pending(o, 1) /\ Answered(s)
        BY <1>3, <2>2, <3>2, <3>3 DEF Counted
      <4>2. Answered(c)
        <5>1. DOMAIN o = 1..Len(o) /\ DOMAIN q = 1..Len(q)
          BY <1>1, <1>2, LenProperties
        <5> QED
          BY <3>1, <4>1, <5>1 DEF Answered, NoSetAck
      <4>3. Pending(q, 1) = Pending(o, 1) + 1
        BY <1>2, <3>1
      <4>4. Pending(o, 1) \in Nat
        <5>1. 1 \in 1..Len(o) + 1
          BY <1>2
        <5>2. q[1] \in SentPieces
          BY <1>1, <1>2, HeadTailProperties, ElementOfSeq, EmptySeq
        <5> QED
          BY <1>2, <5>1, <5>2, PendingLast
      <4>5. s.ack.window \in Nat /\ s.ack.until \in Int
        BY CountParts DEF Acks
      <4>6. c.srv.unacked = c.ack.window - c.ack.until + Pending(q, 1)
        BY <3>2, <4>1, <4>3, <4>4, <4>5
      <4> QED
        BY <3>2, <3>3, <4>1, <4>2, <4>6 DEF Counted
    <3>4. CASE ~s.srv.synced
      <4>1. PICK k \in 1..Len(o) : LastSetAck(o, k, s.srv.window) /\ s.srv.unacked = Pending(o, k)
        BY <1>3, <2>2, <3>2, <3>4 DEF Counted
      <4>2. LastSetAck(q, k, c.srv.window)
        BY <3>1, <3>2, <4>1
      <4>3. k \in 1..Len(q)
        BY <4>2, Zenon DEF LastSetAck
      <4>4. Pending(q, k) = Pending(o, k) + 1
        BY <1>2, <3>1
      <4> QED
        BY <3>2, <3>4, <4>1, <4>2, <4>3, <4>4 DEF Counted
    <3> QED
      BY <3>3, <3>4
  <2> QED
    BY <2>1, <2>2
<1> QED
  BY <1>4, <1>5, <1>6 DEF Right

LEMMA OnTrackStarts ==
  ASSUME ChannelTypes, ChannelInv, Open
  PROVE  ChannelInv'
<1> SUFFICES ASSUME ~threw' PROVE ws' # "connecting" /\ OnTrack(Channel') /\ (ws' = "open" => Held(Channel') < rd'.needed)
  BY DEF ChannelInv, NoneWaits
<1>1. /\ ws = "connecting" /\ ws' = "open" /\ state' = "start" /\ rd' = [rd EXCEPT !.needed = 1] /\ Greets(owed')
      /\ UNCHANGED <<main, timeout, ack, srv, threw, garbled>>
  BY OpenIs
<1>2. Starting
  BY <1>1 DEF ChannelInv
<1>3. /\ rd'.needed = 1 /\ rd'.saved = 0 /\ rd'.buffers = <<>>
      /\ srv'.sent = 0 /\ ~srv'.ticket /\ srv'.window = 0 /\ ~garbled'
  BY <1>1, <1>2, PartsAre DEF Starting, Readers
<1>4. /\ owed' \in Seq(SentPieces) /\ Chained(owed') /\ owed' # <<>> /\ owed'[1].kind = "hdr" /\ owed'[1].len = 1
      /\ \A i \in 1..Len(owed') : owed'[i].kind \in {"hdr", "reply"}
  BY <1>1, GreetsIs
<1> DEFINE c == Channel'
<1>5. /\ c.ws = "open" /\ c.state = "start" /\ c.needed = 1 /\ c.saved = 0 /\ c.buffers = <<>>
      /\ c.owed = owed' /\ c.srv = srv' /\ ~c.garbled
  BY <1>1, <1>3 DEF Channel
<1> HIDE DEF c
<1>6. Aligned(c)
  BY <1>3, <1>4, <1>5 DEF Aligned, Asks, Stage, Expected
<1>7. Held(c) = 0 /\ OneBlock(c)
  <2>1. Held(c) = 0
    BY <1>5 DEF Held
  <2>2. Lens(owed') \in Nat
    BY <1>4, LensNat
  <2> QED
    BY <1>5, <2>1, <2>2 DEF OneBlock
<1>8. Counted(c)
  BY <1>3, <1>5 DEF Counted
<1> QED
  BY <1>1, <1>3, <1>5, <1>6, <1>7, <1>8 DEF OnTrack, Right, c

LEMMA SentIs ==
  ASSUME ChannelTypes, ChannelInv, ws = "open", ~threw
  PROVE  /\ Right(Channel) /\ ~garbled /\ Held(Channel) < rd.needed
         /\ srv.ticket /\ srv.sent = 0 => state = "ticket" /\ owed = <<>>
         /\ srv.sent # 0 => state \in {"ticket", "ready"} /\ NoLinks(owed)
<1>1. OnTrack(Channel) /\ NoneWaits
  BY DEF ChannelInv
<1>2. Right(Channel) /\ ~garbled /\ Held(Channel) < rd.needed
  BY <1>1, ChannelIs DEF OnTrack, NoneWaits
<1>3. Asks(Channel) /\ Stage(Channel)
  BY <1>2 DEF Right, Aligned
<1>4. state \in {"start", "link", "ticket", "ready"}
  BY <1>3, ChannelIs DEF Asks
<1>5. srv.ticket /\ srv.sent = 0 => state = "ticket" /\ owed = <<>>
  BY <1>3, <1>4, ChannelIs DEF Stage
<1>6. srv.sent # 0 => state \in {"ticket", "ready"} /\ NoLinks(owed)
  BY <1>3, <1>4, ChannelIs DEF Stage, NoLinks
<1> QED
  BY <1>2, <1>5, <1>6

(* What the server sends leaves the channel's own part alone.               *)
LEMMA SendingIs ==
  ASSUME ChannelTypes, UNCHANGED <<main, ws, state, rd, timeout, ack, threw, garbled>>
  PROVE  LET c == Channel' IN
         /\ c.ws = ws /\ c.state = state /\ c.needed = rd.needed /\ c.saved = rd.saved /\ c.buffers = rd.buffers
         /\ c.ack = ack /\ c.garbled = garbled /\ c.owed = owed' /\ c.srv = srv'
         /\ Held(c) = Held(Channel)
BY DEF Channel, Held

LEMMA AuthKeeps ==
  ASSUME ChannelTypes, ChannelInv, SendAuth
  PROVE  ChannelInv'
<1>1. /\ ws = "open" /\ srv.ticket /\ srv.sent = 0
      /\ UNCHANGED <<main, ws, state, rd, timeout, ack, threw, garbled>>
  BY SendAuthIs
<1> SUFFICES ASSUME ~threw' PROVE ws' # "connecting" /\ OnTrack(Channel') /\ (ws' = "open" => Held(Channel') < rd'.needed)
  BY DEF ChannelInv, NoneWaits
<1>2. PICK does \in Deeds \ {"set_ack"}, b \in BOOLEAN :
               /\ owed' = Append(owed, LinkPiece("auth", does))
               /\ srv' = [srv EXCEPT !.sent = 1, !.ticket = b]
  BY SendAuthIs
<1> DEFINE s == Channel
           c == Channel'
           p == LinkPiece("auth", does)
<1>3. /\ s \in ChannelStates /\ s.state = "ticket" /\ s.owed = <<>> /\ s.needed = rd.needed /\ s.saved = rd.saved
      /\ Right(s) /\ ~garbled /\ Held(s) < rd.needed /\ s.buffers = rd.buffers /\ s.srv = srv /\ s.ack = ack
  BY <1>1, SentIs, ChannelIs DEF ChannelTypes
<1>4. /\ c.ws = "open" /\ c.state = "ticket" /\ c.needed = s.needed /\ c.saved = s.saved /\ c.buffers = s.buffers
      /\ c.ack = s.ack /\ ~c.garbled /\ c.owed = owed' /\ c.srv = srv' /\ Held(c) = Held(s)
  BY <1>1, <1>3, SendingIs, ChannelIs
<1>5. p \in SentPieces /\ p.kind = "auth" /\ p.len = 1 /\ Shaped(p) /\ ~HalfSent(p)
  BY LinkPieceIs
<1> HIDE DEF p
<1>6. owed' = <<p>>
  <2>1. owed = <<>>
    BY <1>3, ChannelIs
  <2>2. Append(<<>>, p) = <<p>>
    OBVIOUS
  <2> QED
    BY <1>2, <2>1, <2>2 DEF p
<1>7. Len(owed') = 1 /\ owed'[1] = p /\ owed' # <<>> /\ owed' \in Seq(SentPieces)
  BY <1>5, <1>6
<1>8. srv'.sent = 1 /\ srv'.window = srv.window
  BY <1>2, PartsAre DEF Servers
<1> HIDE DEF s, c
<1>9. Asks(s) /\ OneBlock(s) /\ Counted(s)
  BY <1>3 DEF Right, Aligned
<1>10. Aligned(c)
  <2>1. Asks(c) /\ c.needed = 1
    BY <1>3, <1>4, <1>9 DEF Asks
  <2>2. Stage(c)
    BY <1>4, <1>5, <1>7, <1>8 DEF Stage
  <2>3. Chained(owed')
    BY <1>5, <1>7 DEF Chained
  <2>4. Expected(c) = "auth"
    BY <1>4 DEF Expected
  <2> QED
    BY <1>4, <1>5, <1>7, <2>1, <2>2, <2>3, <2>4 DEF Aligned
<1>11. OneBlock(c)
  <2>1. Lens(s.owed) = 0 /\ Lens(owed') \in Nat
    BY <1>3, <1>7, LensNat
  <2>2. Held(s) \in Nat /\ Held(s) <= 0
    BY <1>3, <2>1, OnTrackTypes
  <2>3. Len(s.buffers) <= 1 /\ (s.buffers # <<>> => s.buffers[1] > 0)
    BY <1>9, Zenon DEF OneBlock
  <2> QED
    BY <1>4, <2>1, <2>2, <2>3 DEF OneBlock
<1>12. Counted(c)
  <2> SUFFICES ASSUME srv.window # 0 PROVE Counted(c)
    BY <1>4, <1>8 DEF Counted
  <2>1. /\ s.srv.synced /\ s.ack.window = s.srv.window /\ s.ack.until \in 1..s.ack.window
        /\ s.srv.unacked = s.ack.window - s.ack.until + Pending(s.owed, 1)
    <3>1. Len(s.owed) = 0
      BY <1>3
    <3>2. ~\E k \in 1..Len(s.owed) : TRUE
      BY <3>1
    <3> QED
      BY <1>3, <1>9, <3>2 DEF Counted
  <2>2. srv'.synced = srv.synced /\ srv'.unacked = srv.unacked
    BY <1>2, PartsAre DEF Servers
  <2>3. Pending(owed', 1) = Pending(s.owed, 1)
    <3>1. Weight(p) = 0
      BY <1>5 DEF Weight
    <3>2. <<>> \in Seq(SentPieces) /\ 1 \in 1..Len(<<>>) + 1 /\ owed' = Append(<<>>, p)
      BY <1>6
    <3>3. Pending(Append(<<>>, p), 1) = Pending(<<>>, 1) + 0 /\ Pending(<<>>, 1) \in Nat
      BY <1>5, <3>1, <3>2, PendingLast
    <3> QED
      BY <1>3, <3>2, <3>3
  <2>4. Answered(c)
    <3>1. p.does # "set_ack"
      BY LinkPieceIs DEF p
    <3> QED
      BY <1>4, <1>7, <3>1 DEF Answered
  <2> QED
    BY <1>3, <1>4, <1>8, <2>1, <2>2, <2>3, <2>4 DEF Counted
<1> QED
  BY <1>1, <1>3, <1>4, <1>10, <1>11, <1>12 DEF OnTrack, Right, c

LEMMA MessagesKeep ==
  ASSUME ChannelTypes, ChannelTypes', ChannelInv, SendMessage \/ SendSetAck
  PROVE  ChannelInv'
<1>1. MaySend /\ UNCHANGED <<main, ws, state, rd, timeout, ack, threw, garbled>>
  BY SendMessageIs, SendSetAckIs
<1> SUFFICES ASSUME ~threw' PROVE ws' # "connecting" /\ OnTrack(Channel') /\ (ws' = "open" => Held(Channel') < rd'.needed)
  BY DEF ChannelInv, NoneWaits
<1>2. ws = "open" /\ srv.sent # 0 /\ srv \in Servers /\ ~threw
  BY <1>1, PartsAre DEF MaySend
<1> DEFINE s == Channel
           c == Channel'
<1>3. /\ s \in ChannelStates /\ s.state \in {"ticket", "ready"} /\ NoLinks(s.owed) /\ s.srv.sent # 0
      /\ Right(s) /\ ~garbled /\ Held(s) < rd.needed /\ s.srv = srv /\ s.owed = owed
      /\ s.state = state /\ s.needed = rd.needed /\ s.saved = rd.saved /\ s.buffers = rd.buffers /\ s.ack = ack
  BY <1>2, SentIs, ChannelIs DEF ChannelTypes
<1>4. /\ c.ws = "open" /\ c.state = s.state /\ c.needed = s.needed /\ c.saved = s.saved /\ c.buffers = s.buffers
      /\ c.ack = s.ack /\ ~c.garbled /\ c.owed = owed' /\ c.srv = srv' /\ Held(c) = Held(s)
  BY <1>1, <1>2, <1>3, SendingIs
<1>5. c \in ChannelStates
  BY DEF ChannelTypes
<1>6. s.owed \in Seq(SentPieces) /\ Chained(s.owed)
  BY <1>3 DEF Right, Aligned, ChannelStates
<1> HIDE DEF s, c
<1>7. CASE SendMessage
  <2> PICK size \in Nat, does \in Deeds \ {"set_ack"} : owed' = owed \o Message(size, does, 0)
    BY <1>7, SendMessageIs
  <2>1. srv' = [srv EXCEPT !.sent = @ + 1, !.unacked = @ + 1]
    BY <1>7, SendMessageIs
  <2>2. srv'.sent = srv.sent + 1 /\ srv'.unacked = srv.unacked + 1 /\ srv'.window = srv.window /\ srv'.synced = srv.synced
    BY <1>2, <2>1, OneMore
  <2>3. srv'.sent # 0
    BY <1>2, <2>2 DEF Servers
  <2>4. MessageSent(s.owed, c.owed, does, 0)
    BY <1>3, <1>4, <1>6, MessageIsSent
  <2>5. Right(c)
    BY <1>3, <1>4, <1>5, <2>2, <2>3, <2>4, RightMore
  <2> QED
    BY <1>1, <1>2, <1>3, <1>4, <2>5 DEF OnTrack, c
<1>8. CASE SendSetAck
  <2> PICK w \in Nat :
               /\ owed' = owed \o Message(1, "set_ack", w)
               /\ srv' = [srv EXCEPT !.sent = @ + 1, !.window = w, !.unacked = 1, !.synced = FALSE]
    BY <1>8, SendSetAckIs
  <2>1. "set_ack" \in Deeds
    BY Zenon DEF Deeds
  <2>2. srv'.sent = srv.sent + 1 /\ srv'.unacked = 1 /\ srv'.window = w /\ ~srv'.synced
    BY <1>2, OneMore
  <2>3. srv'.sent # 0
    BY <1>2, <2>2 DEF Servers
  <2>4. MessageSent(s.owed, c.owed, "set_ack", w)
    <3>1. \A size \in Nat, does \in Deeds : MessageSent(s.owed, s.owed \o Message(size, does, w), does, w)
      BY <1>3, <1>6, MessageIsSent
    <3>2. MessageSent(s.owed, s.owed \o Message(1, "set_ack", w), "set_ack", w)
      BY <2>1, <3>1
    <3> QED
      BY <1>3, <1>4, <3>2
  <2>5. Right(c)
    BY <1>3, <1>4, <1>5, <2>1, <2>2, <2>3, <2>4, RightMore
  <2> QED
    BY <1>1, <1>2, <1>3, <1>4, <2>5 DEF OnTrack, c
<1> QED
  BY <1>7, <1>8

LEMMA TotalHeld ==
  ASSUME NEW s \in ChannelStates, Right(s)
  PROVE  Total(s.buffers) = Held(s)
<1>1. Held(s) \in Nat /\ (s.buffers = <<>> \/ s.buffers = <<Held(s)>>)
  BY OnTrackTypes
<1> DEFINE none == [i \in 1..0 |-> 0]
           x == Held(s)
<1>2. none \in [1..0 -> Nat] /\ none = <<>>
  OBVIOUS
<1>3. Total(<<>>) = 0
  BY <1>2, TotalNone
<1> HIDE DEF x, none
<1>4. Total(<<x>>) = x
  <2> DEFINE one == [i \in 1..0+1 |-> x]
  <2>1. x \in Nat
    BY <1>1 DEF x
  <2>2. one \in [1..0+1 -> Nat] /\ one[0+1] = x /\ one = <<x>> /\ \A i \in 1..0 : none[i] = one[i]
    BY <2>1
  <2> HIDE DEF one
  <2>3. Total(one) = Total(none) + one[0+1] /\ Total(none) = 0
    BY <1>2, <2>2, TotalLast, TotalNone
  <2> QED
    BY <2>1, <2>2, <2>3
<1>5. CASE s.buffers = <<>>
  BY <1>3, <1>5 DEF Held
<1>6. CASE s.buffers = <<Held(s)>>
  BY <1>4, <1>6 DEF x
<1> QED
  BY <1>1, <1>5, <1>6

LEMMA ArriveKeeps ==
  ASSUME ChannelTypes, ChannelInv, NEW n \in 1..InFlight, Arrive(n)
  PROVE  ChannelInv'
<1> SUFFICES ASSUME ~threw' PROVE ws' # "connecting" /\ OnTrack(Channel') /\ (ws' = "open" => Held(Channel') < rd'.needed)
  BY DEF ChannelInv, NoneWaits
<1> DEFINE s == Channel
           r == Inbound(s, n)
<1>1. n \in Nat \ {0} /\ n <= InFlight
  OBVIOUS
<1>2. ws = "open" /\ Become(r)
  BY DEF Arrive
<1>3. s \in ChannelStates /\ s.threw = threw
  BY ChannelStateIs
<1>4. /\ s.ws = ws /\ ~s.thrown /\ s.needed = rd.needed /\ s.buffers = rd.buffers /\ s.owed = owed
      /\ s.garbled = garbled
  BY ChannelIs
<1> HIDE DEF s, r
<1>5. r \in ChannelStates /\ r.threw = threw
  BY <1>1, <1>3, InboundIsTyped DEF r
<1>6. ~threw
  BY <1>2, <1>5, BecomeIs
<1>7. Right(s) /\ ~garbled /\ Held(s) < rd.needed
  BY <1>2, <1>6, SentIs DEF s
<1>8. Held(s) + n <= Lens(s.owed)
  <2>1. owed \in Seq(SentPieces)
    BY PartsAre
  <2>2. InFlight = Lens(s.owed) - Held(s)
    <3>1. Total([i \in DOMAIN owed |-> owed[i].len]) = Lens(owed)
      <4>1. DOMAIN owed = 1..Len(owed)
        BY <2>1, LenProperties
      <4> QED
        BY <4>1 DEF Lens
    <3>2. Total(rd.buffers) = Held(s)
      BY <1>3, <1>4, <1>7, TotalHeld
    <3> QED
      BY <1>4, <3>1, <3>2 DEF InFlight
  <2>3. Lens(s.owed) \in Nat /\ Held(s) \in Nat
    BY <1>3, <1>7, OnTrackTypes
  <2> QED
    BY <1>1, <2>2, <2>3
<1>9. OnTrack(r) /\ (r.thrown \/ r.ws # "open" \/ Held(r) < r.needed)
  BY <1>1, <1>2, <1>3, <1>4, <1>7, <1>8, InboundOnTrack DEF r
<1> QED
  BY <1>2, <1>5, <1>9, HandledIs

LEMMA EndsKeep ==
  ASSUME ChannelTypes, ChannelInv, Timeout \/ SocketError \/ SocketClose \/ Stop
  PROVE  ChannelInv'
<1> SUFFICES ASSUME ~threw' PROVE ws' # "connecting" /\ OnTrack(Channel') /\ (ws' = "open" => Held(Channel') < rd'.needed)
  BY DEF ChannelInv, NoneWaits
<1>1. PICK r : /\ Ends(r)
               /\ \/ r.thrown \/ Gone(r)
                  \/ r.ws = "closed" /\ r.state = state /\ (Counted(Channel) => Counted(r))
  BY EndsAre
<1>2. r \in ChannelStates /\ r.threw = threw /\ Become(r) /\ r.garbled = garbled
  BY <1>1 DEF Ends
<1>3. ~threw /\ ~r.thrown
  BY <1>2, BecomeIs
<1>4. ~garbled
  BY <1>3, ChannelIs DEF ChannelInv, Starting, OnTrack
<1>5. state = "ready" => Counted(Channel)
  <2> SUFFICES ASSUME state = "ready" PROVE Counted(Channel)
    OBVIOUS
  <2>1. ws # "connecting"
    BY <1>3 DEF ChannelInv, Starting
  <2>2. OnTrack(Channel)
    BY <1>3, <2>1 DEF ChannelInv
  <2> QED
    BY <2>2, ChannelIs DEF OnTrack, Right
<1>6. OnTrack(r) /\ r.ws # "open"
  BY <1>1, <1>2, <1>3, <1>4, <1>5 DEF OnTrack, Gone
<1> QED
  BY <1>2, <1>6, HandledIs

LEMMA InitIs ==
  ASSUME ChannelInit
  PROVE  ChannelTypes /\ ChannelInv
<1>1. rd \in Readers /\ ack \in Acks /\ srv \in Servers /\ owed \in Seq(SentPieces)
  BY DEF ChannelInit, Readers, Acks, Servers
<1>2. ChannelTypes
  BY <1>1, PartsMake DEF ChannelInit
<1>3. ChannelInv
  BY DEF ChannelInit, ChannelInv, Starting
<1> QED
  BY <1>2, <1>3

(* Until a handler throws, what the channel asks for is what the server     *)
(* sends next, the reader holds less than that, and the server's count of   *)
(* messages is what the channel has still to ack.                           *)
THEOREM ChannelKeeps == ChannelSpec => [](ChannelTypes /\ ChannelInv)
<1>1. ChannelInit => ChannelTypes /\ ChannelInv
  BY InitIs
<1>2. ChannelTypes /\ ChannelInv /\ [ChannelNext]_channelVars => (ChannelTypes /\ ChannelInv)'
  <2> SUFFICES ASSUME ChannelTypes, ChannelInv, [ChannelNext]_channelVars PROVE ChannelTypes' /\ ChannelInv'
    OBVIOUS
  <2>1. ChannelTypes'
    BY ChannelTyped
  <2>2. CASE Open
    BY <2>1, <2>2, OnTrackStarts
  <2>3. CASE SendAuth
    BY <2>1, <2>3, AuthKeeps
  <2>4. CASE SendMessage \/ SendSetAck
    BY <2>1, <2>4, MessagesKeep
  <2>5. CASE \E n \in 1..InFlight : Arrive(n)
    BY <2>1, <2>5, ArriveKeeps
  <2>6. CASE Timeout \/ SocketError \/ SocketClose \/ Stop
    BY <2>1, <2>6, EndsKeep
  <2>7. CASE UNCHANGED channelVars
    <3>1. ChannelInv'
      BY <2>7 DEF ChannelInv, Starting, NoneWaits, Channel, channelVars
    <3> QED
      BY <2>1, <3>1
  <2> QED
    BY <2>2, <2>3, <2>4, <2>5, <2>6, <2>7 DEF ChannelNext
<1> QED
  BY <1>1, <1>2, PTL DEF ChannelSpec

(* However the frames are cut, and whatever the server's messages are, the  *)
(* reader hands over whole pieces, each as the kind the channel's state     *)
(* expects: the request at the end of every branch of process_inbound names *)
(* the length of what comes next.                                           *)
THEOREM ChannelStaysInStep == ChannelSpec => []InStep
<1>1. ChannelTypes /\ ChannelInv => InStep
  BY ChannelIs, PartsAre DEF ChannelInv, InStep, Starting, OnTrack
<1> QED
  BY <1>1, ChannelKeeps, PTL

(* A frame that completes one piece or several has all of them handed over: *)
(* inbound's loop runs as long as the first block is long enough.           *)
THEOREM NoPieceWaitsInTheReader == ChannelSpec => []NothingWaits
<1>1. ASSUME ChannelTypes, ChannelInv, ws = "open", rd.needed > 0, ~threw PROVE Total(rd.buffers) < rd.needed
  <2>1. Right(Channel) /\ Held(Channel) < rd.needed
    BY <1>1, SentIs
  <2>2. Total(rd.buffers) = Held(Channel)
    BY <1>1, <2>1, ChannelStateIs, ChannelIs, TotalHeld
  <2> QED
    BY <2>1, <2>2
<1>2. ChannelTypes /\ ChannelInv => NothingWaits
  BY <1>1 DEF NothingWaits
<1> QED
  BY <1>2, ChannelKeeps, PTL

(* Each time msgs_until_ack runs out the server hears of a window's worth of *)
(* messages, so that when it waits for nothing else less than a window of    *)
(* them is without an ack, whatever SET_ACKs came with them.                 *)
THEOREM AcksKeepUpWithMessages == ChannelSpec => []AcksKeepUp
<1>1. ASSUME ChannelTypes, ChannelInv, state = "ready", owed = <<>>, srv.window > 0, ~threw
      PROVE  srv.unacked < srv.window
  <2> DEFINE s == Channel
  <2>1. Counted(s)
    <3>1. ws # "connecting"
      BY <1>1 DEF ChannelInv, Starting
    <3>2. OnTrack(s)
      BY <1>1, <3>1 DEF ChannelInv
    <3> QED
      BY <1>1, <3>2, ChannelIs DEF OnTrack, Right
  <2>2. s \in ChannelStates /\ s.owed = <<>> /\ s.srv = srv /\ s.ack = ack
    BY <1>1, ChannelStateIs, ChannelIs
  <2> HIDE DEF s
  <2>3. ack \in Acks /\ srv \in Servers
    BY <1>1, PartsAre
  <2>4. /\ ack.window = srv.window /\ ack.until \in 1..ack.window
        /\ srv.unacked = ack.window - ack.until + Pending(<<>>, 1)
    <3>1. ~\E k \in 1..Len(s.owed) : TRUE
      BY <2>2
    <3>2. s.srv.window # 0
      BY <1>1, <2>2, <2>3 DEF Servers
    <3> QED
      BY <2>1, <2>2, <3>1, <3>2 DEF Counted
  <2>5. Pending(<<>>, 1) = 0
    <3>1. <<>> \in Seq(SentPieces) /\ Len(<<>>) + 1 = 1
      OBVIOUS
    <3> QED
      BY <3>1, PendingNone
  <2> QED
    BY <2>3, <2>4, <2>5 DEF Acks, Servers
<1>2. ChannelTypes /\ ChannelInv => AcksKeepUp
  BY <1>1 DEF AcksKeepUp
<1> QED
  BY <1>2, ChannelKeeps, PTL
-----------------------------------------------------------------------------
(* The layouts of ConsoleWire.  Fields take the writer from a place to a     *)
(* place, and from the ends that are open before to those open after.        *)
Fields == [kind : {"field", "declares", "end", "blank"}, w : Nat, len : Nat]
Opens(f, from, ends) ==
    CASE f.kind = "declares" -> <<from + f.w + f.len>> \o ends
      [] f.kind = "end"      -> Tail(ends)
      [] OTHER               -> ends
Track(us, size, at, open) ==
    /\ at \in [0..Len(us) -> 0..size] /\ open \in [0..Len(us) -> Seq(0..size)]
    /\ \A i \in 1..Len(us) :
         /\ at[i] = at[i-1] + us[i].w
         /\ us[i].kind = "end" => open[i-1] # <<>> /\ Head(open[i-1]) = at[i-1]
         /\ open[i] = Opens(us[i], at[i-1], open[i-1])
Leads(us, size, from, ends, to, after) ==
    /\ us \in Seq(Fields)
    /\ \E at, open : /\ Track(us, size, at, open)
                     /\ at[0] = from /\ open[0] = ends
                     /\ at[Len(us)] = to /\ open[Len(us)] = after

LEMMA LeadsNone ==
  ASSUME NEW size \in Nat, NEW from \in 0..size, NEW ends \in Seq(0..size)
  PROVE  Leads(<<>>, size, from, ends, from, ends)
<1> DEFINE at == [i \in 0..0 |-> from]
           open == [i \in 0..0 |-> ends]
<1>1. <<>> \in Seq(Fields) /\ Len(<<>>) = 0 /\ 0 \in 0..0 /\ 1..0 = {}
  OBVIOUS
<1>2. at \in [0..0 -> 0..size] /\ open \in [0..0 -> Seq(0..size)] /\ at[0] = from /\ open[0] = ends
  BY <1>1, Zenon
<1> HIDE DEF at, open
<1>3. Track(<<>>, size, at, open)
  BY <1>1, <1>2 DEF Track
<1> QED
  BY <1>1, <1>2, <1>3 DEF Leads

LEMMA LeadsOne ==
  ASSUME NEW size \in Nat, NEW from \in 0..size, NEW ends \in Seq(0..size), NEW f \in Fields,
         from + f.w \in 0..size, Opens(f, from, ends) \in Seq(0..size),
         f.kind = "end" => ends # <<>> /\ Head(ends) = from
  PROVE  Leads(<<f>>, size, from, ends, from + f.w, Opens(f, from, ends))
<1> DEFINE to == from + f.w
           after == Opens(f, from, ends)
           at == [i \in 0..1 |-> IF i = 0 THEN from ELSE to]
           open == [i \in 0..1 |-> IF i = 0 THEN ends ELSE after]
<1>1. <<f>> \in Seq(Fields) /\ Len(<<f>>) = 1 /\ <<f>>[1] = f /\ 0 \in 0..1 /\ 1 \in 0..1 /\ 1 - 1 = 0 /\ 0 # 1
  OBVIOUS
<1>2. to \in 0..size /\ after \in Seq(0..size)
  OBVIOUS
<1> HIDE DEF to, after
<1>3. /\ at \in [0..1 -> 0..size] /\ open \in [0..1 -> Seq(0..size)]
      /\ at[0] = from /\ open[0] = ends /\ at[1] = to /\ open[1] = after
  BY <1>1, <1>2, Zenon
<1> HIDE DEF at, open
<1>4. ASSUME NEW i \in 1..Len(<<f>>)
      PROVE  /\ at[i] = at[i-1] + <<f>>[i].w
             /\ <<f>>[i].kind = "end" => open[i-1] # <<>> /\ Head(open[i-1]) = at[i-1]
             /\ open[i] = Opens(<<f>>[i], at[i-1], open[i-1])
  <2>1. i = 1 /\ i - 1 = 0 /\ <<f>>[i] = f
    BY <1>1, <1>4
  <2> QED
    BY <1>3, <2>1 DEF to, after
<1>5. Track(<<f>>, size, at, open)
  BY <1>1, <1>3, <1>4 DEF Track
<1> QED
  BY <1>1, <1>3, <1>5, Zenon DEF Leads, to, after

LEMMA LeadsJoin ==
  ASSUME NEW us, NEW vs, NEW size \in Nat, NEW from, NEW ends, NEW mid, NEW between, NEW to, NEW after,
         Leads(us, size, from, ends, mid, between), Leads(vs, size, mid, between, to, after)
  PROVE  Leads(us \o vs, size, from, ends, to, after)
<1>1. us \in Seq(Fields) /\ vs \in Seq(Fields)
  BY DEF Leads
<1>2. PICK at, open : /\ Track(us, size, at, open) /\ at[0] = from /\ open[0] = ends
                      /\ at[Len(us)] = mid /\ open[Len(us)] = between
  BY DEF Leads
<1>3. PICK bt, pen : /\ Track(vs, size, bt, pen) /\ bt[0] = mid /\ pen[0] = between
                     /\ bt[Len(vs)] = to /\ pen[Len(vs)] = after
  BY DEF Leads
<1> DEFINE m == Len(us)
           n == Len(vs)
           all == us \o vs
           ct == [i \in 0..m+n |-> IF i <= m THEN at[i] ELSE bt[i - m]]
           ren == [i \in 0..m+n |-> IF i <= m THEN open[i] ELSE pen[i - m]]
<1>4. /\ all \in Seq(Fields) /\ Len(all) = m + n /\ m \in Nat /\ n \in Nat
      /\ \A i \in 1..m : all[i] = us[i]
      /\ \A i \in 1..n : all[m + i] = vs[i]
  BY <1>1
<1> HIDE DEF all, m, n
<1>5. /\ \A i \in 0..m : at[i] \in 0..size /\ open[i] \in Seq(0..size)
      /\ \A i \in 0..n : bt[i] \in 0..size /\ pen[i] \in Seq(0..size)
  BY <1>2, <1>3 DEF Track, m, n
<1>6. /\ \A i \in 0..m : i \in 0..m+n /\ ct[i] = at[i] /\ ren[i] = open[i]
      /\ \A i \in 0..n : m + i \in 0..m+n /\ ct[m + i] = bt[i] /\ ren[m + i] = pen[i]
  <2>1. \A i \in 0..m : i \in 0..m+n /\ i <= m
    BY <1>4
  <2>2. \A i \in 1..n : m + i \in 0..m+n /\ ~(m + i <= m) /\ (m + i) - m = i
    BY <1>4
  <2>3. m \in 0..m+n /\ m <= m /\ m + 0 = m /\ \A i \in 0..n : i = 0 \/ i \in 1..n
    BY <1>4
  <2>4. at[m] = bt[0] /\ open[m] = pen[0]
    BY <1>2, <1>3 DEF m
  <2>5. ASSUME NEW i \in 0..n PROVE m + i \in 0..m+n /\ ct[m + i] = bt[i] /\ ren[m + i] = pen[i]
    <3>1. CASE i = 0
      BY <2>3, <2>4, <3>1
    <3>2. CASE i \in 1..n
      BY <2>2, <3>2
    <3> QED
      BY <2>3, <3>1, <3>2
  <2> QED
    BY <2>1, <2>5
<1>7. ct \in [0..m+n -> 0..size] /\ ren \in [0..m+n -> Seq(0..size)]
  <2>1. ASSUME NEW i \in 0..m+n
        PROVE  (i <= m => i \in 0..m) /\ (~(i <= m) => i - m \in 0..n)
    BY <1>4
  <2> QED
    BY <1>5, <2>1
<1> HIDE DEF ct, ren
<1>8. ASSUME NEW i \in 1..m+n
      PROVE  /\ ct[i] = ct[i-1] + all[i].w
             /\ all[i].kind = "end" => ren[i-1] # <<>> /\ Head(ren[i-1]) = ct[i-1]
             /\ ren[i] = Opens(all[i], ct[i-1], ren[i-1])
  <2>1. CASE i <= m
    <3>1. i \in 1..m /\ i \in 0..m /\ i - 1 \in 0..m
      BY <1>4, <1>8, <2>1
    <3>2. ct[i] = at[i] /\ ct[i-1] = at[i-1] /\ ren[i] = open[i] /\ ren[i-1] = open[i-1] /\ all[i] = us[i]
      BY <1>4, <1>6, <3>1
    <3> QED
      BY <1>2, <3>1, <3>2 DEF Track, m
  <2>2. CASE ~(i <= m)
    <3> DEFINE k == i - m
    <3>1. k \in 1..n /\ k \in 0..n /\ k - 1 \in 0..n /\ m + k = i /\ m + (k - 1) = i - 1
      BY <1>4, <1>8, <2>2
    <3> HIDE DEF k
    <3>2. ct[i] = bt[k] /\ ct[i-1] = bt[k-1] /\ ren[i] = pen[k] /\ ren[i-1] = pen[k-1] /\ all[i] = vs[k]
      BY <1>4, <1>6, <3>1
    <3> QED
      BY <1>3, <3>1, <3>2 DEF Track, n
  <2> QED
    BY <2>1, <2>2
<1>9. Track(all, size, ct, ren)
  BY <1>4, <1>7, <1>8 DEF Track
<1>10. ct[0] = from /\ ren[0] = ends /\ ct[m + n] = to /\ ren[m + n] = after
  <2>1. 0 \in 0..m /\ n \in 0..n
    BY <1>4
  <2> QED
    BY <1>2, <1>3, <1>6, <2>1 DEF n
<1> QED
  BY <1>4, <1>9, <1>10 DEF Leads, all

(* One field further: what the writer does.                                  *)
LEMMA LeadsOn ==
  ASSUME NEW us, NEW size \in Nat, NEW from, NEW ends, NEW to, NEW after,
         Leads(us, size, from, ends, to, after)
  PROVE  /\ us \in Seq(Fields) /\ from \in 0..size /\ ends \in Seq(0..size)
         /\ us = <<>> => from = to
         /\ us # <<>> =>
              /\ Head(us).kind = "end" => ends # <<>> /\ Head(ends) = from
              /\ Leads(Tail(us), size, from + Head(us).w, Opens(Head(us), from, ends), to, after)
<1>1. us \in Seq(Fields) /\ Len(us) \in Nat
  BY DEF Leads
<1>2. PICK at, open : /\ Track(us, size, at, open) /\ at[0] = from /\ open[0] = ends
                      /\ at[Len(us)] = to /\ open[Len(us)] = after
  BY DEF Leads
<1>3. \A i \in 0..Len(us) : at[i] \in 0..size /\ open[i] \in Seq(0..size)
  BY <1>2 DEF Track
<1>4. from \in 0..size /\ ends \in Seq(0..size)
  BY <1>1, <1>2, <1>3
<1>5. us = <<>> => from = to
  BY <1>2
<1>6. ASSUME us # <<>>
      PROVE  /\ Head(us).kind = "end" => ends # <<>> /\ Head(ends) = from
             /\ Leads(Tail(us), size, from + Head(us).w, Opens(Head(us), from, ends), to, after)
  <2> DEFINE n == Len(us) - 1
             vs == Tail(us)
             bt == [i \in 0..n |-> at[i+1]]
             pen == [i \in 0..n |-> open[i+1]]
  <2>1. /\ n \in Nat /\ n + 1 = Len(us) /\ vs \in Seq(Fields) /\ Len(vs) = n /\ 1 \in 1..Len(us) /\ 1 - 1 = 0
        /\ Head(us) = us[1] /\ \A i \in 1..n : vs[i] = us[i+1]
    BY <1>1, <1>6
  <2> HIDE DEF n, vs
  <2>2. /\ at[1] = from + Head(us).w
        /\ Head(us).kind = "end" => ends # <<>> /\ Head(ends) = from
        /\ open[1] = Opens(Head(us), from, ends)
    BY <1>2, <2>1 DEF Track
  <2>3. \A i \in 0..n : i + 1 \in 0..Len(us)
    BY <2>1
  <2>4. bt \in [0..n -> 0..size] /\ pen \in [0..n -> Seq(0..size)]
    BY <1>3, <2>3
  <2>5. \A i \in 0..n : bt[i] = at[i+1] /\ pen[i] = open[i+1]
    OBVIOUS
  <2> HIDE DEF bt, pen
  <2>6. ASSUME NEW i \in 1..n
        PROVE  /\ bt[i] = bt[i-1] + vs[i].w
               /\ vs[i].kind = "end" => pen[i-1] # <<>> /\ Head(pen[i-1]) = bt[i-1]
               /\ pen[i] = Opens(vs[i], bt[i-1], pen[i-1])
    <3>1. i \in 0..n /\ i - 1 \in 0..n /\ i + 1 \in 1..Len(us) /\ (i - 1) + 1 = i /\ (i + 1) - 1 = i
      BY <2>1, <2>6
    <3>2. bt[i] = at[i+1] /\ bt[i-1] = at[i] /\ pen[i] = open[i+1] /\ pen[i-1] = open[i] /\ vs[i] = us[i+1]
      BY <2>1, <2>5, <2>6, <3>1
    <3> QED
      BY <1>2, <3>1, <3>2 DEF Track
  <2>7. Track(vs, size, bt, pen)
    BY <2>1, <2>4, <2>6 DEF Track
  <2>8. bt[0] = at[1] /\ pen[0] = open[1] /\ bt[n] = to /\ pen[n] = after
    <3>1. 0 \in 0..n /\ n \in 0..n /\ 0 + 1 = 1
      BY <2>1
    <3> QED
      BY <1>2, <2>1, <2>5, <3>1
  <2>9. Leads(vs, size, from + Head(us).w, Opens(Head(us), from, ends), to, after)
    BY <2>1, <2>2, <2>7, <2>8 DEF Leads
  <2> QED
    BY <2>2, <2>9 DEF vs
<1> QED
  BY <1>1, <1>4, <1>5, <1>6
-----------------------------------------------------------------------------
(* Fields that, wherever they are written and whatever is open then, take n  *)
(* bytes and close what they open.                                           *)
Balanced(us, n) ==
    /\ us \in Seq(Fields) /\ n \in Nat
    /\ \A size \in Nat, from \in Nat : \A ends \in Seq(0..size) :
           from + n <= size => Leads(us, size, from, ends, from + n, ends)

LEMMA BalancedNone == Balanced(<<>>, 0)
<1>1. ASSUME NEW size \in Nat, NEW from \in Nat, NEW ends \in Seq(0..size), from + 0 <= size
      PROVE  Leads(<<>>, size, from, ends, from + 0, ends)
  <2>1. from \in 0..size /\ from + 0 = from
    BY <1>1
  <2> QED
    BY <2>1, LeadsNone
<1> QED
  BY <1>1 DEF Balanced

LEMMA BalancedField ==
  ASSUME NEW n \in Nat
  PROVE  Balanced(<<Field(n)>>, n) /\ Balanced(<<Blank(n)>>, n)
<1>1. ASSUME NEW f \in {Field(n), Blank(n)} PROVE Balanced(<<f>>, n)
  <2>1. f \in Fields /\ f.w = n /\ f.kind \notin {"declares", "end"}
    BY DEF Fields, Field, Blank
  <2>2. ASSUME NEW size \in Nat, NEW from \in Nat, NEW ends \in Seq(0..size), from + n <= size
        PROVE  Leads(<<f>>, size, from, ends, from + n, ends)
    <3>1. from \in 0..size /\ from + f.w \in 0..size
      BY <2>1, <2>2
    <3>2. Opens(f, from, ends) = ends
      BY <2>1 DEF Opens
    <3>3. Leads(<<f>>, size, from, ends, from + f.w, Opens(f, from, ends))
      BY <2>1, <3>1, <3>2, LeadsOne
    <3> QED
      BY <2>1, <3>2, <3>3
  <2> QED
    BY <2>1, <2>2 DEF Balanced
<1> QED
  BY <1>1

LEMMA BalancedJoin ==
  ASSUME NEW us, NEW m, Balanced(us, m), NEW vs, NEW n, Balanced(vs, n)
  PROVE  Balanced(us \o vs, m + n)
<1>1. us \in Seq(Fields) /\ vs \in Seq(Fields) /\ m \in Nat /\ n \in Nat /\ us \o vs \in Seq(Fields)
  BY DEF Balanced
<1>2. ASSUME NEW size \in Nat, NEW from \in Nat, NEW ends \in Seq(0..size), from + (m + n) <= size
      PROVE  Leads(us \o vs, size, from, ends, from + (m + n), ends)
  <2>1. from + m <= size /\ from + m \in Nat /\ (from + m) + n <= size /\ (from + m) + n = from + (m + n)
    BY <1>1, <1>2
  <2>2. Leads(us, size, from, ends, from + m, ends)
    BY <2>1 DEF Balanced
  <2>3. Leads(vs, size, from + m, ends, (from + m) + n, ends)
    BY <2>1 DEF Balanced
  <2> QED
    BY <2>1, <2>2, <2>3, LeadsJoin
<1> QED
  BY <1>1, <1>2 DEF Balanced

(* What declares its length: the end comes where it was said to.             *)
LEMMA BalancedElement ==
  ASSUME NEW w \in Nat, NEW us, NEW n, Balanced(us, n)
  PROVE  Balanced(<<Declares(w, n)>> \o us \o <<End>>, w + n)
<1> DEFINE d == Declares(w, n)
<1>1. us \in Seq(Fields) /\ n \in Nat
  BY DEF Balanced
<1>2. d \in Fields /\ d.kind = "declares" /\ d.w = w /\ d.len = n
  BY <1>1 DEF Fields, Declares
<1>3. End \in Fields /\ End.kind = "end" /\ End.w = 0
  BY DEF Fields, End
<1> HIDE DEF d
<1>4. ASSUME NEW size \in Nat, NEW from \in Nat, NEW ends \in Seq(0..size), from + (w + n) <= size
      PROVE  Leads(<<d>> \o us \o <<End>>, size, from, ends, from + (w + n), ends)
  <2> DEFINE at == from + w
             to == from + (w + n)
             open == <<to>> \o ends
  <2>1. from \in 0..size /\ at \in 0..size /\ at \in Nat /\ to \in 0..size /\ at + n = to /\ at + n <= size /\ to + 0 = to
    BY <1>1, <1>4
  <2> HIDE DEF at, to
  <2>2. open \in Seq(0..size) /\ open # <<>> /\ Head(open) = to /\ Tail(open) = ends
    BY <2>1
  <2>3. Opens(d, from, ends) = open
    BY <1>1, <1>2, <2>1 DEF Opens, at
  <2> HIDE DEF open
  <2>4. Leads(<<d>>, size, from, ends, at, open)
    <3>1. from + d.w = at
      BY <1>2 DEF at
    <3>2. Leads(<<d>>, size, from, ends, from + d.w, Opens(d, from, ends))
      BY <1>2, <2>1, <2>2, <2>3, <3>1, LeadsOne
    <3> QED
      BY <2>3, <3>1, <3>2
  <2>5. Leads(us, size, at, open, to, open)
    BY <2>1, <2>2 DEF Balanced
  <2>6. Leads(<<End>>, size, to, open, to, ends)
    <3>1. Opens(End, to, open) = ends /\ to + End.w = to
      BY <1>3, <2>1, <2>2 DEF Opens
    <3>2. Leads(<<End>>, size, to, open, to + End.w, Opens(End, to, open))
      BY <1>3, <2>1, <2>2, <3>1, LeadsOne
    <3> QED
      BY <3>1, <3>2
  <2>7. Leads(<<d>> \o us, size, from, ends, to, open)
    BY <2>4, <2>5, LeadsJoin
  <2>8. Leads((<<d>> \o us) \o <<End>>, size, from, ends, to, ends)
    BY <2>6, <2>7, LeadsJoin
  <2> QED
    BY <2>8 DEF to
<1>5. <<d>> \o us \o <<End>> \in Seq(Fields) /\ w + n \in Nat
  BY <1>1, <1>2, <1>3
<1> QED
  BY <1>4, <1>5 DEF Balanced, d

(* Fields of the given widths.                                               *)
Widths(vs, n) == vs \in Seq(Nat) /\ Balanced(Plain(vs), n)

LEMMA WidthsNone == Widths(<<>>, 0)
<1>1. Plain(<<>>) = <<>> /\ <<>> \in Seq(Nat)
  BY DEF Plain
<1> QED
  BY <1>1, BalancedNone DEF Widths

LEMMA WidthsOne ==
  ASSUME NEW a \in Nat
  PROVE  Widths(<<a>>, a)
<1>1. Plain(<<a>>) = <<Field(a)>> /\ <<a>> \in Seq(Nat)
  BY DEF Plain
<1> QED
  BY <1>1, BalancedField DEF Widths

LEMMA WidthsJoin ==
  ASSUME NEW vs, NEW m, Widths(vs, m), NEW us, NEW n, Widths(us, n)
  PROVE  Widths(vs \o us, m + n)
<1>1. vs \in Seq(Nat) /\ us \in Seq(Nat) /\ vs \o us \in Seq(Nat)
  BY DEF Widths
<1>2. Plain(vs \o us) = Plain(vs) \o Plain(us)
  <2> DEFINE F(s) == [i \in 1..Len(s) |-> Field(s[i])]
  <2>1. \A s \in Seq(Nat) : Plain(s) = F(s)
    BY DEF Plain
  <2>2. \A s \in Seq(Nat) : F(s) \in Seq(Fields) /\ Len(F(s)) = Len(s) /\ \A i \in 1..Len(s) : F(s)[i] = Field(s[i])
    <3>1. \A a \in Nat : Field(a) \in Fields
      BY DEF Field, Fields
    <3> QED
      BY <3>1
  <2> HIDE DEF F
  <2>3. F(vs \o us) = F(vs) \o F(us)
    <3> DEFINE p == F(vs \o us)
               q == F(vs) \o F(us)
    <3>1. /\ p \in Seq(Fields) /\ q \in Seq(Fields) /\ Len(p) = Len(vs) + Len(us) /\ Len(q) = Len(vs) + Len(us)
          /\ Len(vs) \in Nat /\ Len(us) \in Nat
      <4>1. Len(vs) \in Nat /\ Len(us) \in Nat /\ Len(vs \o us) = Len(vs) + Len(us)
        BY <1>1
      <4>2. /\ F(vs \o us) \in Seq(Fields) /\ Len(F(vs \o us)) = Len(vs \o us)
            /\ F(vs) \in Seq(Fields) /\ Len(F(vs)) = Len(vs) /\ F(us) \in Seq(Fields) /\ Len(F(us)) = Len(us)
        BY <1>1, <2>2
      <4>3. p \in Seq(Fields) /\ Len(p) = Len(vs) + Len(us)
        BY <4>1, <4>2
      <4>4. q \in Seq(Fields) /\ Len(q) = Len(F(vs)) + Len(F(us))
        <5>1. \A a, b \in Seq(Fields) : a \o b \in Seq(Fields) /\ Len(a \o b) = Len(a) + Len(b)
          OBVIOUS
        <5> QED
          BY <4>2, <5>1, Zenon
      <4> HIDE DEF p, q
      <4> QED
        BY <4>1, <4>2, <4>3, <4>4
    <3>2. ASSUME NEW i \in 1..Len(vs) + Len(us) PROVE p[i] = q[i]
      <4>1. CASE i <= Len(vs)
        <5>1. i \in 1..Len(vs) /\ i \in 1..Len(vs \o us) /\ (vs \o us)[i] = vs[i]
          BY <1>1, <3>1, <3>2, <4>1
        <5>2. q[i] = F(vs)[i]
          BY <1>1, <2>2, <5>1
        <5> QED
          BY <1>1, <2>2, <5>1, <5>2
      <4>2. CASE ~(i <= Len(vs))
        <5>1. i - Len(vs) \in 1..Len(us) /\ i \in 1..Len(vs \o us) /\ (vs \o us)[i] = us[i - Len(vs)]
          BY <1>1, <3>1, <3>2, <4>2
        <5>2. q[i] = F(us)[i - Len(vs)]
          BY <1>1, <2>2, <3>1, <3>2, <4>2
        <5> QED
          BY <1>1, <2>2, <5>1, <5>2
      <4> QED
        BY <4>1, <4>2
    <3> HIDE DEF p, q
    <3>3. p = q
      BY <3>1, <3>2
    <3> QED
      BY <3>3 DEF p, q
  <2> QED
    BY <1>1, <2>1, <2>3
<1>3. Balanced(Plain(vs) \o Plain(us), m + n)
  BY BalancedJoin DEF Widths
<1> QED
  BY <1>1, <1>2, <1>3 DEF Widths

(* g has where each field ends.                                              *)
Tally(vs, g) ==
    /\ vs \in Seq(Nat) /\ g \in Seq(Nat) /\ Len(g) = Len(vs) /\ vs # <<>>
    /\ \A i \in 1..Len(vs) : g[i] = vs[i] + IF i = 1 THEN 0 ELSE g[i-1]

LEMMA WidthsBy ==
  ASSUME NEW vs, NEW g, Tally(vs, g)
  PROVE  Widths(vs, g[Len(vs)])
<1> DEFINE n == Len(vs)
           Upto(k) == IF k = 0 THEN 0 ELSE g[k]
           S == {k \in 0..n : Widths(SubSeq(vs, 1, k), Upto(k))}
<1>1. /\ vs \in Seq(Nat) /\ n \in Nat \ {0} /\ \A k \in 1..n : vs[k] \in Nat /\ g[k] \in Nat
      /\ \A k \in 1..n : g[k] = vs[k] + Upto(k - 1)
  BY DEF Tally
<1>2. 0 \in S
  <2>1. SubSeq(vs, 1, 0) = <<>> /\ Upto(0) = 0 /\ 0 \in 0..n
    BY <1>1
  <2> QED
    BY <2>1, WidthsNone
<1>3. ASSUME NEW k \in 0..n-1, k \in S PROVE k + 1 \in S
  <2>1. k + 1 \in 1..n /\ k + 1 \in 0..n /\ (k + 1) - 1 = k /\ k \in Nat
    BY <1>1
  <2>2. SubSeq(vs, 1, k + 1) = SubSeq(vs, 1, k) \o <<vs[k+1]>>
    <3> DEFINE p == SubSeq(vs, 1, k + 1)
               q == SubSeq(vs, 1, k) \o <<vs[k+1]>>
    <3>1. p \in Seq(Nat) /\ Len(p) = k + 1 /\ \A i \in 1..k + 1 : p[i] = vs[i]
      BY <1>1, <2>1
    <3>2. SubSeq(vs, 1, k) \in Seq(Nat) /\ Len(SubSeq(vs, 1, k)) = k /\ \A i \in 1..k : SubSeq(vs, 1, k)[i] = vs[i]
      BY <1>1, <2>1
    <3>3. q \in Seq(Nat) /\ Len(q) = k + 1 /\ \A i \in 1..k + 1 : q[i] = vs[i]
      BY <1>1, <2>1, <3>2
    <3> HIDE DEF p, q
    <3>4. k + 1 \in Nat
      BY <2>1
    <3>5. \A i \in 1..k + 1 : p[i] = q[i]
      BY <3>1, <3>3
    <3>6. p = q
      BY <3>1, <3>3, <3>4, <3>5
    <3> QED
      BY <3>6 DEF p, q
  <2>3. Widths(SubSeq(vs, 1, k), Upto(k)) /\ Widths(<<vs[k+1]>>, vs[k+1])
    BY <1>1, <1>3, <2>1, WidthsOne
  <2>4. Upto(k) + vs[k+1] = Upto(k + 1)
    <3>1. Upto(k) \in Nat /\ Upto(k + 1) = vs[k+1] + Upto(k)
      BY <1>1, <2>1
    <3> QED
      BY <1>1, <2>1, <3>1
  <2> HIDE DEF Upto
  <2>5. Widths(SubSeq(vs, 1, k + 1), Upto(k + 1))
    BY <2>2, <2>3, <2>4, WidthsJoin
  <2> QED
    BY <2>1, <2>5
<1>4. n \in Nat /\ n \in 0..n
  BY <1>1
<1> HIDE DEF S
<1>5. n \in S
  BY <1>2, <1>3, <1>4, CountUp
<1>6. SubSeq(vs, 1, n) = vs /\ Upto(n) = g[n]
  BY <1>1
<1> HIDE DEF Upto, n
<1> QED
  BY <1>5, <1>6 DEF S, n


LEMMA WidthsSome ==
  /\ \A a, b \in Nat : Widths(<<a, b>>, a + b)
  /\ \A a, b, c \in Nat : Widths(<<a, b, c>>, a + b + c)
  /\ \A a, b, c, d \in Nat : Widths(<<a, b, c, d>>, a + b + c + d)
<1>1. ASSUME NEW a \in Nat, NEW b \in Nat PROVE Widths(<<a, b>>, a + b)
  <2> DEFINE x == <<a, b>>
             g == <<a, a + b>>
  <2>1. Tally(x, g) /\ Len(x) = 2 /\ g[2] = a + b
    BY DEF Tally
  <2> HIDE DEF x, g
  <2>2. Widths(x, a + b)
    BY <2>1, WidthsBy
  <2> QED
    BY <2>2 DEF x
<1>2. ASSUME NEW a \in Nat, NEW b \in Nat, NEW c \in Nat PROVE Widths(<<a, b, c>>, a + b + c)
  <2> DEFINE x == <<a, b, c>>
             g == <<a, a + b, a + b + c>>
  <2>1. Tally(x, g) /\ Len(x) = 3 /\ g[3] = a + b + c
    BY DEF Tally
  <2> HIDE DEF x, g
  <2>2. Widths(x, a + b + c)
    BY <2>1, WidthsBy
  <2> QED
    BY <2>2 DEF x
<1>3. ASSUME NEW a \in Nat, NEW b \in Nat, NEW c \in Nat, NEW d \in Nat PROVE Widths(<<a, b, c, d>>, a + b + c + d)
  <2> DEFINE x == <<a, b, c, d>>
             g == <<a, a + b, a + b + c, a + b + c + d>>
  <2>1. Tally(x, g) /\ Len(x) = 4 /\ g[4] = a + b + c + d
    BY DEF Tally
  <2> HIDE DEF x, g
  <2>2. Widths(x, a + b + c + d)
    BY <2>1, WidthsBy
  <2> QED
    BY <2>2 DEF x
<1> QED
  BY <1>1, <1>2, <1>3

LEMMA WidthsMany ==
  /\ Widths(<<1, 1, 1, 1, 4, 4, 4>>, 16) /\ Widths(<<4, 1, 1, 4, 4, 4>>, 18)
  /\ Widths(<<4, 4, 4, 4, 4, 4, 4>>, 28) /\ Widths(<<4, 4, 1, 1, 1, 1, 1>>, 13)
  /\ Widths(<<1, 1, 1, 2, 2>>, 7) /\ Widths(<<1, 1, 1, 1, 2, 2, 4, 4>>, 16)
  /\ Widths(<<1, 1, 1, 1, 1, 1, 1, 1, 2, 2, 2, 1, 1, 1, 1, 1, 1>>, 20)
  /\ Widths(<<1, 1, 2, 2, 2, 2>>, 10) /\ Widths(<<2, 2, 2, 1, 1, 1, 1, 2, 2>>, 14)
  /\ Widths(<<4, 4, 2, 2, 4, 4, 4, 4, 4, 4>>, 36)
<1>1. Widths(<<1, 1, 1, 1, 4, 4, 4>>, 16)
  <2> DEFINE x == <<1, 1, 1, 1, 4, 4, 4>>
             g == <<1, 2, 3, 4, 8, 12, 16>>
  <2>1. Tally(x, g) /\ Len(x) = 7 /\ g[7] = 16
    BY DEF Tally
  <2> HIDE DEF x, g
  <2>2. Widths(x, 16)
    BY <2>1, WidthsBy
  <2> QED
    BY <2>2 DEF x
<1>2. Widths(<<4, 1, 1, 4, 4, 4>>, 18)
  <2> DEFINE x == <<4, 1, 1, 4, 4, 4>>
             g == <<4, 5, 6, 10, 14, 18>>
  <2>1. Tally(x, g) /\ Len(x) = 6 /\ g[6] = 18
    BY DEF Tally
  <2> HIDE DEF x, g
  <2>2. Widths(x, 18)
    BY <2>1, WidthsBy
  <2> QED
    BY <2>2 DEF x
<1>3. Widths(<<4, 4, 4, 4, 4, 4, 4>>, 28)
  <2> DEFINE x == <<4, 4, 4, 4, 4, 4, 4>>
             g == <<4, 8, 12, 16, 20, 24, 28>>
  <2>1. Tally(x, g) /\ Len(x) = 7 /\ g[7] = 28
    BY DEF Tally
  <2> HIDE DEF x, g
  <2>2. Widths(x, 28)
    BY <2>1, WidthsBy
  <2> QED
    BY <2>2 DEF x
<1>4. Widths(<<4, 4, 1, 1, 1, 1, 1>>, 13)
  <2> DEFINE x == <<4, 4, 1, 1, 1, 1, 1>>
             g == <<4, 8, 9, 10, 11, 12, 13>>
  <2>1. Tally(x, g) /\ Len(x) = 7 /\ g[7] = 13
    BY DEF Tally
  <2> HIDE DEF x, g
  <2>2. Widths(x, 13)
    BY <2>1, WidthsBy
  <2> QED
    BY <2>2 DEF x
<1>5. Widths(<<1, 1, 1, 2, 2>>, 7)
  <2> DEFINE x == <<1, 1, 1, 2, 2>>
             g == <<1, 2, 3, 5, 7>>
  <2>1. Tally(x, g) /\ Len(x) = 5 /\ g[5] = 7
    BY DEF Tally
  <2> HIDE DEF x, g
  <2>2. Widths(x, 7)
    BY <2>1, WidthsBy
  <2> QED
    BY <2>2 DEF x
<1>6. Widths(<<1, 1, 1, 1, 2, 2, 4, 4>>, 16)
  <2> DEFINE x == <<1, 1, 1, 1, 2, 2, 4, 4>>
             g == <<1, 2, 3, 4, 6, 8, 12, 16>>
  <2>1. Tally(x, g) /\ Len(x) = 8 /\ g[8] = 16
    BY DEF Tally
  <2> HIDE DEF x, g
  <2>2. Widths(x, 16)
    BY <2>1, WidthsBy
  <2> QED
    BY <2>2 DEF x
<1>7. Widths(<<1, 1, 1, 1, 1, 1, 1, 1, 2, 2, 2, 1, 1, 1, 1, 1, 1>>, 20)
  <2> DEFINE x == <<1, 1, 1, 1, 1, 1, 1, 1, 2, 2, 2, 1, 1, 1, 1, 1, 1>>
             g == <<1, 2, 3, 4, 5, 6, 7, 8, 10, 12, 14, 15, 16, 17, 18, 19, 20>>
  <2>1. Tally(x, g) /\ Len(x) = 17 /\ g[17] = 20
    BY DEF Tally
  <2> HIDE DEF x, g
  <2>2. Widths(x, 20)
    BY <2>1, WidthsBy
  <2> QED
    BY <2>2 DEF x
<1>8. Widths(<<1, 1, 2, 2, 2, 2>>, 10)
  <2> DEFINE x == <<1, 1, 2, 2, 2, 2>>
             g == <<1, 2, 4, 6, 8, 10>>
  <2>1. Tally(x, g) /\ Len(x) = 6 /\ g[6] = 10
    BY DEF Tally
  <2> HIDE DEF x, g
  <2>2. Widths(x, 10)
    BY <2>1, WidthsBy
  <2> QED
    BY <2>2 DEF x
<1>9. Widths(<<2, 2, 2, 1, 1, 1, 1, 2, 2>>, 14)
  <2> DEFINE x == <<2, 2, 2, 1, 1, 1, 1, 2, 2>>
             g == <<2, 4, 6, 7, 8, 9, 10, 12, 14>>
  <2>1. Tally(x, g) /\ Len(x) = 9 /\ g[9] = 14
    BY DEF Tally
  <2> HIDE DEF x, g
  <2>2. Widths(x, 14)
    BY <2>1, WidthsBy
  <2> QED
    BY <2>2 DEF x
<1>10. Widths(<<4, 4, 2, 2, 4, 4, 4, 4, 4, 4>>, 36)
  <2> DEFINE x == <<4, 4, 2, 2, 4, 4, 4, 4, 4, 4>>
             g == <<4, 8, 10, 12, 16, 20, 24, 28, 32, 36>>
  <2>1. Tally(x, g) /\ Len(x) = 10 /\ g[10] = 36
    BY DEF Tally
  <2> HIDE DEF x, g
  <2>2. Widths(x, 36)
    BY <2>1, WidthsBy
  <2> QED
    BY <2>2 DEF x
<1> QED
  BY <1>1, <1>2, <1>3, <1>4, <1>5, <1>6, <1>7, <1>8, <1>9, <1>10
(* The same width over and over, and the same fields row by row.             *)
LEMMA WidthsRow ==
  ASSUME NEW n \in Nat, NEW w \in Nat
  PROVE  Widths([i \in 1..n |-> w], n * w)
<1> DEFINE row == [i \in 1..n |-> w]
           g == [i \in 1..n |-> i * w]
<1>1. CASE n = 0
  <2>1. row = <<>> /\ n * w = 0
    BY <1>1
  <2> QED
    BY <2>1, WidthsNone
<1>2. CASE n # 0
  <2>1. row \in Seq(Nat) /\ Len(row) = n /\ row # <<>> /\ \A i \in 1..n : row[i] = w
    BY <1>2
  <2>2. \A i \in 1..n : i * w \in Nat /\ i * w = w + (IF i = 1 THEN 0 ELSE (i - 1) * w)
    <3>1. ASSUME NEW i \in 1..n PROVE i * w \in Nat /\ i * w = w + (IF i = 1 THEN 0 ELSE (i - 1) * w)
      BY SMT
    <3> QED
      BY <3>1
  <2>3. g \in Seq(Nat) /\ Len(g) = n /\ \A i \in 1..n : g[i] = i * w
    BY <2>2
  <2> HIDE DEF row, g
  <2>4. Tally(row, g) /\ g[n] = n * w
    <3>1. ASSUME NEW i \in 1..n PROVE g[i] = row[i] + IF i = 1 THEN 0 ELSE g[i-1]
      <4>1. CASE i = 1
        BY <2>1, <2>2, <2>3, <4>1
      <4>2. CASE i # 1
        <5>1. i - 1 \in 1..n
          BY <4>2
        <5> QED
          BY <2>1, <2>2, <2>3, <4>2, <5>1
      <4> QED
        BY <4>1, <4>2
    <3>2. n \in 1..n
      BY <1>2
    <3> QED
      BY <2>1, <2>3, <3>1, <3>2 DEF Tally
  <2>5. Widths(row, g[Len(row)])
    BY <2>4, WidthsBy
  <2> QED
    BY <2>1, <2>4, <2>5 DEF row
<1> QED
  BY <1>1, <1>2

LEMMA WidthsRows ==
  ASSUME NEW n \in Nat \ {0}, NEW vs, NEW m, Widths(vs, m)
  PROVE  Widths(FlattenSeq([i \in 1..n |-> vs]), n * m)
<1> DEFINE rows == [i \in 1..n |-> vs]
           Row(fl) == [i \in 1..Len(rows) |-> IF i = 1 THEN rows[i] ELSE fl[i-1] \o rows[i]]
           flatten == CHOOSE fl : fl = Row(fl)
           step == [x \in (1..n) \X Seq(Nat) |-> IF x[1] = 1 THEN rows[x[1]] ELSE x[2] \o rows[x[1]]]
<1>1. vs \in Seq(Nat) /\ m \in Nat
  BY DEF Widths, Balanced
<1>2. rows \in Seq(Seq(Nat)) /\ Len(rows) = n /\ Len(rows) # 0 /\ \A i \in 1..n : rows[i] = vs
  BY <1>1
<1>3. FlattenSeq(rows) = flatten[Len(rows)]
  BY <1>2, Zenon DEF FlattenSeq
<1> HIDE DEF rows
<1>4. flatten = Row(flatten)
  <2>1. \A i \in 1..n, x \in Seq(Nat) : (IF i = 1 THEN rows[i] ELSE x \o rows[i]) \in Seq(Nat)
    BY <1>1, <1>2
  <2>2. step \in Steps(n, Seq(Nat)) /\ <<>> \in Seq(Nat)
    <3>1. ASSUME NEW x \in (1..n) \X Seq(Nat) PROVE step[x] \in Seq(Nat)
      BY <2>1
    <3> QED
      BY <3>1 DEF Steps
  <2>6. \A i \in 1..n, x \in Seq(Nat) : step[i, x] = IF i = 1 THEN rows[i] ELSE x \o rows[i]
    OBVIOUS
  <2> HIDE DEF step
  <2>3. PICK h : IsTrace(h, n, Seq(Nat), <<>>, step)
    BY <2>2, TraceExists
  <2> DEFINE fl == [i \in 1..n |-> h[i]]
  <2>4. ASSUME NEW i \in 1..n PROVE h[i] = IF i = 1 THEN rows[i] ELSE fl[i-1] \o rows[i]
    <3>1. i - 1 \in 0..n
      OBVIOUS
    <3>4. h[i-1] \in Seq(Nat) /\ h[i] = step[i, h[i-1]]
      BY <2>3, <3>1, Zenon DEF IsTrace
    <3>2. h[i] = IF i = 1 THEN rows[i] ELSE h[i-1] \o rows[i]
      BY <2>6, <3>4, Zenon
    <3>3. i # 1 => i - 1 \in 1..n
      OBVIOUS
    <3> QED
      BY <3>2, <3>3, Zenon
  <2>5. fl = Row(fl)
    BY <1>2, <2>4
  <2> HIDE DEF fl, Row
  <2> QED
    BY <2>5
<1>5. \A i \in 1..n : flatten[i] = IF i = 1 THEN rows[i] ELSE flatten[i-1] \o rows[i]
  <2> HIDE DEF flatten
  <2> QED
    BY <1>2, <1>4
<1> HIDE DEF flatten, Row, step
<1> DEFINE S == {k \in 0..n : k = 0 \/ Widths(flatten[k], k * m)}
<1>6. ASSUME NEW k \in 0..n-1, k \in S PROVE k + 1 \in S
  <2>1. k + 1 \in 1..n /\ k + 1 \in 0..n /\ (k + 1) - 1 = k /\ k * m + m = (k + 1) * m /\ k * m \in Nat
    BY <1>1
  <2>2. CASE k = 0
    <3>1. 1 \in 1..n /\ k + 1 = 1 /\ (k + 1) * m = m
      BY <1>1, <2>1, <2>2
    <3>2. flatten[1] = vs
      BY <1>2, <1>5, <3>1, Zenon
    <3> QED
      BY <2>1, <3>1, <3>2
  <2>3. CASE k # 0
    <3>1. flatten[k+1] = flatten[k] \o vs
      <4>1. k + 1 # 1
        BY <2>3
      <4> QED
        BY <1>2, <1>5, <2>1, <4>1, Zenon
    <3>2. Widths(flatten[k], k * m)
      BY <1>6, <2>3
    <3>3. Widths(flatten[k] \o vs, k * m + m)
      BY <3>2, WidthsJoin
    <3> QED
      BY <2>1, <3>1, <3>3
  <2> QED
    BY <2>2, <2>3
<1>7. 0 \in S /\ n \in 0..n /\ n # 0
  BY <1>1
<1> HIDE DEF S
<1>8. n \in S
  BY <1>6, <1>7, CountUp
<1> QED
  BY <1>2, <1>3, <1>7, <1>8, Zenon DEF S, rows
-----------------------------------------------------------------------------
Regroups(a, b, c) == (a \o b) \o c = a \o (b \o c)

LEMMA Rearranged ==
  \A a, b, c \in Seq(Fields) : Regroups(a, b, c)
<1>1. ASSUME NEW a \in Seq(Fields), NEW b \in Seq(Fields), NEW c \in Seq(Fields)
      PROVE  Regroups(a, b, c)
  <2> DEFINE p == (a \o b) \o c
             q == a \o (b \o c)
             k == Len(a)
             l == Len(b)
             m == Len(c)
  <2>1. a \o b \in Seq(Fields) /\ Len(a \o b) = k + l /\ k \in Nat /\ l \in Nat /\ m \in Nat
    OBVIOUS
  <2>2. b \o c \in Seq(Fields) /\ Len(b \o c) = l + m
    OBVIOUS
  <2>3. p \in Seq(Fields) /\ Len(p) = (k + l) + m
    BY <2>1
  <2>4. q \in Seq(Fields) /\ Len(q) = k + (l + m)
    BY <2>1, <2>2
  <2>5. ASSUME NEW i \in 1..(k + l) + m PROVE p[i] = q[i]
    <3>1. CASE i <= k
      BY <2>1, <2>2, <3>1
    <3>2. CASE k < i /\ i <= k + l
      <4>1. p[i] = b[i - k]
        BY <2>1, <3>2
      <4>2. i - k \in 1..l + m /\ (b \o c)[i - k] = b[i - k]
        BY <2>1, <2>2, <3>2
      <4>3. q[i] = (b \o c)[i - k]
        BY <2>1, <2>2, <3>2
      <4> QED
        BY <4>1, <4>2, <4>3
    <3>3. CASE k + l < i
      <4>1. p[i] = c[i - (k + l)]
        BY <2>1, <3>3
      <4>2. i - k \in 1..l + m /\ (b \o c)[i - k] = c[(i - k) - l] /\ (i - k) - l = i - (k + l)
        BY <2>1, <2>2, <3>3
      <4>3. q[i] = (b \o c)[i - k]
        BY <2>1, <2>2, <3>3
      <4> QED
        BY <4>1, <4>2, <4>3
    <3> QED
      BY <2>1, <3>1, <3>2, <3>3
  <2>6. (k + l) + m = k + (l + m)
    BY <2>1
  <2> HIDE DEF p, q, k, l, m
  <2>7. p = q
    BY <2>3, <2>4, <2>5, <2>6
  <2> QED
    BY <2>7 DEF p, q, Regroups
<1> QED
  BY <1>1

(* What is declared after other fields.                                      *)
LEMMA BalancedNested ==
  ASSUME NEW ps, NEW k, Balanced(ps, k), NEW w \in Nat, NEW us, NEW n, Balanced(us, n)
  PROVE  Balanced(ps \o <<Declares(w, n)>> \o us \o <<End>>, k + w + n)
<1> DEFINE ds == <<Declares(w, n)>>
           es == <<End>>
<1>1. /\ ps \in Seq(Fields) /\ us \in Seq(Fields) /\ ds \in Seq(Fields) /\ es \in Seq(Fields)
      /\ k \in Nat /\ n \in Nat
  <2>1. n \in Nat /\ k \in Nat /\ ps \in Seq(Fields) /\ us \in Seq(Fields)
    BY DEF Balanced
  <2>2. Declares(w, n) \in Fields /\ End \in Fields
    BY <2>1 DEF Fields, Declares, End
  <2> QED
    BY <2>1, <2>2
<1>2. Balanced(ds \o us \o es, w + n)
  BY BalancedElement
<1> HIDE DEF ds, es
<1>3. ds \o us \in Seq(Fields) /\ ps \o ds \in Seq(Fields)
  BY <1>1
<1>4. Regroups(ps, ds \o us, es) /\ Regroups(ps, ds, us)
  BY <1>1, <1>3, Rearranged
<1>5. ps \o (ds \o us \o es) = ps \o (ds \o us) \o es
  BY <1>4, Zenon DEF Regroups
<1>6. ps \o (ds \o us) = ps \o ds \o us
  BY <1>4, Zenon DEF Regroups
<1>7. Balanced(ps \o (ds \o us \o es), k + (w + n))
  BY <1>2, BalancedJoin
<1>8. k + (w + n) = k + w + n
  BY <1>1
<1> QED
  BY <1>5, <1>6, <1>7, <1>8, Zenon DEF ds, es

LEMMA PairIs ==
  ASSUME NEW S, NEW a \in S, NEW b \in S
  PROVE  <<a, b>> = <<a>> \o <<b>>
<1> DEFINE p == <<a, b>>
           q == <<a>> \o <<b>>
<1>1. p \in Seq(S) /\ Len(p) = 2 /\ p[1] = a /\ p[2] = b
  OBVIOUS
<1>2. q \in Seq(S) /\ Len(q) = 2 /\ q[1] = a /\ q[2] = b
  OBVIOUS
<1> HIDE DEF p, q
<1>3. p = q
  BY <1>1, <1>2
<1> QED
  BY <1>3 DEF p, q

LEMMA OneMoreIs ==
  ASSUME NEW S, NEW a \in S, NEW b \in S, NEW c \in S, NEW d \in S
  PROVE  /\ <<a, b, c>> = <<a, b>> \o <<c>>
         /\ <<a, b, c, d>> = <<a, b, c>> \o <<d>>
<1> DEFINE p == <<a, b, c>>
           q == <<a, b>> \o <<c>>
           t == <<a, b, c, d>>
           u == <<a, b, c>> \o <<d>>
<1>1. p \in Seq(S) /\ Len(p) = 3 /\ p[1] = a /\ p[2] = b /\ p[3] = c
  OBVIOUS
<1>2. q \in Seq(S) /\ Len(q) = 3 /\ q[1] = a /\ q[2] = b /\ q[3] = c
  OBVIOUS
<1>3. t \in Seq(S) /\ Len(t) = 4 /\ t[1] = a /\ t[2] = b /\ t[3] = c /\ t[4] = d
  OBVIOUS
<1>4. u \in Seq(S) /\ Len(u) = 4 /\ u[1] = a /\ u[2] = b /\ u[3] = c /\ u[4] = d
  OBVIOUS
<1> HIDE DEF p, q, t, u
<1>5. p = q
  BY <1>1, <1>2
<1>6. t = u
  BY <1>3, <1>4
<1> QED
  BY <1>5, <1>6 DEF p, q, t, u

LEMMA FieldTypes ==
  /\ End \in Fields
  /\ \A w \in Nat : Field(w) \in Fields /\ Blank(w) \in Fields
  /\ \A w, n \in Nat : Declares(w, n) \in Fields
BY DEF Fields, End, Field, Blank, Declares

(* A layout that fits: its fields take its size, and close what they open.   *)
Fits(layout) == Balanced(layout.fields, layout.size)

LEMMA FitsPlain ==
  ASSUME NEW vs, NEW n, Widths(vs, n)
  PROVE  Fits(Layout(Plain(vs), n))
BY DEF Fits, Layout, Widths

LEMMA WidthsTimes4 ==
  ASSUME NEW n \in Nat
  PROVE  Widths(Times4(n), 4 * n)
<1>1. Widths([i \in 1..n |-> 4], n * 4)
  BY WidthsRow
<1>2. n * 4 = 4 * n
  OBVIOUS
<1> QED
  BY <1>1, <1>2 DEF Times4

LEMMA LinkFits ==
  /\ Fits(SpiceLinkHeader) /\ Fits(SpiceLinkAuthTicket)
  /\ \A c, h \in Nat : Fits(SpiceLinkMess(c, h))
<1>1. Fits(SpiceLinkHeader)
  BY WidthsMany, FitsPlain DEF SpiceLinkHeader
<1>2. Fits(SpiceLinkAuthTicket)
  <2>1. Widths([i \in 1..128 |-> 1], 128 * 1) /\ Widths(<<4>>, 4)
    BY WidthsRow, WidthsOne
  <2> DEFINE ones == [i \in 1..128 |-> 1]
  <2> HIDE DEF ones
  <2>2. Widths(<<4>> \o ones, 4 + 128)
    <3>1. Widths(<<4>> \o ones, 4 + 128 * 1)
      BY <2>1, WidthsJoin DEF ones
    <3> QED
      BY <3>1
  <2> QED
    BY <2>2, FitsPlain DEF SpiceLinkAuthTicket, ones
<1>3. ASSUME NEW c \in Nat, NEW h \in Nat PROVE Fits(SpiceLinkMess(c, h))
  <2> DEFINE fixed == <<4, 1, 1, 4, 4, 4>>
  <2>1. Widths(fixed, 18)
    BY WidthsMany
  <2> HIDE DEF fixed
  <2>2. Widths(fixed \o Times4(c), 18 + 4 * c)
    BY <2>1, WidthsTimes4, WidthsJoin
  <2>3. Widths(fixed \o Times4(c) \o Times4(h), 18 + 4 * c + 4 * h)
    BY <2>2, WidthsTimes4, WidthsJoin
  <2> QED
    BY <2>3, FitsPlain DEF SpiceLinkMess, fixed
<1> QED
  BY <1>1, <1>2, <1>3

LEMMA AgentFits ==
  ASSUME NEW data \in AgentMessages
  PROVE  Fits(data)
<1>1. Fits(VDAgentAnnounceCapabilities) /\ Fits(VDAgentFileXferStatusMessage)
  <2>1. Widths(<<4, 4>>, 8)
    <3>1. Widths(<<4, 4>>, 4 + 4)
      BY WidthsSome
    <3> QED
      BY <3>1
  <2> QED
    BY <2>1, FitsPlain DEF VDAgentAnnounceCapabilities, VDAgentFileXferStatusMessage
<1>2. Fits(VDAgentMonitorsConfig)
  BY WidthsMany, FitsPlain DEF VDAgentMonitorsConfig
<1>3. ASSUME NEW n \in Nat PROVE Fits(VDAgentFileXferDataMessage(n))
  <2>1. Widths(<<4, 8, n>>, 12 + n)
    <3>1. Widths(<<4, 8, n>>, 4 + 8 + n)
      BY WidthsSome
    <3> QED
      BY <3>1
  <2> QED
    BY <2>1, FitsPlain DEF VDAgentFileXferDataMessage
<1>4. ASSUME NEW n \in Nat PROVE Fits(VDAgentFileXferStartMessage(n))
  <2>1. Widths(<<4, n>>, 4 + n)
    BY WidthsSome
  <2>2. Balanced(Plain(<<4, n>>), 4 + n) /\ Balanced(<<Blank(1)>>, 1)
    BY <2>1, BalancedField DEF Widths
  <2>3. Balanced(Plain(<<4, n>>) \o <<Blank(1)>>, 4 + n + 1)
    BY <2>2, BalancedJoin
  <2> QED
    BY <2>3 DEF Fits, Layout, VDAgentFileXferStartMessage
<1> QED
  BY <1>1, <1>2, <1>3, <1>4, WireAssumption DEF AgentMessages

LEMMA MessageFits ==
  ASSUME NEW m \in Messages
  PROVE  Fits(m)
<1>1. Widths(<<4>>, 4) /\ Widths(<<2>>, 2)
  BY WidthsOne
<1>2. Widths(<<1, 8, 1, 4>>, 14) /\ Widths(<<4, 4, 2, 1>>, 11) /\ Widths(<<1, 2>>, 3) /\ Widths(<<4, 4, 8>>, 16)
  <2>1. /\ Widths(<<1, 8, 1, 4>>, 1 + 8 + 1 + 4) /\ Widths(<<4, 4, 2, 1>>, 4 + 4 + 2 + 1)
        /\ Widths(<<1, 2>>, 1 + 2) /\ Widths(<<4, 4, 8>>, 4 + 4 + 8)
    BY WidthsSome
  <2> QED
    BY <2>1
<1>3. Fits(SpiceMsgcAckSync) /\ Fits(SpiceMsgcMainMouseModeRequest) /\ Fits(SpiceMsgcMainAgentStart) /\ Fits(SpiceMsgcKeyDown)
  BY <1>1, FitsPlain DEF SpiceMsgcAckSync, SpiceMsgcMainMouseModeRequest, SpiceMsgcMainAgentStart, SpiceMsgcKeyDown
<1>4. Fits(SpiceMsgcDisplayInit) /\ Fits(SpiceMsgcMousePosition) /\ Fits(SpiceMsgcMousePress)
  BY <1>2, FitsPlain DEF SpiceMsgcDisplayInit, SpiceMsgcMousePosition, SpiceMsgcMousePress
<1>5. ASSUME NEW data \in AgentMessages PROVE Fits(SpiceMsgcMainAgentData(data))
  <2> DEFINE us == data.fields
             n == data.size
             fixed == Plain(<<4, 4, 8>>)
  <2>1. Balanced(us, n) /\ Balanced(fixed, 16)
    BY <1>2, AgentFits DEF Fits, Widths
  <2> HIDE DEF us, n, fixed
  <2>2. Balanced(fixed \o <<Declares(4, n)>> \o us \o <<End>>, 16 + 4 + n)
    BY <2>1, BalancedNested
  <2>3. 16 + 4 + n = 4 + 4 + 8 + 4 + n
    BY <2>1 DEF Balanced
  <2> QED
    BY <2>2, <2>3 DEF Fits, Layout, SpiceMsgcMainAgentData, us, n, fixed
<1> QED
  BY <1>3, <1>4, <1>5 DEF Messages

LEMMA MiniDataFits ==
  ASSUME NEW m, Fits(m)
  PROVE  Fits(SpiceMiniData(m))
<1> DEFINE us == m.fields
           n == m.size
<1>1. Balanced(us, n) /\ Balanced(<<Field(2)>>, 2)
  BY BalancedField DEF Fits
<1> HIDE DEF us, n
<1>2. Balanced(<<Field(2)>> \o <<Declares(4, n)>> \o us \o <<End>>, 2 + 4 + n)
  BY <1>1, BalancedNested
<1>3. 2 + 4 + n = 6 + n
  BY <1>1 DEF Balanced
<1>4. <<Field(2), Declares(4, n)>> = <<Field(2)>> \o <<Declares(4, n)>>
  <2>1. n \in Nat
    BY <1>1 DEF Balanced
  <2>2. Field(2) \in Fields /\ Declares(4, n) \in Fields
    BY <2>1, FieldTypes
  <2> QED
    BY <2>2, PairIs
<1> QED
  BY <1>2, <1>3, <1>4 DEF Fits, Layout, SpiceMiniData, us, n
-----------------------------------------------------------------------------
(* WebM.                                                                     *)
LEMMA ElementIs ==
  ASSUME NEW id \in Nat, NEW w \in Nat, NEW us, NEW n, Balanced(us, n)
  PROVE  Balanced(<<Field(id), Declares(w, n)>> \o us \o <<End>>, id + w + n)
<1>1. n \in Nat
  BY DEF Balanced
<1>2. Field(id) \in Fields /\ Declares(w, n) \in Fields
  BY <1>1, FieldTypes
<1>3. <<Field(id), Declares(w, n)>> = <<Field(id)>> \o <<Declares(w, n)>>
  BY <1>2, PairIs
<1>4. Balanced(<<Field(id)>>, id)
  BY BalancedField
<1> QED
  BY <1>3, <1>4, BalancedNested

LEMMA ElementFits ==
  ASSUME NEW id \in Nat, NEW us, NEW n, Balanced(us, n)
  PROVE  Balanced(Element(id, n, us), id + 8 + n)
<1>1. Balanced(<<Field(id), Declares(8, n)>> \o us \o <<End>>, id + 8 + n)
  BY ElementIs
<1> QED
  BY <1>1 DEF Element

LEMMA ValueIs ==
  ASSUME NEW id \in Nat, NEW w \in Nat, NEW n \in Nat
  PROVE  Balanced(<<Field(id), Declares(w, n), Field(n), End>>, id + w + n)
<1>1. Field(id) \in Fields /\ Declares(w, n) \in Fields /\ Field(n) \in Fields /\ End \in Fields
  BY FieldTypes
<1>2. <<Field(id), Declares(w, n), Field(n), End>> = <<Field(id), Declares(w, n)>> \o <<Field(n)>> \o <<End>>
  BY <1>1, OneMoreIs
<1>3. Balanced(<<Field(n)>>, n)
  BY BalancedField
<1> QED
  BY <1>2, <1>3, ElementIs

LEMMA ValueFits ==
  \A id, n \in Nat : Balanced(Value(id, n), id + 1 + n)
BY ValueIs DEF Value

LEMMA DataFits ==
  \A id, n \in Nat : n < 127 => Balanced(Data(id, n), id + 1 + n)
BY ValueIs DEF Data

LEMMA EbmlFits == Fits(EBMLHeader) /\ EBMLHeader.size = 43
<1> DEFINE s1 == Value(2, 1)
           s2 == s1 \o Value(2, 1)
           s3 == s2 \o Value(2, 1)
           s4 == s3 \o Value(2, 1)
           s5 == s4 \o Data(2, 4)
           s6 == s5 \o Value(2, 1)
           s7 == s6 \o Value(2, 1)
<1>1. /\ Balanced(Data(2, 4), 7)
      /\ Balanced(Value(2, 1), 4)
  <2>1. /\ Balanced(Value(2, 1), 2 + 1 + 1)
    BY ValueFits
  <2>2. /\ Balanced(Data(2, 4), 2 + 1 + 4)
    BY DataFits
  <2> QED
    BY <2>1, <2>2
<1>2. Balanced(s1, 4)
  BY <1>1
<1> HIDE DEF s1
<1>3. Balanced(s2, 8)
  <2>1. Balanced(s1 \o Value(2, 1), 4 + 4)
    BY <1>1, <1>2, BalancedJoin, Zenon
  <2> QED
    BY <2>1
<1> HIDE DEF s2
<1>4. Balanced(s3, 12)
  <2>1. Balanced(s2 \o Value(2, 1), 8 + 4)
    BY <1>1, <1>3, BalancedJoin, Zenon
  <2> QED
    BY <2>1
<1> HIDE DEF s3
<1>5. Balanced(s4, 16)
  <2>1. Balanced(s3 \o Value(2, 1), 12 + 4)
    BY <1>1, <1>4, BalancedJoin, Zenon
  <2> QED
    BY <2>1
<1> HIDE DEF s4
<1>6. Balanced(s5, 23)
  <2>1. Balanced(s4 \o Data(2, 4), 16 + 7)
    BY <1>1, <1>5, BalancedJoin, Zenon
  <2> QED
    BY <2>1
<1> HIDE DEF s5
<1>7. Balanced(s6, 27)
  <2>1. Balanced(s5 \o Value(2, 1), 23 + 4)
    BY <1>1, <1>6, BalancedJoin, Zenon
  <2> QED
    BY <2>1
<1> HIDE DEF s6
<1>8. Balanced(s7, 31)
  <2>1. Balanced(s6 \o Value(2, 1), 27 + 4)
    BY <1>1, <1>7, BalancedJoin, Zenon
  <2> QED
    BY <2>1
<1> HIDE DEF s7
<1>9. Balanced(Element(4, 31, s7), 4 + 8 + 31)
  BY <1>8, ElementFits, Zenon
<1>10. EBMLHeader = Layout(Element(4, 31, s7), 43)
  BY DEF EBMLHeader, s1, s2, s3, s4, s5, s6, s7
<1> QED
  BY <1>9, <1>10 DEF Fits, Layout

LEMMA InformationFits == Fits(webm_SegmentInformation) /\ webm_SegmentInformation.size = 42
<1> DEFINE s1 == Value(3, 4)
           s2 == s1 \o Data(2, 5)
           s3 == s2 \o Data(2, 11)
<1>1. /\ Balanced(Data(2, 11), 14)
      /\ Balanced(Data(2, 5), 8)
      /\ Balanced(Value(3, 4), 8)
  <2>1. /\ Balanced(Value(3, 4), 3 + 1 + 4)
    BY ValueFits
  <2>2. /\ Balanced(Data(2, 5), 2 + 1 + 5)
        /\ Balanced(Data(2, 11), 2 + 1 + 11)
    BY DataFits
  <2> QED
    BY <2>1, <2>2
<1>2. Balanced(s1, 8)
  BY <1>1
<1> HIDE DEF s1
<1>3. Balanced(s2, 16)
  <2>1. Balanced(s1 \o Data(2, 5), 8 + 8)
    BY <1>1, <1>2, BalancedJoin, Zenon
  <2> QED
    BY <2>1
<1> HIDE DEF s2
<1>4. Balanced(s3, 30)
  <2>1. Balanced(s2 \o Data(2, 11), 16 + 14)
    BY <1>1, <1>3, BalancedJoin, Zenon
  <2> QED
    BY <2>1
<1> HIDE DEF s3
<1>5. Balanced(Element(4, 30, s3), 4 + 8 + 30)
  BY <1>4, ElementFits, Zenon
<1>6. webm_SegmentInformation = Layout(Element(4, 30, s3), 42)
  BY DEF webm_SegmentInformation, s1, s2, s3
<1> QED
  BY <1>5, <1>6 DEF Fits, Layout

LEMMA AudioFits == Fits(webm_Audio) /\ webm_Audio.size = 18
<1> DEFINE s1 == Value(1, 1)
           s2 == s1 \o Value(1, 4)
<1>1. /\ Balanced(Value(1, 1), 3)
      /\ Balanced(Value(1, 4), 6)
  <2>1. /\ Balanced(Value(1, 1), 1 + 1 + 1)
        /\ Balanced(Value(1, 4), 1 + 1 + 4)
    BY ValueFits
  <2> QED
    BY <2>1
<1>2. Balanced(s1, 3)
  BY <1>1
<1> HIDE DEF s1
<1>3. Balanced(s2, 9)
  <2>1. Balanced(s1 \o Value(1, 4), 3 + 6)
    BY <1>1, <1>2, BalancedJoin, Zenon
  <2> QED
    BY <2>1
<1> HIDE DEF s2
<1>4. Balanced(Element(1, 9, s2), 1 + 8 + 9)
  BY <1>3, ElementFits, Zenon
<1>5. webm_Audio = Layout(Element(1, 9, s2), 18)
  BY DEF webm_Audio, s1, s2
<1> QED
  BY <1>4, <1>5 DEF Fits, Layout

LEMMA EntryFits == Fits(webm_TrackEntry) /\ webm_TrackEntry.size = 105
<1> DEFINE s1 == Value(1, 1)
           s2 == s1 \o Value(2, 1)
           s3 == s2 \o Value(1, 1)
           s4 == s3 \o Value(1, 1)
           s5 == s4 \o Value(2, 1)
           s6 == s5 \o Value(1, 1)
           s7 == s6 \o Data(1, 6)
           s8 == s7 \o Value(2, 1)
           s9 == s8 \o Value(2, 1)
           s10 == s9 \o Value(1, 1)
           s11 == s10 \o Value(2, 4)
           s12 == s11 \o Value(2, 4)
           s13 == s12 \o Value(1, 1)
           s14 == s13 \o Data(2, 19)
           s15 == s14 \o webm_Audio.fields
<1>1. /\ Balanced(Data(1, 6), 8)
      /\ Balanced(Data(2, 19), 22)
      /\ Balanced(Value(1, 1), 3)
      /\ Balanced(Value(2, 1), 4)
      /\ Balanced(Value(2, 4), 7)
      /\ Balanced(webm_Audio.fields, 18)
  <2>1. /\ Balanced(Value(1, 1), 1 + 1 + 1)
        /\ Balanced(Value(2, 1), 2 + 1 + 1)
        /\ Balanced(Value(2, 4), 2 + 1 + 4)
    BY ValueFits
  <2>2. /\ Balanced(Data(1, 6), 1 + 1 + 6)
        /\ Balanced(Data(2, 19), 2 + 1 + 19)
    BY DataFits
  <2> QED
    BY <2>1, <2>2, AudioFits DEF Fits
<1>2. Balanced(s1, 3)
  BY <1>1
<1> HIDE DEF s1
<1>3. Balanced(s2, 7)
  <2>1. Balanced(s1 \o Value(2, 1), 3 + 4)
    BY <1>1, <1>2, BalancedJoin, Zenon
  <2> QED
    BY <2>1
<1> HIDE DEF s2
<1>4. Balanced(s3, 10)
  <2>1. Balanced(s2 \o Value(1, 1), 7 + 3)
    BY <1>1, <1>3, BalancedJoin, Zenon
  <2> QED
    BY <2>1
<1> HIDE DEF s3
<1>5. Balanced(s4, 13)
  <2>1. Balanced(s3 \o Value(1, 1), 10 + 3)
    BY <1>1, <1>4, BalancedJoin, Zenon
  <2> QED
    BY <2>1
<1> HIDE DEF s4
<1>6. Balanced(s5, 17)
  <2>1. Balanced(s4 \o Value(2, 1), 13 + 4)
    BY <1>1, <1>5, BalancedJoin, Zenon
  <2> QED
    BY <2>1
<1> HIDE DEF s5
<1>7. Balanced(s6, 20)
  <2>1. Balanced(s5 \o Value(1, 1), 17 + 3)
    BY <1>1, <1>6, BalancedJoin, Zenon
  <2> QED
    BY <2>1
<1> HIDE DEF s6
<1>8. Balanced(s7, 28)
  <2>1. Balanced(s6 \o Data(1, 6), 20 + 8)
    BY <1>1, <1>7, BalancedJoin, Zenon
  <2> QED
    BY <2>1
<1> HIDE DEF s7
<1>9. Balanced(s8, 32)
  <2>1. Balanced(s7 \o Value(2, 1), 28 + 4)
    BY <1>1, <1>8, BalancedJoin, Zenon
  <2> QED
    BY <2>1
<1> HIDE DEF s8
<1>10. Balanced(s9, 36)
  <2>1. Balanced(s8 \o Value(2, 1), 32 + 4)
    BY <1>1, <1>9, BalancedJoin, Zenon
  <2> QED
    BY <2>1
<1> HIDE DEF s9
<1>11. Balanced(s10, 39)
  <2>1. Balanced(s9 \o Value(1, 1), 36 + 3)
    BY <1>1, <1>10, BalancedJoin, Zenon
  <2> QED
    BY <2>1
<1> HIDE DEF s10
<1>12. Balanced(s11, 46)
  <2>1. Balanced(s10 \o Value(2, 4), 39 + 7)
    BY <1>1, <1>11, BalancedJoin, Zenon
  <2> QED
    BY <2>1
<1> HIDE DEF s11
<1>13. Balanced(s12, 53)
  <2>1. Balanced(s11 \o Value(2, 4), 46 + 7)
    BY <1>1, <1>12, BalancedJoin, Zenon
  <2> QED
    BY <2>1
<1> HIDE DEF s12
<1>14. Balanced(s13, 56)
  <2>1. Balanced(s12 \o Value(1, 1), 53 + 3)
    BY <1>1, <1>13, BalancedJoin, Zenon
  <2> QED
    BY <2>1
<1> HIDE DEF s13
<1>15. Balanced(s14, 78)
  <2>1. Balanced(s13 \o Data(2, 19), 56 + 22)
    BY <1>1, <1>14, BalancedJoin, Zenon
  <2> QED
    BY <2>1
<1> HIDE DEF s14
<1>16. Balanced(s15, 96)
  <2>1. Balanced(s14 \o webm_Audio.fields, 78 + 18)
    BY <1>1, <1>15, BalancedJoin, Zenon
  <2> QED
    BY <2>1
<1> HIDE DEF s15
<1>17. Balanced(Element(1, 96, s15), 1 + 8 + 96)
  BY <1>16, ElementFits, Zenon
<1>18. webm_TrackEntry = Layout(Element(1, 96, s15), 105)
  BY AudioFits DEF webm_TrackEntry, s1, s2, s3, s4, s5, s6, s7, s8, s9, s10, s11, s12, s13, s14, s15
<1> QED
  BY <1>17, <1>18 DEF Fits, Layout

LEMMA HeaderFits == Fits(webm_Header)
<1>1. Fits(webm_Tracks)
  <2> DEFINE n == webm_TrackEntry.size
             us == webm_TrackEntry.fields
  <2>1. Balanced(us, n) /\ n \in Nat
    BY EntryFits DEF Fits
  <2>2. webm_Tracks = Layout(Element(4, (4 + 8 + n) - 8 - 4, us), 4 + 8 + n)
    BY Zenon DEF webm_Tracks
  <2> HIDE DEF n, us
  <2>3. (4 + 8 + n) - 8 - 4 = n
    BY <2>1
  <2>4. Balanced(Element(4, n, us), 4 + 8 + n)
    BY <2>1, ElementFits
  <2> QED
    BY <2>2, <2>3, <2>4 DEF Fits, Layout
<1>2. Fits(webm_Segment)
  <2>1. Widths(<<4, 1>>, 4 + 1)
    BY WidthsSome
  <2> QED
    BY <2>1, FitsPlain DEF webm_Segment
<1> DEFINE a == EBMLHeader
           b == webm_Segment
           c == webm_SegmentInformation
           d == webm_Tracks
<1>3. Fits(a) /\ Fits(b) /\ Fits(c) /\ Fits(d)
  BY <1>1, <1>2, EbmlFits, InformationFits
<1>4. webm_Header = Layout(a.fields \o b.fields \o c.fields \o d.fields, a.size + b.size + c.size + d.size)
  BY Zenon DEF webm_Header
<1> HIDE DEF a, b, c, d
<1>5. Balanced(a.fields \o b.fields, a.size + b.size)
  BY <1>3, BalancedJoin DEF Fits
<1>6. Balanced(a.fields \o b.fields \o c.fields, a.size + b.size + c.size)
  BY <1>3, <1>5, BalancedJoin DEF Fits
<1>7. Balanced(a.fields \o b.fields \o c.fields \o d.fields, a.size + b.size + c.size + d.size)
  BY <1>3, <1>6, BalancedJoin DEF Fits
<1> QED
  BY <1>4, <1>7 DEF Fits, Layout

LEMMA ClusterFits == Fits(webm_Cluster) /\ \A n \in Nat : Fits(webm_SimpleBlock(n))
<1>1. Fits(webm_Cluster)
  <2> DEFINE fixed == Plain(<<4, 1>>)
             value == Value(1, 4)
  <2>1. Balanced(fixed, 4 + 1) /\ Balanced(value, 1 + 1 + 4)
    BY WidthsSome, ValueFits DEF Widths
  <2>2. webm_Cluster = Layout(fixed \o value, (4 + 1) + (1 + 1 + 4))
    BY DEF webm_Cluster
  <2> HIDE DEF fixed, value
  <2>3. Balanced(fixed \o value, (4 + 1) + (1 + 1 + 4))
    BY <2>1, BalancedJoin
  <2> QED
    BY <2>2, <2>3 DEF Fits, Layout
<1>2. ASSUME NEW n \in Nat PROVE Fits(webm_SimpleBlock(n))
  <2> DEFINE us == Plain(<<1, 2, 1, n>>)
  <2>1. Widths(<<1, 2, 1, n>>, 1 + 2 + 1 + n)
    BY WidthsSome
  <2>2. Balanced(us, n + 4)
    <3>1. 1 + 2 + 1 + n = n + 4
      OBVIOUS
    <3> QED
      BY <2>1, <3>1 DEF Widths
  <2>3. webm_SimpleBlock(n) = Layout(Element(1, n + 4, us), 1 + 8 + 1 + 2 + 1 + n)
    BY DEF webm_SimpleBlock
  <2> HIDE DEF us
  <2>4. Balanced(Element(1, n + 4, us), 1 + 8 + (n + 4))
    BY <2>2, ElementFits
  <2>5. 1 + 8 + (n + 4) = 1 + 8 + 1 + 2 + 1 + n
    OBVIOUS
  <2> QED
    BY <2>3, <2>4, <2>5 DEF Fits, Layout
<1> QED
  BY <1>1, <1>2
-----------------------------------------------------------------------------
(* The PNG files and the icons.                                              *)
LEMMA ChunkFits ==
  ASSUME NEW us, NEW n, Balanced(us, n), NEW size, size = n + 12
  PROVE  Balanced(Chunk(size, us), size)
<1>1. n \in Nat /\ us \in Seq(Fields) /\ size - 12 + 4 = 4 + n
  BY DEF Balanced
<1> DEFINE ds == <<Declares(4, 4 + n)>>
           fs == <<Field(4)>>
           es == <<End>>
<1>2. /\ Field(4) \in Fields /\ End \in Fields /\ Declares(4, 4 + n) \in Fields
      /\ ds \in Seq(Fields) /\ fs \in Seq(Fields) /\ es \in Seq(Fields)
  BY <1>1, FieldTypes
<1>3. <<Declares(4, 4 + n), Field(4)>> = ds \o fs /\ <<End, Field(4)>> = es \o fs
  BY <1>2, PairIs
<1>4. Chunk(size, us) = ds \o fs \o us \o (es \o fs)
  BY <1>1, <1>3 DEF Chunk
<1>5. Balanced(fs, 4)
  BY BalancedField
<1>6. Balanced(fs \o us, 4 + n)
  BY <1>5, BalancedJoin
<1>7. Balanced(ds \o (fs \o us) \o es, 4 + (4 + n))
  BY <1>6, BalancedElement
<1> HIDE DEF ds, fs, es
<1>8. Balanced(ds \o (fs \o us) \o es \o fs, 4 + (4 + n) + 4)
  BY <1>5, <1>7, BalancedJoin
<1>9. ds \o (fs \o us) \in Seq(Fields)
  BY <1>1, <1>2
<1>10. Regroups(ds, fs, us) /\ Regroups(ds \o (fs \o us), es, fs)
  BY <1>1, <1>2, <1>9, Rearranged
<1>11. ds \o fs \o us = ds \o (fs \o us)
  BY <1>10, Zenon DEF Regroups
<1>12. ds \o (fs \o us) \o es \o fs = ds \o (fs \o us) \o (es \o fs)
  BY <1>10, Zenon DEF Regroups
<1>13. 4 + (4 + n) + 4 = size
  BY <1>1
<1> QED
  BY <1>4, <1>8, <1>11, <1>12, <1>13, Zenon

LEMMA IdatFits ==
  ASSUME NEW w \in Nat, NEW h \in Nat \ {0}
  PROVE  Fits(PngIDAT(w, h))
<1> DEFINE size == 12 + 4 * w * h + h + 4 + 2 + 1 + 2 + 2
           row == <<1>> \o Times4(w)
           rows == FlattenSeq([y \in 1..h |-> row])
           before == <<1, 1, 1, 2, 2>>
           after == <<2, 2>>
<1>1. PngIDAT(w, h) = Layout(Chunk(size, Plain(before \o rows \o after)), size)
  BY Zenon DEF PngIDAT
<1>2. Widths(row, 1 + 4 * w)
  BY WidthsOne, WidthsTimes4, WidthsJoin
<1>3. Widths(before, 7) /\ Widths(after, 2 + 2)
  BY WidthsMany, WidthsSome
<1> HIDE DEF row, before, after
<1>4. Widths(rows, h * (1 + 4 * w))
  BY <1>2, WidthsRows
<1> HIDE DEF rows
<1>5. Widths(before \o rows, 7 + h * (1 + 4 * w))
  BY <1>3, <1>4, WidthsJoin
<1>6. Widths(before \o rows \o after, 7 + h * (1 + 4 * w) + (2 + 2))
  BY <1>3, <1>5, WidthsJoin
<1>7. size = 7 + h * (1 + 4 * w) + (2 + 2) + 12
  <2>1. h * (1 + 4 * w) = h + 4 * w * h
    BY SMT
  <2>2. 4 * w * h \in Nat
    BY SMT
  <2> QED
    BY <2>1, <2>2
<1>8. Balanced(Chunk(size, Plain(before \o rows \o after)), size)
  <2> HIDE DEF size
  <2> QED
    BY <1>6, <1>7, ChunkFits DEF Widths
<1> QED
  BY <1>1, <1>8 DEF Fits, Layout

LEMMA PngFits ==
  ASSUME NEW w \in Nat, NEW h \in Nat \ {0}
  PROVE  Fits(create_rgba_png(w, h))
<1> DEFINE a == PngIHDR
           b == PngIDAT(w, h)
           c == PngIEND
<1>1. Fits(a)
  <2> DEFINE us == Plain(<<4, 4, 1, 1, 1, 1, 1>>)
  <2>1. Balanced(us, 13)
    BY WidthsMany DEF Widths
  <2> HIDE DEF us
  <2>2. 12 + 13 = 13 + 12
    OBVIOUS
  <2>3. Balanced(Chunk(12 + 13, us), 12 + 13)
    BY <2>1, <2>2, ChunkFits
  <2> QED
    BY <2>3 DEF Fits, Layout, PngIHDR, us
<1>2. Fits(c)
  <2>1. 12 = 0 + 12
    OBVIOUS
  <2>2. Balanced(Chunk(12, <<>>), 12)
    BY <2>1, BalancedNone, ChunkFits
  <2> QED
    BY <2>2 DEF Fits, Layout, PngIEND
<1>3. Fits(b)
  BY IdatFits
<1>4. create_rgba_png(w, h) = Layout(a.fields \o b.fields \o c.fields, a.size + b.size + c.size)
  BY Zenon DEF create_rgba_png
<1> HIDE DEF a, b, c
<1>5. Balanced(a.fields \o b.fields, a.size + b.size)
  BY <1>1, <1>3, BalancedJoin DEF Fits
<1>6. Balanced(a.fields \o b.fields \o c.fields, a.size + b.size + c.size)
  BY <1>2, <1>5, BalancedJoin DEF Fits
<1> QED
  BY <1>4, <1>6 DEF Fits, Layout

LEMMA IconFits == Fits(create_icondir)
<1> DEFINE a == ICONDIR
           b == ICONDIRENTRY
<1>1. Fits(a)
  <2>1. Widths(<<2, 2, 2>>, 6)
    <3>1. Widths(<<2, 2, 2>>, 2 + 2 + 2)
      BY WidthsSome
    <3> QED
      BY <3>1
  <2> QED
    BY <2>1, FitsPlain DEF ICONDIR
<1>2. Fits(b)
  BY WidthsMany, FitsPlain DEF ICONDIRENTRY
<1>3. create_icondir = Layout(a.fields \o b.fields, a.size + b.size)
  BY Zenon DEF create_icondir
<1> HIDE DEF a, b
<1>4. Balanced(a.fields \o b.fields, a.size + b.size)
  BY <1>1, <1>2, BalancedJoin DEF Fits
<1> QED
  BY <1>3, <1>4 DEF Fits, Layout
-----------------------------------------------------------------------------
(* noVNC.                                                                    *)
LEMMA NovncFits ==
  /\ Fits(pixelFormat) /\ Fits(fbUpdateRequest) /\ Fits(keyEvent) /\ Fits(pointerEvent)
  /\ \A n \in Nat : Fits(clientEncodings(n)) /\ Fits(clientCutText(n))
<1>1. Fits(pixelFormat) /\ Fits(fbUpdateRequest)
  BY WidthsMany, FitsPlain DEF pixelFormat, fbUpdateRequest
<1>2. Fits(keyEvent) /\ Fits(pointerEvent)
  <2>1. Widths(<<1, 1, 2, 4>>, 8) /\ Widths(<<1, 1, 2, 2>>, 6)
    <3>1. Widths(<<1, 1, 2, 4>>, 1 + 1 + 2 + 4) /\ Widths(<<1, 1, 2, 2>>, 1 + 1 + 2 + 2)
      BY WidthsSome
    <3> QED
      BY <3>1
  <2> QED
    BY <2>1, FitsPlain DEF keyEvent, pointerEvent
<1>3. ASSUME NEW n \in Nat PROVE Fits(clientEncodings(n))
  <2> DEFINE ps == Plain(<<1, 1>>)
             us == Plain(Times4(n))
  <2>1. Balanced(ps, 1 + 1) /\ Balanced(us, 4 * n)
    BY WidthsSome, WidthsTimes4 DEF Widths
  <2>2. clientEncodings(n) = Layout(ps \o <<Declares(2, 4 * n)>> \o us \o <<End>>, 4 + 4 * n)
    BY Zenon DEF clientEncodings
  <2> HIDE DEF ps, us
  <2>3. Balanced(ps \o <<Declares(2, 4 * n)>> \o us \o <<End>>, (1 + 1) + 2 + 4 * n)
    BY <2>1, BalancedNested
  <2>4. (1 + 1) + 2 + 4 * n = 4 + 4 * n
    OBVIOUS
  <2> QED
    BY <2>2, <2>3, <2>4 DEF Fits, Layout
<1>4. ASSUME NEW n \in Nat PROVE Fits(clientCutText(n))
  <2> DEFINE ps == Plain(<<1, 1, 1, 1>>)
             ds == <<Declares(4, n)>>
             us == <<Field(n)>>
             es == <<End>>
  <2>1. Balanced(ps, 1 + 1 + 1 + 1) /\ Balanced(us, n)
    BY WidthsSome, BalancedField DEF Widths
  <2>2. Declares(4, n) \in Fields /\ Field(n) \in Fields /\ End \in Fields
    BY FieldTypes
  <2>3. <<Declares(4, n), Field(n), End>> = ds \o us \o es
    <3>1. <<Declares(4, n), Field(n), End>> = <<Declares(4, n), Field(n)>> \o es
      BY <2>2, OneMoreIs
    <3>2. <<Declares(4, n), Field(n)>> = ds \o us
      BY <2>2, PairIs
    <3> QED
      BY <3>1, <3>2, Zenon
  <2>4. clientCutText(n) = Layout(ps \o (ds \o us \o es), 8 + n)
    BY <2>3, Zenon DEF clientCutText
  <2>5. Balanced(ds \o us \o es, 4 + n)
    BY <2>1, BalancedElement
  <2> HIDE DEF ps, ds, us, es
  <2>6. Balanced(ps \o (ds \o us \o es), (1 + 1 + 1 + 1) + (4 + n))
    BY <2>1, <2>5, BalancedJoin
  <2>7. (1 + 1 + 1 + 1) + (4 + n) = 8 + n
    OBVIOUS
  <2> QED
    BY <2>4, <2>6, <2>7 DEF Fits, Layout
<1> QED
  BY <1>1, <1>2, <1>3, <1>4

(* The cursor file, in the order it is written and as it is nested.          *)
Nested(p, d, f, g, q, e, r) ==
    p \o (d \o f \o g) \o q \o e \o r \o e = p \o d \o (f \o (g \o q \o e) \o r) \o e

LEMMA FileIsNested ==
  ASSUME NEW p \in Seq(Fields), NEW d \in Seq(Fields), NEW f \in Seq(Fields), NEW g \in Seq(Fields),
         NEW q \in Seq(Fields), NEW e \in Seq(Fields), NEW r \in Seq(Fields)
  PROVE  Nested(p, d, f, g, q, e, r)
<1> DEFINE pd == p \o d
           gq == g \o q
           image == gq \o e
           body == f \o image \o r
<1>1. /\ d \o f \in Seq(Fields) /\ pd \in Seq(Fields) /\ pd \o f \in Seq(Fields) /\ gq \in Seq(Fields)
      /\ image \in Seq(Fields) /\ f \o image \in Seq(Fields)
  OBVIOUS
<1>2. /\ Regroups(p, d \o f, g) /\ Regroups(p, d, f) /\ Regroups(pd \o f, g, q) /\ Regroups(pd \o f, gq, e)
      /\ Regroups(pd, f, image) /\ Regroups(pd, f \o image, r)
  <2> HIDE DEF pd, gq, image
  <2> QED
    BY <1>1, Rearranged
<1>3. p \o (d \o f \o g) = pd \o f \o g
  <2>1. p \o (d \o f \o g) = p \o (d \o f) \o g
    BY <1>2, Zenon DEF Regroups
  <2>2. p \o (d \o f) = pd \o f
    BY <1>2, Zenon DEF Regroups
  <2> QED
    BY <2>1, <2>2, Zenon
<1>4. pd \o f \o g \o q = pd \o f \o gq
  BY <1>2, Zenon DEF Regroups
<1>5. pd \o f \o gq \o e = pd \o f \o image
  BY <1>2, Zenon DEF Regroups
<1>6. pd \o f \o image = pd \o (f \o image) /\ pd \o (f \o image) \o r = pd \o body
  BY <1>2, Zenon DEF Regroups
<1>7. p \o (d \o f \o g) \o q \o e \o r \o e = pd \o body \o e
  BY <1>3, <1>4, <1>5, <1>6, Zenon
<1> QED
  BY <1>7 DEF body, image, gq, pd, Nested

LEMMA CursorFits ==
  ASSUME NEW w0 \in Nat, NEW h0 \in Nat, NEW side \in Nat,
         side = IF h0 < w0 THEN w0 ELSE h0, RightSize(side)
  PROVE  Fits(changeCursor(w0, h0))
<1> DEFINE pixels == 4 * side * side
           mask == Octets(side * side)
           octets == Octets(side)
           xs == [y \in 1..side |-> 4 * side]
           ys == [y \in 1..2 * side |-> octets]
           n == 4 + 40 + pixels + 2 * mask
           size == 22 + 40 + pixels + 2 * mask
           p == Plain(<<2, 2, 2, 1, 1, 1, 1, 2, 2>>)
           d == <<Declares(4, n)>>
           f == <<Field(4)>>
           g == <<Declares(4, 36)>>
           q == Plain(<<4, 4, 2, 2, 4, 4, 4, 4, 4, 4>>)
           e == <<End>>
           r == Plain(xs \o ys)
           image == g \o q \o e
           body == f \o image \o r
<1>1. changeCursor(w0, h0) = Layout(p \o <<Declares(4, n), Field(4), Declares(4, 36)>> \o q \o e \o r \o e, size)
  <2>1. 40 - 4 = 36
    OBVIOUS
  <2>2. changeCursor(w0, h0) =
            Layout(p \o <<Declares(4, n), Field(4), Declares(4, 40 - 4)>> \o q \o e \o r \o e, size)
    BY ZenonT(40) DEF changeCursor
  <2> QED
    BY <2>1, <2>2, ZenonT(40)
<1>2. /\ octets \in Nat /\ mask = side * octets /\ mask \in Nat /\ pixels \in Nat
      /\ side * (4 * side) = pixels /\ 2 * side * octets = 2 * mask /\ 4 * side \in Nat /\ 2 * side \in Nat
  <2>1. octets \in Nat /\ mask = side * octets
    BY DEF Octets, RightSize
  <2> HIDE DEF octets, mask
  <2>2. side * octets \in Nat /\ pixels \in Nat /\ side * (4 * side) = pixels
    BY <2>1, SMT
  <2>3. 2 * side * octets = 2 * (side * octets)
    BY <2>1, SMT
  <2> QED
    BY <2>1, <2>2, <2>3
<1> HIDE DEF pixels, mask, octets
<1>3. Widths(xs, side * (4 * side)) /\ Widths(ys, 2 * side * octets)
  BY <1>2, WidthsRow
<1> HIDE DEF xs, ys
<1>4. Balanced(r, pixels + 2 * mask)
  BY <1>2, <1>3, WidthsJoin DEF Widths
<1>5. Balanced(p, 14) /\ Balanced(q, 36) /\ Balanced(f, 4)
  BY WidthsMany, BalancedField DEF Widths
<1>6. n \in Nat /\ n = 4 + 40 + (pixels + 2 * mask) /\ size = 14 + 4 + n
  BY <1>2
<1> HIDE DEF n, size, r, p, q
<1>7. Declares(4, n) \in Fields /\ Field(4) \in Fields /\ Declares(4, 36) \in Fields /\ End \in Fields
  BY <1>6, FieldTypes
<1>8. <<Declares(4, n), Field(4), Declares(4, 36)>> = d \o f \o g
  <2>1. <<Declares(4, n), Field(4), Declares(4, 36)>> = <<Declares(4, n), Field(4)>> \o g
    BY <1>7, OneMoreIs
  <2>2. <<Declares(4, n), Field(4)>> = d \o f
    BY <1>7, PairIs
  <2> QED
    BY <2>1, <2>2, Zenon
<1>9. /\ p \in Seq(Fields) /\ d \in Seq(Fields) /\ f \in Seq(Fields) /\ g \in Seq(Fields)
      /\ q \in Seq(Fields) /\ e \in Seq(Fields) /\ r \in Seq(Fields)
  BY <1>4, <1>5, <1>7 DEF Balanced
<1>10. Balanced(image, 4 + 36)
  BY <1>5, BalancedElement
<1>11. Balanced(body, n)
  <2> HIDE DEF image, f
  <2>1. Balanced(f \o image, 4 + (4 + 36))
    BY <1>5, <1>10, BalancedJoin
  <2>2. Balanced(body, 4 + (4 + 36) + (pixels + 2 * mask))
    BY <1>4, <2>1, BalancedJoin
  <2>3. 4 + (4 + 36) + (pixels + 2 * mask) = n
    BY <1>2, <1>6
  <2> QED
    BY <2>2, <2>3
<1>12. Balanced(p \o d \o body \o e, size)
  <2> HIDE DEF body
  <2> QED
    BY <1>5, <1>6, <1>11, BalancedNested
<1>13. p \o (d \o f \o g) \o q \o e \o r \o e = p \o d \o body \o e
  <2> HIDE DEF d, f, g, e
  <2>1. Nested(p, d, f, g, q, e, r)
    BY <1>9, FileIsNested
  <2> QED
    BY <2>1, Zenon DEF Nested
<1>14. changeCursor(w0, h0) = Layout(p \o d \o body \o e, size)
  BY <1>1, <1>8, <1>13, Zenon
<1> HIDE DEF body, d, e
<1> QED
  BY <1>12, <1>14 DEF Fits, Layout
-----------------------------------------------------------------------------
(* The writer.                                                               *)
Begun(layout) == Leads(layout.fields, layout.size, 0, <<>>, layout.size, <<>>)

LEMMA WrittenFits ==
  ASSUME NEW layout \in Written
  PROVE  Fits(layout)
<1>1. Fits(SpiceLinkHeader) /\ Fits(SpiceLinkAuthTicket) /\ Fits(SpiceLinkMess(1, 1)) /\ Fits(SpiceLinkMess(0, 2))
  BY LinkFits
<1>2. \A m \in Messages : Fits(SpiceMiniData(m))
  BY MessageFits, MiniDataFits
<1>3. Fits(webm_Header) /\ Fits(webm_Cluster) /\ Fits(create_icondir) /\ \A n \in Sizes : Fits(webm_SimpleBlock(n))
  BY HeaderFits, ClusterFits, IconFits, WireAssumption
<1>4. \A w \in 1..2, h \in 1..3 : Fits(create_rgba_png(w, h))
  BY PngFits
<1>5. Fits(pixelFormat) /\ Fits(fbUpdateRequest) /\ Fits(keyEvent) /\ Fits(pointerEvent)
  BY NovncFits
<1>6. /\ \A n \in {10, 11} : Fits(clientEncodings(n))
      /\ \A n \in Sizes : Fits(clientCutText(n))
  BY NovncFits, WireAssumption
<1>7. \A s \in {x \in 1..16 : RightSize(x)} : Fits(changeCursor(s, s))
  <2>1. ASSUME NEW s \in 1..16, RightSize(s) PROVE Fits(changeCursor(s, s))
    <3>1. s \in Nat /\ s = IF s < s THEN s ELSE s
      OBVIOUS
    <3> QED
      BY <2>1, <3>1, CursorFits
  <2> QED
    BY <2>1
<1>8. Fits(changeCursor(8, 3)) /\ Fits(changeCursor(3, 8))
  <2>1. RightSize(8)
    BY DEF RightSize, Octets
  <2>2. 8 = IF 3 < 8 THEN 8 ELSE 3
    OBVIOUS
  <2>3. 8 = IF 8 < 3 THEN 3 ELSE 8
    OBVIOUS
  <2> QED
    BY <2>1, <2>2, <2>3, CursorFits
<1> QED
  BY <1>1, <1>2, <1>3, <1>4, <1>5, <1>6, <1>7, <1>8, SMT DEF Written

LEMMA WrittenBegins ==
  ASSUME NEW layout \in Written
  PROVE  Begun(layout)
<1> DEFINE n == layout.size
           us == layout.fields
<1>1. Balanced(us, n)
  BY WrittenFits DEF Fits
<1> HIDE DEF n, us
<1>2. n \in Nat /\ 0 \in Nat /\ 0 + n <= n /\ 0 + n = n /\ <<>> \in Seq(0..n)
  BY <1>1 DEF Balanced
<1>3. Leads(us, n, 0, <<>>, 0 + n, <<>>)
  BY <1>1, <1>2 DEF Balanced
<1> QED
  BY <1>2, <1>3 DEF Begun, n, us

Led(o) == Leads(o.todo, o.size, o.at, o.ends, o.size, <<>>)
WriteInv == out.size \in Nat /\ Led(out)

LEMMA WriteStep == WriteInv /\ [WireNext]_wireVars => WriteInv'
<1> SUFFICES ASSUME WriteInv, [WireNext]_wireVars PROVE WriteInv'
  OBVIOUS
<1>1. CASE WriteField
  <2> DEFINE f == Head(out.todo)
             next == [at |-> out.at + f.w, todo |-> Tail(out.todo), size |-> out.size,
                      ends |-> Opens(f, out.at, out.ends)]
  <2>1. out.todo # <<>> /\ out' = next
    BY <1>1 DEF WriteField, Opens
  <2>2. Leads(Tail(out.todo), out.size, out.at + f.w, Opens(f, out.at, out.ends), out.size, <<>>)
    BY <2>1, LeadsOn DEF WriteInv, Led
  <2>3. Led(next) /\ next.size = out.size
    BY <2>2 DEF Led
  <2> QED
    BY <2>1, <2>3 DEF WriteInv
<1>2. ASSUME NEW layout \in Written, BeginWriting(layout) PROVE WriteInv'
  <2> DEFINE next == [at |-> 0, todo |-> layout.fields, size |-> layout.size, ends |-> <<>>]
  <2>1. out' = next
    BY <1>2 DEF BeginWriting
  <2>2. Led(next) /\ next.size \in Nat
    <3>1. layout.size \in Nat
      BY WrittenFits DEF Fits, Balanced
    <3> QED
      BY <3>1, WrittenBegins DEF Begun, Led
  <2> QED
    BY <2>1, <2>2 DEF WriteInv
<1>3. CASE UNCHANGED out
  BY <1>3 DEF WriteInv
<1>4. WriteField \/ (\E layout \in Written : BeginWriting(layout)) \/ UNCHANGED out
  <2>1. CASE UNCHANGED wireVars
    BY <2>1 DEF wireVars
  <2>2. CASE WireNext
    BY <2>2, Zenon DEF WireNext, Receive, Unpack, Base64, Echo
  <2> QED
    BY <2>1, <2>2
<1> QED
  BY <1>1, <1>2, <1>3, <1>4

LEMMA WriteFits == WriteInv => WrittenAsDeclared
<1> SUFFICES ASSUME WriteInv PROVE WrittenAsDeclared
  OBVIOUS
<1>1. /\ out.at \in 0..out.size /\ out.ends \in Seq(0..out.size)
      /\ out.todo = <<>> => out.at = out.size
      /\ out.todo # <<>> /\ Head(out.todo).kind = "end" => Head(out.ends) = out.at
  <2> DEFINE us == out.todo
             size == out.size
             from == out.at
             ends == out.ends
  <2>1. size \in Nat /\ Leads(us, size, from, ends, size, <<>>)
    BY DEF WriteInv, Led
  <2> HIDE DEF us, size, from, ends
  <2>2. /\ from \in 0..size /\ ends \in Seq(0..size)
        /\ us = <<>> => from = size
        /\ us # <<>> => (Head(us).kind = "end" => ends # <<>> /\ Head(ends) = from)
    BY <2>1, LeadsOn, ZenonT(40)
  <2>3. us # <<>> /\ Head(us).kind = "end" => Head(ends) = from
    BY <2>2, Zenon
  <2> QED
    BY <2>2, <2>3, Zenon DEF us, size, from, ends
<1>2. out.size \in Nat
  BY DEF WriteInv
<1>3. out.at <= out.size /\ \A i \in DOMAIN out.ends : out.ends[i] <= out.size
  BY <1>1, <1>2
<1> QED
  BY <1>1, <1>3 DEF WrittenAsDeclared

(* What buffer_size() promises is what to_buffer writes, for every layout of *)
(* the link, the messages, WebM, PNG, the icons and noVNC, and every length  *)
(* that is declared in one ends where its element does, whatever the sizes   *)
(* of the data that is carried: nothing is written past the end, where       *)
(* SpiceDataView would drop it, and no byte of the buffer is left over.      *)
THEOREM LayoutsAreFilled == WireSpec => []WrittenAsDeclared
<1>1. WireInit => WriteInv
  <2> SUFFICES ASSUME WireInit PROVE WriteInv
    OBVIOUS
  <2>1. out = NotWriting
    BY DEF WireInit, WireIdle
  <2>2. NotWriting.size = 0 /\ 0 \in Nat /\ 0 \in 0..0 /\ <<>> \in Seq(0..0)
    BY DEF NotWriting
  <2>3. Leads(<<>>, 0, 0, <<>>, 0, <<>>)
    BY <2>2, LeadsNone
  <2>4. Led(NotWriting)
    BY <2>3 DEF Led, NotWriting
  <2> QED
    BY <2>1, <2>2, <2>4 DEF WriteInv
<1> QED
  BY <1>1, WriteStep, WriteFits, PTL DEF WireSpec
=============================================================================
