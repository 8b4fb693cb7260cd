------------------------------- MODULE MCData -------------------------------
(***************************************************************************)
(* What travels between the processes and what is written to files, in one *)
(* run: frames through their buffers, messages and commands as bytes, JSON *)
(* as text, the recording of ticks with the tools that read it, and the    *)
(* dump that puts it on disk. They meet only in the bytes they hand over:  *)
(* a behaviour exercises one of them, and the others rest.                 *)
(***************************************************************************)
EXTENDS FrameStream, MessageCodec, JsonText, TickProfile

CONSTANT Length

VARIABLES
    component,
    temporary, output, call, offset, dumped, unlinked

D == INSTANCE ProfileDump WITH result <- dumped

ASSUME CodecConstants /\ ProfileConstants /\ D!DumpConstants

dumpVars == <<temporary, output, call, offset, dumped, unlinked>>
dataVars == <<component, frameVars, codecVars, jsonVars, profileVars, dumpVars>>

----------------------------------------------------------------------------
(* Frames: payloads of each length up to the longest, one of which looks like a header;
   bytes that are no frame, too long a frame and the beginning of one; and a message that
   is too long. *)

MCPayloads == {<<>>, <<1>>, <<Magic, 0>>}
MCStrays == {<<1, Magic>>, <<Magic, MaxPayload + 1, 1, 1>>, <<Magic, 2, 1>>}
MCMessages == {<<2>>, <<Magic, 3>>, <<1, 2, 3>>}

\* Frames around the ring; frames through two connections; messages and frames of two
\* connections; messages without memory for all of them.
MCBudgets == {
    [received |-> 3, queued |-> 0, disconnects |-> 0, connections |-> 0, slots |-> 2],
    [received |-> 2, queued |-> 0, disconnects |-> 1, connections |-> 1, slots |-> 2],
    [received |-> 1, queued |-> 1, disconnects |-> 1, connections |-> 1, slots |-> 4],
    [received |-> 1, queued |-> 2, disconnects |-> 0, connections |-> 0, slots |-> 2]}

----------------------------------------------------------------------------
(* Messages of every type, with fields at and beyond their limits, room for all, some or
   nothing of them, and bytes behind them. *)

M(type, fields, payload) == [type |-> type, fields |-> fields, payload |-> payload]
MCOutgoing ==
  {M("register_request", <<<<1, 0, 9>>, group>>, <<>>) : group \in {<<>>, <<3>>, [i \in 1..12 |-> 4]}}
  \cup {M("register_outcome", <<c>>, <<>>) : c \in 0..1}
  \cup {M(t, <<>>, <<>>) : t \in {"register_ack", "heartbeat"}}
  \cup {M("status_report", <<1, 12, 90>>, <<>>), M("command_ack", <<57>>, <<>>),
        M("command_outcome", <<57, 2>>, <<>>)}
  \cup {M("command_request", <<id, 1>>, <<mode>>) : id \in {7, 99}, mode \in {0, 2}}
MCTailrooms == {0, 3, 4, 6, 18}
MCAdditions == {<<0>>, <<1, 2>>}

----------------------------------------------------------------------------
(* JSON: every kind of number, a nesting as deep as it may be and one that is deeper. *)

Member(k, v) == [key |-> k, value |-> v]
MCWritten == {
    ObjectOf(<<>>),
    ArrayOf(<<Int64(-4), Uint64(6), Double(9, FALSE), Double(2, FALSE), Double(1, TRUE)>>),
    ObjectOf(<<Member("k", Null), Member("l", ArrayOf(<<Bool(TRUE), Text("k")>>))>>),
    ObjectOf(<<Member("k", ObjectOf(<<Member("l", ArrayOf(<<>>))>>)), Member("l", Int64(3))>>)}
MCInserted == {[t |-> s] : s \in {"ws", "{", "}", "[", "]", ",", ":", "null", "broken"}}
                \cup {StringToken("k")}

----------------------------------------------------------------------------
(* Recordings: windows with one end, with both, and an empty one; phases of a tick of
   which the first takes time or does not. *)

MCUtcWindows == {[from |-> {3}, to |-> {}], [from |-> {}, to |-> {5}],
                 [from |-> {2}, to |-> {4}], [from |-> {4}, to |-> {2}]}
MCDurations == {<<0, 0, 1>>, <<2, 0, 1>>}

----------------------------------------------------------------------------

\* What a part begins with when another one is exercised.
AtRest(part, choice, choices) == component = part \/ choice = CHOOSE c \in choices : TRUE

DataInit ==
    /\ component \in {"frames", "messages", "json", "profile", "dump"}
    /\ FrameInit /\ CodecInit /\ JsonInit /\ ProfileInit /\ D!DumpInit
    /\ AtRest("frames", budget, Budgets)
    /\ AtRest("messages", outgoing, Outgoing) /\ AtRest("messages", tailroom, Tailrooms)
    /\ AtRest("json", value, Written)
    /\ AtRest("dump", output, {D!Absent})

DataNext ==
    /\ \/ /\ component = "frames" /\ FrameNext
          /\ UNCHANGED <<codecVars, jsonVars, profileVars, dumpVars>>
       \/ /\ component = "messages" /\ CodecNext
          /\ UNCHANGED <<frameVars, jsonVars, profileVars, dumpVars>>
       \/ /\ component = "json" /\ JsonNext
          /\ UNCHANGED <<frameVars, codecVars, profileVars, dumpVars>>
       \/ /\ component = "profile" /\ ProfileNext
          /\ UNCHANGED <<frameVars, codecVars, jsonVars, dumpVars>>
       \/ /\ component = "dump" /\ D!DumpNext
          /\ UNCHANGED <<frameVars, codecVars, jsonVars, profileVars>>
    /\ UNCHANGED component

\* The reactor thread runs, callbacks return, and a live peer reads.
DataFairness ==
    /\ WF_frameVars(component = "frames" /\ OnConnectionEvent)
    /\ WF_frameVars(component = "frames" /\ HandlerSteps)
    /\ WF_frameVars(component = "frames" /\ CallbackReturns)
    /\ WF_frameVars(component = "frames" /\ PeerReads)

DataSpec == DataInit /\ [][DataNext]_dataVars /\ DataFairness

----------------------------------------------------------------------------
(* Properties *)

\* Whoever finds the output of a dump finds the whole recording, whatever fails and
\* whenever the process or the system goes down; the caller is told the truth, and a file
\* that somebody else put there is never replaced.
DumpTruthful == []D!DumpConsistent /\ D!NeverReplaces
=============================================================================
