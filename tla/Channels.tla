-------------------------------- MODULE Channels --------------------------------
(***************************************************************************)
(* channels.py over TrustAgent: the MCP and A2A facades of one gateway.    *)
(* A facade writes its channel into the caller's own request object before *)
(* it calls authorize(), so the object remembers the facade it was last    *)
(* passed to, and a later call on it, direct or not, starts from there.    *)
(***************************************************************************)
EXTENDS TrustAgent

CONSTANT Objects           \* the request objects of the caller

\* Both facades exist, whatever the channels of the requests that callers build.
ASSUME FacadesAssumption == {"mcp", "a2a"} \subseteq Channels

VARIABLES object,          \* AuthorizationRequest objects made so far
          reply            \* history: what the last call with each came to:
                           \* "none", "permitted", "withheld" or "raised"

channelVars == <<object, reply>>

\* A caller builds an object, for either channel.
Make(o, r) == /\ object' = Put(object, o, r)
              /\ reply' = Put(reply, o, "none")
              /\ UNCHANGED vars

\* A gateway is called with the object as it is then.
Call(g, o, request) ==
  /\ object' = [object EXCEPT ![o] = request]
  /\ \/ /\ Answers(g, request)
        /\ LET log == audit'[g] IN
             reply' = [reply EXCEPT ![o] = IF log[Len(log)].withheld
                                           THEN "withheld" ELSE "permitted"]
     \/ /\ Raises(g, request)
        /\ reply' = [reply EXCEPT ![o] = "raised"]

\* Seeded fault: the object keeps the channel it was built for.
FaultOnChannel(request, channel) == request

\* request.channel = channel
OnChannel(request, channel) == [request EXCEPT !.channel = channel]

Invoke(g, o) == Call(g, o, OnChannel(object[o], "mcp"))
Send(g, o) == Call(g, o, OnChannel(object[o], "a2a"))
Direct(g, o) == Call(g, o, object[o])

-----------------------------------------------------------------------------
ChannelsInit == Init /\ object = <<>> /\ reply = <<>>

ChannelsNext ==
  \/ \E o \in Objects, r \in Requests : Make(o, r)
  \/ \E g \in Gateways, o \in DOMAIN object :
       Invoke(g, o) \/ Send(g, o) \/ Direct(g, o)
  \/ Environment /\ UNCHANGED channelVars

ChannelsSpec == ChannelsInit /\ [][ChannelsNext]_<<vars, channelVars>>

-----------------------------------------------------------------------------
(* Properties *)

\* A peer call is never permitted without a card that the caller signed, to a peer
\* that is not active, and a tool call never to an untrusted resource, whichever
\* channel the object was built for and whichever facades it went through before.
FacadeDecidesChecks ==
  [][\A g \in Enforcing, o \in DOMAIN object :
       /\ Send(g, o) /\ reply'[o] = "permitted" =>
            /\ CardSigned(object[o])
            /\ Status(object[o].resource, now) = "active"
       /\ Invoke(g, o) /\ reply'[o] = "permitted" =>
            object[o].resource \in TrustedResources
    ]_<<vars, channelVars>>

=============================================================================
