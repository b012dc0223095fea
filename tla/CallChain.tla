----------------------------- MODULE CallChain -----------------------------
(***************************************************************************)
(* The call chain (src/jim/interop/callchain.py): agents that sell to and  *)
(* buy from one another.  Every paid request carries X-Jim-Call-Chain, the *)
(* identities that funded it so far; the seller's outermost middleware     *)
(* refuses a request whose chain names the seller or is too long, and the  *)
(* buyer refuses to extend a chain past the ceiling.                       *)
(*                                                                         *)
(* Jims are the agents that run this code.  The others are foreign: they   *)
(* may strip, reorder or forge the header (ForeignHeaders).  An agent      *)
(* handles several requests at once; the ContextVar _inbound gives each of *)
(* them its own chain, which is the field hops of the request's record.    *)
(* History: trail, the jims that really funded a request since the last    *)
(* foreign agent on its path, in order.                                    *)
(***************************************************************************)
EXTENDS Integers, Sequences, FiniteSets

CONSTANTS
  Agents,          \* every agent, by address
  Jims,            \* those that run this code
  MaxDepth,        \* call_chain_max_depth
  Calls,           \* requests, numbered as they are sent: a bound
  ForeignHeaders   \* the headers a foreign agent may send

ASSUME JimsAssumption           == Jims \subseteq Agents
ASSUME MaxDepthAssumption       == MaxDepth \in Nat \ {0}
ASSUME CallsAssumption          == Calls \subseteq Nat
ASSUME ForeignHeadersAssumption == ForeignHeaders \subseteq Seq(Agents)

VARIABLES
  call   \* per request: who asked, who serves, the header, its stage, its trail

Asked == [stage : {"asked", "serving", "refused", "answered"},
          buyer : Agents, seller : Agents, parent : Calls, hops : Seq(Agents), trail : Seq(Jims)]

Unused == [stage |-> "unused"]

ChainTypeOK == call \in [Calls -> {Unused} \cup Asked]

ChainInit == call = [c \in Calls |-> Unused]

Names(chain) == {chain[i] : i \in DOMAIN chain}

At(c, stage) == call[c].stage = stage

---------------------------------------------------------------------------
(* The buyer *)

\* Mutant of Extended: the identity is not appended.
ExtendedNot(hops, own) == hops

\* outbound_payment_headers: the inbound chain and our identity.
Extended(hops, own) == IF own \in Names(hops) THEN hops ELSE Append(hops, own)

\* A request leaves for the seller: c is its record, p the request being
\* served (p = c: none, a run of the agent's own).
Ask(c, p, buyer, seller, header, trail) ==
  /\ At(c, "unused")
  /\ \A d \in Calls : d < c => ~At(d, "unused")
  /\ call' = [call EXCEPT ![c] = [stage |-> "asked", buyer |-> buyer, seller |-> seller,
                                  parent |-> p, hops |-> header, trail |-> trail]]

\* A run outside of any request (scheduler, CLI, free route) buys: _inbound is
\* empty.  Past the ceiling CallChainDepthExceeded is raised and nothing is sent.
BuyAfresh(c, a, b) ==
  LET header == Extended(<<>>, a)
  IN  Len(header) <= MaxDepth /\ Ask(c, c, a, b, header, <<a>>)

\* A jim that serves request p buys upstream for it.
BuyFor(c, p, b) ==
  LET a == call[p].seller
      header == Extended(call[p].hops, a)
  IN  /\ At(p, "serving")
      /\ a \in Jims
      /\ Len(header) <= MaxDepth
      /\ Ask(c, p, a, b, header, Append(call[p].trail, a))

\* A foreign agent or a customer asks with whatever header it likes.
ForeignAsk(c, a, b, header) == Ask(c, c, a, b, header, <<>>)

---------------------------------------------------------------------------
(* The seller *)

\* Mutant of TooDeep: one hop too many is let through.
TooDeepLate(c) == Len(call[c].hops) > MaxDepth

\* check_inbound, with own_address set: a loop, or a chain at the ceiling.
Loops(c)   == call[c].seller \in Names(call[c].hops)
TooDeep(c) == Len(call[c].hops) >= MaxDepth

Move(c, stage) == call' = [call EXCEPT ![c].stage = stage]

\* CallChainMiddleware lets the request through to the paywall and binds the
\* chain; a foreign seller asks nothing.
Admit(c) ==
  /\ At(c, "asked")
  /\ call[c].seller \in Jims => ~Loops(c) /\ ~TooDeep(c)
  /\ Move(c, "serving")

\* 409, before any payment is verified.
Refuse(c) ==
  /\ At(c, "asked")
  /\ call[c].seller \in Jims
  /\ Loops(c) \/ TooDeep(c)
  /\ Move(c, "refused")

\* The handler returns once what it bought has been answered or refused;
\* reset_inbound_chain.
Reply(c) ==
  /\ At(c, "serving")
  /\ \A d \in Calls \ {c} :
       ~At(d, "unused") /\ call[d].parent = c => ~At(d, "asked") /\ ~At(d, "serving")
  /\ Move(c, "answered")

ChainNext ==
  \/ \E c \in Calls, a \in Jims, b \in Agents : BuyAfresh(c, a, b)
  \/ \E c, p \in Calls, b \in Agents : BuyFor(c, p, b)
  \/ \E c \in Calls, a \in Agents \ Jims, b \in Agents, h \in ForeignHeaders :
       ForeignAsk(c, a, b, h)
  \/ \E c \in Calls : Admit(c)
  \/ \E c \in Calls : Refuse(c)
  \/ \E c \in Calls : Reply(c)

ChainSpec == ChainInit /\ [][ChainNext]_call

---------------------------------------------------------------------------
(* Properties *)

Served(c) == call[c].stage \in {"serving", "answered"}

\* No jim serves, and so is paid for, a request that its own money set off
\* through jims only, however many requests each of them handles at once.
NoPaymentLoop ==
  \A c \in Calls : Served(c) /\ call[c].seller \in Jims =>
    call[c].seller \notin Names(call[c].trail)

\* The jims behind a request are different agents, at most MaxDepth in a row,
\* and fewer when a jim serves it, whatever the foreign agents do to the header.
DepthBounded ==
  \A c \in Calls : ~At(c, "unused") =>
    LET trail == call[c].trail
    IN  /\ \A i, j \in DOMAIN trail : trail[i] = trail[j] => i = j
        /\ Len(trail) <= MaxDepth
        /\ Served(c) /\ call[c].seller \in Jims => Len(trail) < MaxDepth
=============================================================================
