---------------------------- MODULE MCActivation ----------------------------
(***************************************************************************)
(* Small instances of ActivationSystem for TLC.  The signals: s1 seeded,   *)
(* d1 and d2 generated from briefs, n1 seeded but not activatable.         *)
(***************************************************************************)
EXTENDS ActivationSystem, TLC

McRequest(via, key, signal, hook, body, data) ==
  [via |-> via, key |-> key, signal |-> signal, destination |-> "dsp",
   hook |-> hook, body |-> body, data |-> data]

\* One key, reused: verbatim, with another body, through the other entrance.
ReuseRequests ==
  { McRequest("mcp", "k1", "s1", "none", "b1", None),
    McRequest("mcp", "k1", "s1", "none", "b2", None),
    McRequest("rest", "k1", "s1", "none", "b3", None) }

\* Signals that are cached, carried by the request, or not activatable.
ResolveRequests ==
  { McRequest("mcp", None, "d1", "none", "b4", None),
    McRequest("rest", "k1", "d2", "none", "b5", "d1"),
    McRequest("mcp", None, "n1", "none", "b6", None) }

\* REST clients that reuse a key with another campaign or webhook.
RestRequests ==
  { McRequest("rest", "k1", "s1", "none", "b3", None),
    McRequest("rest", "k1", "s1", "none", "b7", None) }

DeliverRequests ==
  { McRequest("mcp", None, "s1", "https", "b8", None),
    McRequest("mcp", None, "s1", "invalid", "b9", None) }

PlainRequests == { McRequest("mcp", None, "s1", "none", "b4", None) }

Symmetry == Permutations(Activators) \cup Permutations(Pollers)

=============================================================================
