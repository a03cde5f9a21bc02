-------------------------- MODULE MCBrokerDelivery --------------------------
(***************************************************************************)
(* BrokerDelivery on small instances: the messages each run enumerates.    *)
(***************************************************************************)
EXTENDS BrokerDelivery, TLC

Sup == "supervisor"
Msg(k, f, t, l, p) == [kind |-> k, from |-> f, to |-> t, label |-> l, phase |-> p]
Question(a, text) == Msg("question", a, Sup, text, "")
Status(a, l, p) == Msg("status", a, a, l, p)
Commit_(a) == Msg("artifact", a, a, "committed", "")

\* One message of each routing rule, and what the roster, the progress clock,
\* the question filter and the nudge tell apart.
AllMsgs == {Question("a", "q1"), Question("b", "q1"), Commit_("a"), Commit_("b"),
            Status("a", "working", ""), Status("a", "working", "stuck-on-prompt"),
            Msg("blocked", "a", "b", "", ""), Msg("verified", Sup, "a", "", ""),
            Msg("feedback", "b", "a", "", ""), Msg("learning", Sup, "b", "", "")}

AllLabels == Kinds \union {m.label : m \in AllMsgs}
AllPhases == {m.phase : m \in AllMsgs}

Symmetry == Permutations(Threads)
=============================================================================
