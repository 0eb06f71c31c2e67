----------------------------- MODULE MCReconciler -----------------------------
(* Reconciler with objects of every sort and two histories of a Pipeline.      *)
EXTENDS Reconciler

\* A PipelineRevision, a RoleBinding, the Service of a task's executor, the StatefulSet
\* of the next task's agent.  The IngressRoute is of the same sort as the revision.
MCOrder == <<"revision", "binding", "service", "agent">>
MCWatched == {"service", "agent"}
MCOwned == {"revision", "service", "agent"}
MCVersioned == {"revision", "service", "agent"}
MCAgents == {"service", "agent"}
MCServices == {"service"}

\* Versions 0 to 2: a specification is made invalid, then repaired, with one port less
\* and with an input without a link.  Versions 3 to 5: it begins with such an input,
\* which is linked when the Service gets a port that is refused; then that is repaired.
MCPorts == [v \in 0..5 |-> CASE v = 0 -> {"http", "admin"}
                             [] v \in {1, 2, 3} -> {"http"}
                             [] v = 4 -> {"http", "http2"}
                             [] v = 5 -> {"http", "admin"}]
MCUnlinked == {<<"agent", 2>>, <<"agent", 3>>}
MCRefused == {<<"service", 4>>}

=============================================================================
