-------------------------- MODULE InterfaceSelection --------------------------
(***************************************************************************)
(* The rules of monitoring/selection.py.  A list of interfaces is the      *)
(* function from those discovery has found to the types it gives them, the *)
(* overrides are a function from the interfaces the user has chosen for.   *)
(***************************************************************************)
Type == {"ethernet", "wifi", "other", "unknown"}

\* default_enabled_for_type(): the physical types.
EnabledByDefault(type) == type \in {"ethernet", "wifi"}

\* resolve_enabled_map(): the interfaces of the list that are enabled.
EnabledIn(list, overrides) ==
    {i \in DOMAIN list : IF i \in DOMAIN overrides THEN overrides[i]
                         ELSE EnabledByDefault(list[i])}

\* visible_interfaces_for_default_view(): all but disabled Other and Unknown.
VisibleByDefault(list, enabled) ==
    {i \in DOMAIN list : i \in enabled \/ EnabledByDefault(list[i])}

\* The overrides after new choices.
With(overrides, choices) ==
    [i \in DOMAIN choices \cup DOMAIN overrides |->
        IF i \in DOMAIN choices THEN choices[i] ELSE overrides[i]]

\* set_override(), select_physical_defaults(), deselect_all().
Chosen(overrides, i, choice) == With(overrides, [j \in {i} |-> choice])
PhysicalChosen(overrides, list) == With(overrides, [i \in DOMAIN list |-> EnabledByDefault(list[i])])
NoneChosen(overrides, list) == With(overrides, [i \in DOMAIN list |-> FALSE])
=============================================================================
