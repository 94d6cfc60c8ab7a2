------------------------------- MODULE Filter -------------------------------
(***************************************************************************)
(* The filter every plugin has (models/filter.go), applied to one metric   *)
(* as an input or an output does: Select, then Modify, and a metric with   *)
(* no field left is gone.                                                  *)
(*                                                                         *)
(* A compiled filter.Filter is the set of strings it matches, or Nil when  *)
(* its list is empty.  A metric is a name, a set of field keys and a       *)
(* function from tag keys to values.                                       *)
(***************************************************************************)
CONSTANTS Names, FieldKeys, TagKeys, TagValues, Nil

Compiled(strings) == {Nil} \cup SUBSET strings
TagFilters == [Name : TagKeys, filter : Compiled(TagValues)]

Filters ==
  [namePass : Compiled(Names), nameDrop : Compiled(Names),
   fieldPass : Compiled(FieldKeys), fieldDrop : Compiled(FieldKeys),
   tagInclude : Compiled(TagKeys), tagExclude : Compiled(TagKeys),
   TagPass : SUBSET TagFilters, TagDrop : SUBSET TagFilters]

Metrics ==
  [name : Names, fields : SUBSET FieldKeys \ {{}},
   tags : UNION {[ks -> TagValues] : ks \in SUBSET TagKeys}]

-----------------------------------------------------------------------------
(* What Compile finds: no list has an entry.                               *)
isActive(f) ==
  ~ (/\ \A l \in {"namePass", "nameDrop", "fieldPass", "fieldDrop",
                  "tagInclude", "tagExclude"} : f[l] = Nil
     /\ f.TagPass = {} /\ f.TagDrop = {})

Match(filter, s) == s \in filter

shouldNamePass(f, name) ==
  /\ f.namePass # Nil => Match(f.namePass, name)
  /\ f.nameDrop # Nil => Match(f.nameDrop, name)

shouldFieldPass(f, key) ==
  /\ f.fieldPass # Nil => Match(f.fieldPass, key)
  /\ f.fieldDrop # Nil => ~Match(f.fieldDrop, key)

(* Some entry of the table has a key of the metric and matches its value.  *)
TableMatches(table, tags) ==
  \E pat \in table :
    pat.filter # Nil /\ pat.Name \in DOMAIN tags /\ Match(pat.filter, tags[pat.Name])

shouldTagsPass(f, tags) ==
  /\ f.TagPass # {} => TableMatches(f.TagPass, tags)
  /\ f.TagDrop # {} => ~TableMatches(f.TagDrop, tags)

Select(f, m) == isActive(f) => shouldNamePass(f, m.name) /\ shouldTagsPass(f, m.tags)

(* Tags not included go first; those of the rest that are excluded next.   *)
filterTags(f, tags) ==
  LET included == {k \in DOMAIN tags : f.tagInclude # Nil => Match(f.tagInclude, k)}
      kept == {k \in included : f.tagExclude # Nil => ~Match(f.tagExclude, k)}
  IN [k \in kept |-> tags[k]]

Modify(f, m) ==
  IF isActive(f)
    THEN [m EXCEPT !.fields = {k \in @ : shouldFieldPass(f, k)},
                   !.tags = filterTags(f, @)]
    ELSE m

-----------------------------------------------------------------------------
VARIABLES filter, metric,
          result   \* "new", "selected", "dropped", "filtered", "emitted"

vars == <<filter, metric, result>>

Init == filter \in Filters /\ metric \in Metrics /\ result = "new"

SelectMetric ==
  /\ result = "new"
  /\ result' = IF Select(filter, metric) THEN "selected" ELSE "dropped"
  /\ UNCHANGED <<filter, metric>>

ModifyMetric ==
  /\ result = "selected" /\ metric' = Modify(filter, metric)
  /\ result' = IF metric'.fields = {} THEN "filtered" ELSE "emitted"
  /\ UNCHANGED filter

Next == SelectMetric \/ ModifyMetric

Spec == Init /\ [][Next]_vars

(* A metric whose name matches namedrop is discarded: "The inverse of      *)
(* namepass.  If a match is found the metric is discarded."                *)
NameDropDiscards ==
  result = "emitted" /\ filter.nameDrop # Nil => ~Match(filter.nameDrop, metric.name)
=============================================================================
