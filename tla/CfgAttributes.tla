--------------------------- MODULE CfgAttributes ---------------------------
(***************************************************************************)
(* The attributes of Rust code: what a configuration leaves active, and    *)
(* what they say of an item (adapter-rust, scope.rs).                      *)
(*                                                                         *)
(* An attribute is [meta, name, when, nested]: a word, a word with a path  *)
(* before it ("qualified"), a `cfg`, a `cfg_attr`, a `path`, or a `serde`  *)
(* with the path of a callback as its name.  A predicate is                *)
(* [op, fact, items]; a feature is a fact that Cargo knows about.  A       *)
(* configuration is [tests, facts].                                        *)
(***************************************************************************)
EXTENDS Naturals, Sequences, SequencesExt

\* SingleCfgContext::eval: what is not understood is false.
RECURSIVE Eval(_, _)
Eval(context, p) ==
    CASE p.op = "test" -> context.tests
      [] p.op \in {"is", "feature"} -> p.fact \in context.facts
      [] p.op = "all" -> \A i \in DOMAIN p.items : Eval(context, p.items[i])
      [] p.op = "any" -> \E i \in DOMAIN p.items : Eval(context, p.items[i])
      [] p.op = "not" -> Len(p.items) = 1 /\ ~Eval(context, p.items[1])
      [] OTHER -> FALSE

\* meta_attribute_active: a cfg that cannot be parsed hides nothing.
RECURSIVE Active(_, _)
Active(context, a) ==
    CASE a.meta = "word" -> a.name # "test" \/ context.tests
      [] a.meta = "cfg" -> a.when.op = "malformed" \/ Eval(context, a.when)
      [] a.meta = "cfg_attr" -> Eval(context, a.when) => \A i \in DOMAIN a.nested : Active(context, a.nested[i])
      [] OTHER -> TRUE

AttrsActive(context, attrs) == \A i \in DOMAIN attrs : Active(context, attrs[i])

\* path_override: the first `path`, looking into the cfg_attr that apply.
RECURSIVE Overrides(_, _)
Overrides(context, attrs) ==
    FlattenSeq([i \in DOMAIN attrs |->
        CASE attrs[i].meta = "path" -> <<attrs[i].name>>
          [] attrs[i].meta = "cfg_attr" /\ Eval(context, attrs[i].when) -> Overrides(context, attrs[i].nested)
          [] OTHER -> <<>>])

\* cfg_predicate_has_target_dimension: anything but `test`.
RECURSIVE HasTargetDimension(_)
HasTargetDimension(p) ==
    CASE p.op = "test" -> FALSE
      [] p.op \in {"is", "feature", "malformed"} -> TRUE
      [] OTHER -> \E i \in DOMAIN p.items : HasTargetDimension(p.items[i])

\* attributes_target_gated
TargetGated(attrs) ==
    \E i \in DOMAIN attrs :
        LET a == attrs[i]
        IN  \/ a.meta \in {"cfg", "cfg_attr"} /\ HasTargetDimension(a.when)
            \/ /\ a.meta = "cfg_attr"
               /\ \E j \in DOMAIN a.nested : a.nested[j].meta = "cfg" /\ HasTargetDimension(a.nested[j].when)

\* cfg_evidence and combine_cfg_evidence
Evidence(inherited, attrs) == inherited \o SelectSeq(attrs, LAMBDA a : a.meta \in {"cfg", "cfg_attr"})

\* attribute_markers: the last name of the attribute's path.
Marker(a) == IF a.meta \in {"word", "qualified"} THEN a.name ELSE a.meta

ReflectionMarkers ==
    {"ctor", "inventory", "linkme", "reflect", "reflection", "register", "typetag", "used"}
PlainMarkers == {"allow", "cfg", "cfg_attr", "deny", "deprecated", "doc", "forbid", "path", "warn"}

\* module_reflection_reachable, module_framework_managed
ReflectionReachable(attrs) == \E i \in DOMAIN attrs : Marker(attrs[i]) \in ReflectionMarkers
FrameworkManaged(attrs) == \E i \in DOMAIN attrs : Marker(attrs[i]) \notin PlainMarkers

=============================================================================
