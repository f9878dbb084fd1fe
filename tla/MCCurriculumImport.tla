-------------------------- MODULE MCCurriculumImport --------------------------
(***************************************************************************)
(* Instances of CurriculumImport for TLC: a course of one module, and a    *)
(* course whose two modules change places.                                 *)
(***************************************************************************)
EXTENDS CurriculumImport, TLC

CONSTANTS o1, o2

Alike == Permutations({o1, o2})

NeedsOf == [diagram |-> {"image"}, image |-> {}]

Parents == [path |-> NoNode, course |-> "path", module |-> "course", other |-> "course",
            mission |-> "module", task |-> "other", skill |-> NoNode, basis |-> NoNode]
Kinds == [path |-> "learning_path", course |-> "course", module |-> "module",
          other |-> "module", mission |-> "mission", task |-> "mission",
          skill |-> "competency", basis |-> "competency"]
Places == [path |-> 0, course |-> 1, module |-> 1, other |-> 2, mission |-> 1, task |-> 1,
           skill |-> 0, basis |-> 0]
Texts == [n \in DOMAIN Parents |-> "first"]

\* One module; the second edition revises it and adds an edge and a rule.
Small == [nodes |-> <<"path", "course", "module", "mission", "skill", "basis">>,
          kind |-> Kinds, parent |-> Parents, text |-> Texts, place |-> Places,
          pieces |-> <<[mission |-> "mission", piece |-> "image", text |-> "first"],
                       [mission |-> "mission", piece |-> "diagram", text |-> "first"]>>,
          links |-> <<<<"mission", "skill">>, <<"mission", "basis">>>>,
          edges |-> <<>>, rules |-> <<>>]
SmallRevised ==
    [Small EXCEPT !.text["module"] = "second",
                  !.edges = <<<<"skill", "basis">>>>,
                  !.rules = <<[target |-> "mission", needs |-> "basis", text |-> "first"]>>]

\* Two modules; the second edition swaps them.
Pair == [nodes |-> <<"path", "course", "module", "other", "mission", "task", "skill">>,
         kind |-> Kinds, parent |-> Parents, text |-> Texts, place |-> Places,
         pieces |-> <<>>,
         links |-> <<<<"mission", "skill">>, <<"task", "skill">>>>,
         edges |-> <<>>, rules |-> <<>>]
PairSwapped == [Pair EXCEPT !.place["module"] = 2, !.place["other"] = 1]
=============================================================================
