-------------------------- MODULE MCMacroExpander ---------------------------
(* Small instances of the macro expander.                                  *)
EXTENDS MacroExpander

Func(name, arity, body) == [name |-> name, func |-> TRUE, arity |-> arity, body |-> body]
Obj(name, body) == [name |-> name, func |-> FALSE, arity |-> 0, body |-> body]

\* Identity, duplication, self-reference and two parameters in a function-like
\* macro; an object-like one that names itself or the other, opens an
\* invocation, or hides the defined operator.
FDefinitions == {Func("f", 1, <<"p">>), Func("f", 1, <<"p", "p">>),
                 Func("f", 1, <<"f", "(", "p", ")">>), Func("f", 2, <<"q", "p">>)}
ODefinitions == {Obj("o", <<"o">>), Obj("o", <<"f">>), Obj("o", <<"f", "(">>), Obj("o", <<"defined">>)}
MCDefinitions == FDefinitions \cup {Obj("o", <<"f">>)}
MCInitial == {<<f, o>> : f \in FDefinitions, o \in ODefinitions}
MCTokens == {"f", "o", "(", ")", "x", ",", "defined"}
MCText == MCTokens \cup {"p", "q", "nl"}
\* One macro of each kind.
TwoMacros == {<<Func("f", 1, <<"p">>), Obj("o", <<"f">>)>>}
=============================================================================
