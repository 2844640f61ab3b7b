------------------------------ MODULE Namespace ------------------------------
(***************************************************************************)
(* What the symbol table promises the rest of the assembler, whatever list *)
(* it is kept in: a name has at most one meaning; declaring it again never *)
(* changes that meaning; .entry marks a name without giving it one; and    *)
(* when the sizes are known all data names move together, once.            *)
(***************************************************************************)
EXTENDS Integers

CONSTANT Names

VARIABLES
    bind,      \* what each name means so far
    exported,  \* the names other files may use
    moved      \* the data image has been placed behind the code

Unbound == [kind |-> "none", address |-> -1]

Binding == [kind : {"none", "code", "data", "extern"}, address : Int]

(* An address is known exactly for the names that have a meaning.          *)
TypeOK ==
    /\ bind \in [Names -> Binding]
    /\ \A n \in Names : (bind[n].kind = "none") <=> (bind[n].address = -1)
    /\ exported \subseteq Names
    /\ moved \in BOOLEAN

Init ==
    /\ bind = [n \in Names |-> Unbound]
    /\ exported = {}
    /\ moved = FALSE

OnlyBinds(n) ==
    /\ \A m \in Names \ {n} : bind'[m] = bind[m]
    /\ UNCHANGED <<exported, moved>>

(* A label on an instruction or on data: the first one gives the meaning.  *)
Define(n) ==
    /\ ~moved
    /\ bind[n] = Unbound
    /\ bind'[n].kind \in {"code", "data"}
    /\ bind'[n].address \in Nat
    /\ OnlyBinds(n)

(* .extern: the name stands for an address of another file, 0 in this one. *)
Import(n) ==
    /\ ~moved
    /\ bind[n] = Unbound /\ n \notin exported
    /\ bind'[n] = [kind |-> "extern", address |-> 0]
    /\ OnlyBinds(n)

(* .entry: legal before or after the name has a meaning.                   *)
Export(n) ==
    /\ ~moved
    /\ exported' = exported \cup {n}
    /\ UNCHANGED <<bind, moved>>

(* All data names move by the same distance; nothing else changes.         *)
Move ==
    /\ ~moved
    /\ moved' = TRUE
    /\ UNCHANGED exported
    /\ \A n \in Names :
         /\ bind'[n].kind = bind[n].kind
         /\ bind'[n].address >= bind[n].address
         /\ bind[n].kind # "data" => bind'[n] = bind[n]
    /\ \A m, n \in Names :
         bind[m].kind = "data" /\ bind[n].kind = "data" =>
           bind'[m].address - bind[m].address = bind'[n].address - bind[n].address

Next == Move \/ \E n \in Names : Define(n) \/ Import(n) \/ Export(n)

Spec == Init /\ [][Next]_<<bind, exported, moved>>
===============================================================================
