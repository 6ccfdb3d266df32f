------------------------------ MODULE SymScopes ------------------------------
(* The scopes of the compiler (tccgen.c).  A name's token points to its       *)
(* newest visible symbol, each symbol to the one it hides (prev_tok); the     *)
(* local stack says which to unlink when a scope ends.  Global symbols are    *)
(* put below the local ones of their name.  Where a statement expression or a *)
(* prototype ends, symbols are unlinked and stay on the stack, for the types  *)
(* and values that still refer to them.                                       *)
EXTENDS Naturals, Sequences, FiniteSets

CONSTANTS
    Names,      \* identifiers
    MaxSyms,    \* bound: symbols that exist at once
    MaxScopes,  \* bound: nesting of scopes
    Discipline  \* "apart": no global symbol is made under the name of a symbol
                \* that is unlinked and not yet popped

Syms == 1 .. MaxSyms
Null == 0
NoName == "none"

VARIABLES
    sym,        \* sym[s]: [v, prevTok, scope]
    token,      \* token[n]: sym_identifier
    locals,     \* local_stack, the newest symbol last
    scopes,     \* open scopes: [kind, lstk], local_stack when it began
    error,      \* a redeclaration was reported
    env,        \* history: env[d][n], what the d-th open scope declares
    twice,      \* history: a name was declared twice in a scope
    values      \* history: [s, scope], symbols to which a value of that scope refers

vars == <<sym, token, locals, scopes, error, env, twice, values>>

Freed == [v |-> NoName, prevTok |-> Null, scope |-> 0]
Nothing == [n \in Names |-> Null]

Init ==
    /\ sym = [s \in Syms |-> Freed] /\ token = Nothing
    /\ locals = <<>> /\ scopes = <<>> /\ error = FALSE
    /\ env = <<Nothing>> /\ twice = FALSE /\ values = {}

-----------------------------------------------------------------------------
(* local_scope: 0 in the file, 1 for parameters and the body.                 *)
Scope == Len(scopes)
Top == Len(env)

(* sym_malloc: the free symbols are alike.                                    *)
Fresh == CHOOSE s \in Syms : sym[s].v = NoName
Room == \E s \in Syms : sym[s].v = NoName

(* sym_push in a function, and the copy of a global symbol there.             *)
Pushed(s, n) ==
    /\ sym' = [sym EXCEPT ![s] = [v |-> n, prevTok |-> token[n], scope |-> Scope]]
    /\ token' = [token EXCEPT ![n] = s]
    /\ locals' = Append(locals, s)

(* The symbols of a name, the newest first, end with the global one.          *)
GlobalOf(n) ==
    LET from[s \in 0 .. MaxSyms] ==
          IF s = Null \/ sym[s].scope = 0 THEN s ELSE from[sym[s].prevTok] IN
    from[token[n]]

LowestLocal(n) ==
    LET from[s \in Syms] ==
          IF sym[s].prevTok = GlobalOf(n) THEN s ELSE from[sym[s].prevTok] IN
    from[token[n]]

Apart(n) ==
    "apart" \in Discipline =>
        \A i \in DOMAIN locals : sym[locals[i]].v = n =>
            \E d \in 2 .. Top : env[d][n] = locals[i]

(* Mutant: the global symbol hides the local ones.                            *)
GlobalPushedOnTop(s, n) ==
    <<[sym EXCEPT ![s] = [v |-> n, prevTok |-> token[n], scope |-> 0]],
      [token EXCEPT ![n] = s]>>

(* global_identifier_push: the symbols and the tokens with s below the locals.*)
GlobalPushed(s, n) ==
    LET new == [sym EXCEPT ![s] = [v |-> n, prevTok |-> GlobalOf(n), scope |-> 0]] IN
    IF token[n] = GlobalOf(n)
    THEN <<new, [token EXCEPT ![n] = s]>>
    ELSE <<[new EXCEPT ![LowestLocal(n)].prevTok = s], token>>

(* Mutant: what a name hid is the newest symbol of the stack that is left.    *)
RestoredFromStack(n, k) ==
    LET left == {i \in 1 .. k : sym[locals[i]].v = n} IN
    IF left = {} THEN GlobalOf(n)
    ELSE locals[CHOOSE i \in left : \A j \in left : j <= i]

(* sym_pop: what n stands for after the symbols above the k-th were unlinked, *)
(* from the top down.                                                         *)
Restored(n, k) ==
    LET out == {i \in (k + 1) .. Len(locals) : sym[locals[i]].v = n} IN
    IF out = {} THEN token[n]
    ELSE sym[locals[CHOOSE i \in out : \A j \in out : i <= j]].prevTok

Above(k) == {locals[i] : i \in (k + 1) .. Len(locals)}

Popped(k) ==
    /\ token' = [n \in Names |-> Restored(n, k)]
    /\ sym' = [s \in Syms |-> IF s \in Above(k) THEN Freed ELSE sym[s]]
    /\ locals' = SubSeq(locals, 1, k)

-----------------------------------------------------------------------------
(* A declaration in a function; the newest of a scope counts.                 *)
Declare(n) ==
    /\ Scope > 0 /\ Room
    /\ Pushed(Fresh, n)
    /\ error' = (token[n] # Null /\ sym[token[n]].scope = Scope)
    /\ twice' = (env[Top][n] # Null)
    /\ env' = [env EXCEPT ![Top][n] = Fresh]
    /\ UNCHANGED <<scopes, values>>

(* A declaration in the file, or the call of a name that is not declared:     *)
(* external_sym and external_global_sym.                                      *)
DeclareGlobal(n) ==
    /\ Scope = 0 \/ token[n] = Null
    /\ GlobalOf(n) = Null /\ Room /\ Apart(n)
    /\ LET made == GlobalPushed(Fresh, n) IN sym' = made[1] /\ token' = made[2]
    /\ env' = [env EXCEPT ![1][n] = Fresh]
    /\ UNCHANGED <<locals, scopes, error, twice, values>>

(* "extern" in a function: external_sym finds or makes the global symbol and  *)
(* puts a copy into the scope, also beside a local symbol of the name.        *)
ExternFound(n) ==
    /\ Scope > 0 /\ GlobalOf(n) # Null /\ Room
    /\ Pushed(Fresh, n)
    /\ env' = [env EXCEPT ![Top][n] = Fresh]
    /\ UNCHANGED <<scopes, error, twice, values>>

ExternMade(n) ==
    /\ Scope > 0 /\ GlobalOf(n) = Null /\ Apart(n)
    /\ \E g, c \in Syms :
         /\ sym[g].v = NoName /\ sym[c].v = NoName /\ g < c
         /\ LET made == GlobalPushed(g, n) IN
            /\ sym' = [made[1] EXCEPT
                 ![c] = [v |-> n, prevTok |-> made[2][n], scope |-> Scope]]
            /\ token' = [made[2] EXCEPT ![n] = c]
         /\ locals' = Append(locals, c)
         /\ env' = [env EXCEPT ![1][n] = g, ![Top][n] = c]
    /\ UNCHANGED <<scopes, error, twice, values>>

(* A declarator with a parameter n: the symbol is visible to the parameters   *)
(* that follow, then unlinked, and stays for the type.                        *)
Prototype(n) ==
    /\ Scope > 0 /\ Room
    /\ sym' = [sym EXCEPT ![Fresh] = [v |-> n, prevTok |-> token[n], scope |-> Scope + 1]]
    /\ locals' = Append(locals, Fresh)
    /\ values' = values \cup {[s |-> Fresh, scope |-> Scope]}
    /\ UNCHANGED <<token, scopes, error, env, twice>>

-----------------------------------------------------------------------------
(* gen_function: the parameters are in the scope of the body.                 *)
BeginFunction(params) ==
    /\ Scope = 0
    /\ scopes' = <<[kind |-> "body", lstk |-> 0]>>
    /\ IF params = {}
       THEN UNCHANGED <<sym, token, locals>> /\ env' = Append(env, Nothing)
       ELSE /\ Room
            /\ LET n == CHOOSE p \in params : TRUE IN
               /\ sym' = [sym EXCEPT ![Fresh] =
                            [v |-> n, prevTok |-> token[n], scope |-> 1]]
               /\ token' = [token EXCEPT ![n] = Fresh]
               /\ env' = Append(env, [Nothing EXCEPT ![n] = Fresh])
            /\ locals' = <<Fresh>>
    /\ UNCHANGED <<error, twice, values>>

EndFunction ==
    /\ Scope = 1
    /\ Popped(0)
    /\ scopes' = <<>> /\ env' = <<env[1]>> /\ values' = {}
    /\ UNCHANGED <<error, twice>>

(* new_scope, for a block or for a statement expression.                      *)
NewScope(kind) ==
    /\ Scope \in 1 .. (MaxScopes - 1)
    /\ scopes' = Append(scopes, [kind |-> kind, lstk |-> Len(locals)])
    /\ env' = Append(env, Nothing)
    /\ UNCHANGED <<sym, token, locals, error, twice, values>>

Left == [scopes |-> SubSeq(scopes, 1, Scope - 1), env |-> SubSeq(env, 1, Top - 1)]

PrevScope ==
    /\ Scope > 1 /\ scopes[Scope].kind = "block"
    /\ Popped(scopes[Scope].lstk)
    /\ scopes' = Left.scopes /\ env' = Left.env
    /\ values' = {v \in values : v.scope < Scope}
    /\ UNCHANGED <<error, twice>>

Refers == {[s |-> s, scope |-> Scope - 1] : s \in Above(scopes[Scope].lstk)}

(* Mutant: the symbols are popped at once.                                    *)
PrevScopeExprFrees ==
    /\ Scope > 1 /\ scopes[Scope].kind = "expr"
    /\ Popped(scopes[Scope].lstk)
    /\ scopes' = Left.scopes /\ env' = Left.env
    /\ values' = {v \in values : v.scope < Scope} \cup Refers
    /\ UNCHANGED <<error, twice>>

(* Mutant: the symbols stay visible.                                          *)
PrevScopeExprLinked ==
    /\ Scope > 1 /\ scopes[Scope].kind = "expr"
    /\ scopes' = Left.scopes /\ env' = Left.env
    /\ values' = {v \in values : v.scope < Scope} \cup Refers
    /\ UNCHANGED <<sym, token, locals, error, twice>>

(* The value of a statement expression may refer to any symbol of its scope.  *)
PrevScopeExpr ==
    /\ Scope > 1 /\ scopes[Scope].kind = "expr"
    /\ token' = [n \in Names |-> Restored(n, scopes[Scope].lstk)]
    /\ scopes' = Left.scopes /\ env' = Left.env
    /\ values' = {v \in values : v.scope < Scope} \cup Refers
    /\ UNCHANGED <<sym, locals, error, twice>>

Next ==
    /\ ~ error /\ ~ twice
    /\ \/ \E n \in Names :
            \/ Declare(n) \/ DeclareGlobal(n) \/ ExternFound(n) \/ ExternMade(n)
            \/ Prototype(n) \/ BeginFunction({n})
       \/ BeginFunction({}) \/ EndFunction \/ PrevScope \/ PrevScopeExpr
       \/ \E kind \in {"block", "expr"} : NewScope(kind)

Spec == Init /\ [][Next]_vars

-----------------------------------------------------------------------------
(* Properties.                                                                *)

TypeOK ==
    /\ sym \in [Syms -> [v : Names \cup {NoName}, prevTok : 0 .. MaxSyms,
                         scope : 0 .. (MaxScopes + 1)]]
    /\ token \in [Names -> 0 .. MaxSyms]
    /\ \A i \in DOMAIN locals : locals[i] \in Syms
    /\ \A d \in DOMAIN scopes : scopes[d].lstk <= Len(locals)
    /\ Top = Scope + 1

(* What the innermost scope that declares n declares it as.                   *)
Innermost(n) ==
    LET declaring == {d \in 1 .. Top : env[d][n] # Null} IN
    IF declaring = {} THEN Null
    ELSE env[CHOOSE d \in declaring : \A e \in declaring : e <= d][n]

(* A name stands for its declaration in the innermost scope that has one, and *)
(* for none outside of those scopes, although symbols are unlinked twice and  *)
(* global ones are slipped in below the local ones.                           *)
LooksUpInnermost == \A n \in Names : token[n] = Innermost(n)

(* A redeclaration is reported when there is one, and only then: the scope of *)
(* the symbol that is hidden tells, not the name's nesting.                   *)
ReportsRedeclared == error = twice

(* A symbol to which the value of a statement expression or a type may refer  *)
(* is not freed, nor used again, while the scope around it is open.           *)
ValuesKeepTheirSymbols ==
    \A v \in values : \E i \in DOMAIN locals : locals[i] = v.s

ScopesSound == TypeOK /\ LooksUpInnermost /\ ReportsRedeclared /\ ValuesKeepTheirSymbols
=============================================================================
