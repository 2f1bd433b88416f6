--------------------------- MODULE PasswordPolicy ---------------------------
(***************************************************************************)
(* The password policy, which the page and the backend each implement:     *)
(* lib/password-policy.ts and internal/password/argon2.go.  A password is  *)
(* its length, in the UTF-16 units of JavaScript and in the runes of Go,   *)
(* and the classes of characters it has.                                   *)
(***************************************************************************)
EXTENDS Integers, FiniteSets

Classes == {"lowercase", "uppercase", "digit", "special"}
Rules   == Classes \cup {"minLength"}
Password == [units : 0..20, runes : 0..20, has : SUBSET Classes]
NoPassword == [units |-> 0, runes |-> 0, has |-> {}]

\* Mutant: one less is long enough.
CheckPasswordRulesShort(pwd) == pwd.has \cup (IF pwd.units >= 7 THEN {"minLength"} ELSE {})
\* checkPasswordRules: the rules that are met.
CheckPasswordRules(pwd) == pwd.has \cup (IF pwd.units >= 8 THEN {"minLength"} ELSE {})

IsPasswordValid(rules) == Rules \subseteq rules

PasswordStrength(pwd, rules) ==
    LET met == Cardinality(rules)
    IN  CASE pwd.units = 0 -> 0
          [] pwd.units > 0 /\ met <= 2 -> 1
          [] met \in {3, 4} -> met - 1
          [] met = 5 -> IF pwd.units >= 12 THEN 4 ELSE 3

\* validatePassword: the rules it complains of; it stops at the first.
ValidatePassword(pwd) == Rules \ CheckPasswordRules(pwd)

\* PasswordField: the bars of the meter and the unmet rules in the list.
Hints(pwd) == [bars  |-> PasswordStrength(pwd, CheckPasswordRules(pwd)),
               unmet |-> IF pwd.units = 0 THEN {} ELSE Rules \ CheckPasswordRules(pwd)]

\* generateSecurePassword: one of each class, filled up and shuffled.
GenerateSecurePassword == [units |-> 16, runes |-> 16, has |-> Classes]

\* password.Validate of the backend.
Validate(pwd) == pwd.runes >= 8 /\ pwd.has = Classes
=============================================================================
