--------------------------- MODULE MCColumnMapping ---------------------------
(* Model-checking instances of ColumnMapping.                              *)
EXTENDS ColumnMapping, TLC

CONSTANTS age, email

Header(name, text, upper) == [name |-> <<name>>, text |-> text, upper |-> upper]
Age == Header(age, "age", TRUE)
age0 == Header(age, "age", FALSE)
AgeBang == Header(age, "age!", FALSE)
Age2 == [name |-> <<age, 2>>, text |-> "age 2", upper |-> FALSE]

\* Two spellings and two orders of one shape, and a file with one column more;
\* three headers of one name.
SomeFiles == {<<Age, Age2>>, <<Age2, age0>>, <<age0, Age, Age2>>, <<age0, Age, AgeBang>>}
SomeTargets == {<<age>>, <<age, 2>>, <<email>>}
=============================================================================
