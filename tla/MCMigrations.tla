------------------------------ MODULE MCMigrations ------------------------------
(***************************************************************************)
(* TLC instances of Migrations: plans whose goals are bullets, a numbered  *)
(* list with blank lines, a JSON list, and lists.                          *)
(***************************************************************************)
EXTENDS Migrations

ThreeTexts ==
    {Goals("text", << <<"-", "a", "b">>, <<>>, <<"-", "1.", "c">>, <<"-">> >>),
     Goals("json", << <<"1.", "a">>, <<"b">> >>),
     Goals("list", << <<"a">>, <<"-", "1.", "b", "c">> >>)}
=================================================================================
