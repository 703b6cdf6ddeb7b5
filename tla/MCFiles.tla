------------------------------ MODULE MCFiles -------------------------------
(***************************************************************************)
(* Files for TLC: what the processes ask for.  At the start the root holds *)
(* directory a, and a holds file b.                                        *)
(***************************************************************************)
EXTENDS Files

Dir == <<"a">>
File == <<"a", "/", "b">>
Other == <<"b">>
Absolute == <<"/", "b">>
None == <<>>

Requested ==
  {<<"open", File, None>>, <<"open", Absolute, None>>, <<"mkdir", File, None>>}
  \cup {"creat", "unlink"} \X {File, Other} \X {None}
  \cup {<<"unlink", Dir, None>>, <<"trunc", Other, None>>,
        <<"chdir", Dir, None>>, <<"chdir", <<"..">>, None>>,
        <<"symlink", Other, Other>>, <<"symlink", Other, <<"/", "a">>>>,
        <<"link", File, Other>>}
=============================================================================
