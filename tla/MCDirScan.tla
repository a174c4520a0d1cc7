----------------------------- MODULE MCDirScan -----------------------------
(***************************************************************************)
(* A small disk for DirScan: the drive c has four top directories, one of  *)
(* them of the system and one of programs, and two levels below one of     *)
(* them; the drive e is empty.                                             *)
(***************************************************************************)
EXTENDS DirScan

CONSTANTS a, b, c, e, p, s   \* names, model values

MCNames == {a, b, c, e, p, s}
MCDisk  == {<<c>>, <<e>>, <<c, a>>, <<c, b>>, <<c, p>>, <<c, s>>,
            <<c, a, a>>, <<c, a, b>>, <<c, a, a, b>>}
MCHome     == <<c, a, b>>
MCSystem   == {<<c, s>>}
MCPrograms == {<<c, p>>}

\* Files: pictures, pictures and one other file, too few pictures, pictures of
\* a suffix that is not searched.
JPG == <<".", "j", "p", "g">>
TXT == <<".", "t", "x", "t">>
PNG == <<".", "p", "n", "g">>
Many(n, suffix) == [i \in 1 .. n |-> suffix]

MCFiles ==
  {[d \in MCDisk |->
      CASE d \in {<<c>>, <<e>>} -> <<>>
        [] d = <<c, a>> -> Many(10, JPG) \o <<TXT>>
        [] d = <<c, b>> -> Many(5, JPG) \o <<NO_SUFFIX, <<".", "j">> >>
        [] d = <<c, a, b>> -> Many(6, PNG)
        [] OTHER -> Many(6, JPG)]}

MCUnlisted   == {{}, {<<c, a, a>>}}
MCNoneBarred == {{}}
MCBarred     == {{}, {<<c, a, b>>}, {<<c, a>>, <<c, b>>}, {<<e>>}}

\* Links, one of them to a directory that is gone; folders, one of them below
\* another one or linked to as well; ignored folders.
From1(source, s1) == [i \in DOMAIN s1 |-> <<source, s1[i]>>]
MCLinks   == {<<>>, << <<c, a, a>> >>, << <<e, a>>, <<c, p>> >>}
MCFolders == {<< <<c, a, a, b>> >>, << <<c, a>>, <<c, a, a>> >>, << <<c, a, a>>, <<c, a>> >>}
MCIgnored == {<<>>, << <<c, a, a>> >>}
MCRoots ==
  {From1("link", l) \o From1("folder", f) \o From1("ignore", g) \o From1("drive", << <<c>>, <<e>> >>) :
     l \in MCLinks, f \in MCFolders, g \in MCIgnored}
=============================================================================
