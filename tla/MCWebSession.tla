----------------------------- MODULE MCWebSession -----------------------------
(* Small instances of WebSession for TLC. *)
EXTENDS WebSession, TLC

CONSTANTS ann, bob, cal, t1, t2, p, q, s1, s2, s3

\* Two administrators; a third account may be created.
Founders == [u \in User |-> IF u = cal THEN None ELSE "admin"]

\* Both are logged in, each in a browser.
Sessions == [s \in Sid |-> IF s = s1 THEN ann ELSE IF s = s2 THEN bob ELSE None]
Cookies == [t \in Tab |-> IF t = t1 THEN s1 ELSE s2]

\* Both work on the users, one of them on the own profile as well.
Habits == [t \in Tab |-> IF t = t1 THEN {"Users"} ELSE {"Users", "Profile"}]

Requests == Tab \X Slot
===============================================================================
