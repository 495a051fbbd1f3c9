------------------------------- MODULE Config -------------------------------
(***************************************************************************)
(* The server's configuration (server/src/config.c): config_load reads a   *)
(* file line by line under the section header it saw last, fills the table *)
(* of users and the settings, and config_verify_user searches the table.   *)
(* Module Process runs it at the start of the server.                      *)
(*                                                                         *)
(* A line is a header, a setting `key = value', or a user                  *)
(* `name:password:perm'.  Blank lines and comments are skipped by the code *)
(* and are no lines here.  The code looks for a key first: of a user line  *)
(* with an equals sign it takes what stands behind the sign, which is a    *)
(* user if the sign is in the name, and none if it comes later.  What      *)
(* stands in the password's place is hashed, whatever it is; a client      *)
(* sends the sum of what was typed (client/src/protocolutil.cpp:84).       *)
(***************************************************************************)
EXTENDS Integers, FiniteSets, SequencesExt

CONSTANTS Names, Passwords,
          Keys,      \* the settings looked at
          MaxUsers,  \* MAX_USERS
          MaxLines   \* bound: lines of the file

ASSUME ConfigAssumption == MaxUsers \in Nat /\ MaxLines \in Nat

VARIABLES
    text,     \* history: the lines read so far
    section,  \* the last header's name
    users,    \* config->users, up to user_count
    settings  \* the other fields of config that are looked at

configVars == <<text, section, users, settings>>

Sections == {"server", "users", "paths", "transfer"}

\* The section config_load looks for a key in.
SectionOf(key) ==
    CASE key \in {"port", "max_connections", "timeout", "log_level"} -> "server"
      [] key \in {"root_dir", "upload_dir", "log_dir"} -> "paths"
      [] OTHER -> "transfer"

\* md5_hex_string, taken to be free of collisions.
Md5Hex(f) == <<"md5", f>>

\* What may stand in a password's place: a password, or the sum of one, as
\* server/README.md:128-136 has it.
Fields == Passwords \cup {Md5Hex(p) : p \in Passwords}

User == [name : Names, password : {Md5Hex(f) : f \in Fields}, perm : {"none", "ro", "rw"}]

\* `equals' is the place of an equals sign: none, in the name (which then is what stands
\* behind the sign), or later.
Lines == [header : Sections] \cup [key : Keys]
             \cup [name : Names, password : Fields, perm : {"rw", "rw # note"},
                   equals : {"none", "name", "later"}]

IsHeader(l)  == "header" \in DOMAIN l
IsSetting(l) == "key" \in DOMAIN l
IsUser(l)    == "name" \in DOMAIN l

ConfigInit ==
    /\ text = <<>> /\ section = ""
    /\ users = <<>> /\ settings = [k \in Keys |-> "default"]

(* The definitions named ..._Bug are mistakes of the kind each property is to
   find; no behaviour of the specification uses them. *)

\* A word that is none of the two is kept.
ParsePermission_Bug(perm) == perm

\* parse_permission: anything but the two words gives no permission, a word with a
\* remark behind it as well.
ParsePermission(perm) == IF perm \in {"ro", "rw"} THEN perm ELSE "none"

\* A line without an equals sign in [transfer] is compared with a null key.
Crashes(l) == section = "transfer" /\ IsUser(l) /\ l.equals = "none"

\* The section is left in force only for the line behind it.
ReadLine_Bug(l) ==
    /\ text' = Append(text, l)
    /\ section' = IF IsHeader(l) THEN l.header ELSE ""
    /\ users' = IF IsUser(l) /\ section = "users" /\ l.equals # "later" /\ Len(users) < MaxUsers
                THEN Append(users, [name |-> l.name, password |-> Md5Hex(l.password),
                                    perm |-> ParsePermission(l.perm)])
                ELSE users
    /\ settings' = [k \in Keys |->
           IF IsSetting(l) /\ l.key = k /\ section = SectionOf(k) THEN "given" ELSE settings[k]]

\* A round of the loop in config_load.  A user that is cut, or for whom the table
\* has no room, is left out without a word.
ReadLine(l) ==
    /\ text' = Append(text, l)
    /\ section' = IF IsHeader(l) THEN l.header ELSE section
    /\ users' = IF IsUser(l) /\ section = "users" /\ l.equals # "later" /\ Len(users) < MaxUsers
                THEN Append(users, [name |-> l.name, password |-> Md5Hex(l.password),
                                    perm |-> ParsePermission(l.perm)])
                ELSE users
    /\ settings' = [k \in Keys |->
           IF IsSetting(l) /\ l.key = k /\ section = SectionOf(k) THEN "given" ELSE settings[k]]

\* config_verify_user: the permission of the first entry that matches, or a failure;
\* sum is what the client sends.
VerifyUser(n, sum) ==
    LET match == {i \in DOMAIN users : users[i].name = n /\ users[i].password = sum}
    IN  IF match = {} THEN "fails" ELSE users[Min(match)].perm

-----------------------------------------------------------------------------
(* What a file says, without a loop *)

\* Line i stands under the last header before it.
Under(i, s) ==
    \E h \in 1..i - 1 :
        /\ IsHeader(text[h]) /\ text[h].header = s
        /\ \A j \in h + 1..i - 1 : ~IsHeader(text[j])

\* The lines that name a user, those that come early enough, and those of them that have
\* the name n and, in the password's place, f.
UserLines  == {i \in DOMAIN text :
                  IsUser(text[i]) /\ text[i].equals # "later" /\ Under(i, "users")}
Admitted   == {i \in UserLines : Cardinality({j \in UserLines : j < i}) < MaxUsers}
Naming(n, f) == {i \in Admitted : text[i].name = n /\ text[i].password = f}

\* Whoever may log in, and with which permission, and every setting, is as the file
\* says: a user who types what stands in the password's place of a line under a [users]
\* header that names him, unless the table was full by then, and nobody else (if an MD5
\* sum stands there, the one who types that sum); of several such lines the first counts;
\* a setting by any line under the header it belongs to.
ConfigAsWritten ==
    /\ \A n \in Names, f \in Fields :
          VerifyUser(n, Md5Hex(f)) = IF Naming(n, f) = {} THEN "fails"
                                     ELSE ParsePermission(text[Min(Naming(n, f))].perm)
    /\ \A k \in Keys :
          settings[k] = "given" <=>
              \E i \in DOMAIN text : IsSetting(text[i]) /\ text[i].key = k /\ Under(i, SectionOf(k))
=============================================================================
