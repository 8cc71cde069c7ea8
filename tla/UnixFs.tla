------------------------------- MODULE UnixFs -------------------------------
(***************************************************************************)
(* The functions of src/src/unix_fs.rs and unix_fs/linux_fs.rs, each as    *)
(* the sequence of system calls it makes when all of them succeed.  The    *)
(* first call that fails ends the sequence with an error, after a          *)
(* descriptor the function opened itself is closed.                        *)
(*                                                                         *)
(* Some calls stand for several: "look" reads by path (readlink, access,   *)
(* getxattr, listxattr, statvfs), "mark" is setxattr and removexattr,      *)
(* "make" is mknod, mkdir and symlink, "pread" also fdatasync and fsync,   *)
(* "pwrite" also fallocate and copy_file_range, and "refuse" is an error   *)
(* with no call.                                                           *)
(***************************************************************************)
EXTENDS Sequences

When(b, calls) == IF b THEN calls ELSE <<>>

lookup  == <<"lstat">>
getattr == <<"fstat">>
open    == <<"open">>

(* Mutant: the owner is set only when the mode is not. *)
setattrOneOf(set) ==
  When("mode" \in set, <<"chmod">>)
    \o When("owner" \in set /\ "mode" \notin set, <<"chown">>)
    \o When("size" \in set, <<"open", "ftruncate", "close">>)
    \o When({"atime", "mtime"} \subseteq set, <<"utimensat">>)
    \o lookup

(* The times are set only when both are given; one given as "now" and the
   other as a value is refused, after the changes before it. *)
setattr(set) ==
  When("mode" \in set, <<"chmod">>)
    \o When("owner" \in set, <<"chown">>)
    \o When("size" \in set, <<"open", "ftruncate", "close">>)
    \o When({"atime", "mtime"} \subseteq set,
            IF "mixed" \in set THEN <<"refuse">> ELSE <<"utimensat">>)
    \o lookup

readlink == <<"look">>
mknod    == <<"make">> \o lookup
mkdir    == <<"make">> \o lookup
symlink  == <<"make">> \o lookup
unlink   == <<"unlink">>
rmdir    == <<"rmdir">>
rename   == <<"rename">>

(* A position relative to the end or to the current one is asked of lseek,
   which for the end also moves it. *)
Seek(from) == When(from # "start", <<"lseek">>)
read(from)  == Seek(from) \o <<"pread">>
write(from) == Seek(from) \o <<"pwrite">>
lseek       == <<"lseek">>

flush           == <<"pread">>
fsync           == <<"pread">>
fallocate       == <<"pwrite">>
copy_file_range == <<"pwrite">>

(* An lstat per name; one that fails ends the whole listing. *)
readdir == <<"open", "getdents", "close">>

release     == <<"close">>
setxattr    == <<"mark">>
removexattr == <<"mark">>
getxattr    == <<"look">>
listxattr   == <<"look">>
access      == <<"look">>
statfs      == <<"look">>
create      == <<"creat">> \o lookup
==============================================================================
