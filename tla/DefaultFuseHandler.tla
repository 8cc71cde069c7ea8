------------------------ MODULE DefaultFuseHandler ------------------------
(***************************************************************************)
(* The innermost handler (src/src/templates/default_fuse_handler.rs): what *)
(* no outer handler provides is refused, or panics when the handler was    *)
(* made with new_with_panic; directories open with handle 0, which stands  *)
(* for no descriptor.  Methods are sequences of system calls, as in UnixFs.*)
(***************************************************************************)
CONSTANT handling   \* "error" or "panic"

NotImplemented == IF handling = "panic" THEN <<"panic">> ELSE <<"refuse">>

bmap            == NotImplemented
copy_file_range == NotImplemented
create          == NotImplemented
fallocate       == NotImplemented
fsyncdir        == <<>>
getlk           == NotImplemented
ioctl           == NotImplemented
link            == NotImplemented
mkdir           == NotImplemented
mknod           == NotImplemented
opendir         == <<>>

(* Mutant: handle 0 is taken for a descriptor. *)
releasedirCloses == <<"close">>

releasedir      == <<>>
removexattr     == NotImplemented
rename          == NotImplemented
rmdir           == NotImplemented
setattr         == NotImplemented
setlk           == NotImplemented
setxattr        == NotImplemented
symlink         == NotImplemented
unlink          == NotImplemented
write           == NotImplemented
============================================================================
