------------------------------ MODULE MirrorFs ------------------------------
(***************************************************************************)
(* MirrorFs and MirrorFsReadOnly (src/src/templates/mirror_fs.rs) on top   *)
(* of FdHandlerHelper (fd_handler_helper.rs) on top of DefaultFuseHandler: *)
(* each method as the system calls it makes.  A method that one layer does *)
(* not have is forwarded to the next (src/src/fuse_handler.rs).            *)
(***************************************************************************)
EXTENDS Sequences

CONSTANT handling
VARIABLE readonly   \* is it a MirrorFsReadOnly?

unix_fs == INSTANCE UnixFs
inner == INSTANCE DefaultFuseHandler

(* The methods that the read-only variants do not provide. *)
ReadWrite(calls, forwarded) == IF readonly THEN forwarded ELSE calls

access    == unix_fs!access

(* Mutant: the descriptor opened for fstat is not dropped. *)
getattrLeaks == unix_fs!open \o unix_fs!getattr

(* The handle is not used: the path is opened, and closed by the drop. *)
getattr   == unix_fs!open \o unix_fs!getattr \o <<"close">>

getxattr  == unix_fs!getxattr
listxattr == unix_fs!listxattr
lookup    == unix_fs!lookup
open      == unix_fs!open
readdir   == unix_fs!readdir
readlink  == unix_fs!readlink
statfs    == unix_fs!statfs

create      == ReadWrite(unix_fs!create, inner!create)
mkdir       == ReadWrite(unix_fs!mkdir, inner!mkdir)
mknod       == ReadWrite(unix_fs!mknod, inner!mknod)
removexattr == ReadWrite(unix_fs!removexattr, inner!removexattr)
rename      == ReadWrite(unix_fs!rename, inner!rename)
rmdir       == ReadWrite(unix_fs!rmdir, inner!rmdir)

(* Mutant: the read-only variant has it too. *)
setattrAlways(set) == unix_fs!setattr(set)

setattr(set) == ReadWrite(unix_fs!setattr(set), inner!setattr)
setxattr    == ReadWrite(unix_fs!setxattr, inner!setxattr)
symlink     == ReadWrite(unix_fs!symlink, inner!symlink)
unlink      == ReadWrite(unix_fs!unlink, inner!unlink)

(* FdHandlerHelper: the handle is a descriptor. *)
flush       == unix_fs!flush
fsync       == unix_fs!fsync
lseek       == unix_fs!lseek
read(from)  == unix_fs!read(from)
release     == unix_fs!release
copy_file_range == ReadWrite(unix_fs!copy_file_range, inner!copy_file_range)
fallocate   == ReadWrite(unix_fs!fallocate, inner!fallocate)
write(from) == ReadWrite(unix_fs!write(from), inner!write)

(* The default of the trait: a listing, then a lookup of every name. *)
readdirplus == readdir \o lookup

(* Forwarded to the innermost handler. *)
bmap       == inner!bmap
fsyncdir   == inner!fsyncdir
getlk      == inner!getlk
ioctl      == inner!ioctl
link       == inner!link
opendir    == inner!opendir
releasedir == inner!releasedir
setlk      == inner!setlk
==============================================================================
