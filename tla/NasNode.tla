------------------------------ MODULE NasNode ------------------------------
(* The node service of the NAS driver (pkg/driver/nas/nodeserver.go): an   *)
(* NFS directory is mounted at the target path itself, with no lock.  Not  *)
(* modelled: the making of a directory a static volume's export lacks.     *)
EXTENDS NodeHost

NasLocation == {"idle", "ret", "apCheck", "apMount", "apVerify", "apRollback", "anCheck", "anUmount"}

Continue(p, to) == Goto(p, to) /\ UNCHANGED host
Refuse(p) == Return(p, "err") /\ UNCHANGED host
Succeed(p) == Return(p, "ok") /\ UNCHANGED host

MountNFS(t) ==
    /\ Len(binds[t]) < MaxBinds
    /\ binds' = [binds EXCEPT ![t] = Append(@, "disk")]
    /\ UNCHANGED <<staged, fs, recorded>>

(* The options are parsed, the server reached, the mounts read.            *)
PublishCheck(p) ==
    /\ pc[p] = "apCheck"
    /\ \/ Refuse(p)
       \/ Bound(targetOf(p)) /\ Succeed(p)
       \/ ~ Bound(targetOf(p)) /\ Continue(p, "apMount")

mountNasVolume(p) ==
    /\ pc[p] = "apMount"
    /\ \/ Refuse(p)
       \/ MountNFS(targetOf(p)) /\ Goto(p, "apVerify")

(* The mount is looked for, and its mode changed.                          *)
PublishVerify(p) ==
    /\ pc[p] = "apVerify"
    /\ \/ Bound(targetOf(p)) /\ Succeed(p)
       \/ Continue(p, "apRollback")

(* The failure of the umount is ignored.                                   *)
PublishRollback(p) ==
    /\ pc[p] = "apRollback"
    /\ \/ Refuse(p)
       \/ UnbindMount(targetOf(p)) /\ Return(p, "err")

NodePublishVolume(p) ==
    PublishCheck(p) \/ mountNasVolume(p) \/ PublishVerify(p) \/ PublishRollback(p)

UnpublishCheck(p) ==
    /\ pc[p] = "anCheck"
    /\ \/ Refuse(p)
       \/ ~ Bound(targetOf(p)) /\ Succeed(p)
       \/ Bound(targetOf(p)) /\ Continue(p, "anUmount")

(* Fault: a umount that fails is taken for one that found nothing mounted. *)
UnmountIgnored(p) ==
    /\ pc[p] = "anUmount"
    /\ \/ Succeed(p)
       \/ UnbindMount(targetOf(p)) /\ Return(p, "ok")

UnpublishUmount(p) ==
    /\ pc[p] = "anUmount"
    /\ \/ Refuse(p)
       \/ UnbindMount(targetOf(p)) /\ Return(p, "ok")

NodeUnpublishVolume(p) == UnpublishCheck(p) \/ UnpublishUmount(p)

Handle(p) == NodePublishVolume(p) \/ NodeUnpublishVolume(p)

Publish(p, t) == Call(p, "publish", volumeOf[t], t, "apCheck")
Unpublish(p, t) == Call(p, "unpublish", volumeOf[t], t, "anCheck")
=============================================================================
