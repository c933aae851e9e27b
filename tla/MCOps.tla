------------------------------- MODULE MCOps -------------------------------
(* Two of the bench tasks: ops-wipe-deploy and ops-meteo-config. *)
EXTENDS Ops

Wipe == [kind |-> "wipe_flash"]
Flash == [kind |-> "flash_asset"]
Deploy(f, a) == [kind |-> "deploy_file", file |-> f, asset |-> a]
RemoveFile(f) == [kind |-> "remove_file", file |-> f]
Boot == [kind |-> "boot_expect"]
Golden(f) == [kind |-> "device_file", file |-> f, asset |-> "good"]

WipeDeploy == [setup |-> <<Wipe>>, judge |-> <<Boot>>,
               restore |-> <<Flash, Deploy("main", "good")>>]
(* "extra" is /config.py: "bad" names station METEO-R1, "good" METEO-R2. *)
MeteoConfig == [setup |-> <<Deploy("extra", "bad"), Deploy("main", "good")>>,
                judge |-> <<Boot, Golden("extra"), Golden("main")>>,
                restore |-> <<Deploy("main", "good"), RemoveFile("extra")>>]
BenchTasks == {WipeDeploy, MeteoConfig}
=============================================================================
