----------------------------- MODULE MCMarketplace -----------------------------
(* The marketplace of a hobby thermostat: two developers, one of whom the  *)
(* installer trusts, and one registry service that demands conformance.    *)
EXTENDS Marketplace

CONSTANTS server, alice, bob, carol

TheLowerSnake == {"thermo", "temperature_sensor", "hvac", "heating", "off"}
ThePackageNames == {"thermo"}
TheDotted == [thermo |-> "thermo"]
DriverPath == <<"driver", "main.c">>
TheFileOrder == (DEVICE_MANIFEST_FILE :> 1) @@ (DriverPath :> 2)
TrustFirstKey == [i \in Installers |-> {1}]

Temperature == [key |-> "temperature_sensor", kind |-> "sensor", unit |-> "celsius",
                range |-> {[min |-> -20, max |-> 50]}]
Hvac(modes) == [key |-> "hvac", kind |-> "actuator", modes |-> modes]

Thermostat(capabilities) ==
    [yaml |-> TRUE, broken |-> {}, name |-> "thermo", category |-> "thermostat",
     manufacturer |-> "", capabilities |-> capabilities, protocols |-> <<"matter">>,
     battery |-> {}, encryption |-> TRUE]

Descriptor(version) == [name |-> "thermo", version |-> version]

Project(version, manifest, driver) ==
    [descriptor |-> Descriptor(version), manifest |-> manifest, listed |-> {DriverPath},
     texts |-> (DriverPath :> driver)]

Good == Thermostat(<<Temperature, Hvac(<<"heating", "off">>)>>)

TheProjects ==
    {Project(<<1, 9, 0>>, Good, "plain"),
     Project(<<1, 9, 0>>, Good, "tuned"),
     Project(<<1, 10, 0>>, Thermostat(<<Hvac(<<"off">>), Temperature>>), "plain"),
     Project(<<1, 10, 0>>, Thermostat(<<Hvac(<<"heating">>), Temperature>>), "plain"),
     [Project(<<1, 9, 0>>, Thermostat(<<Hvac(<<>>)>>), "plain") EXCEPT !.listed = {}],
     [Project(<<1, 9, 0>>, Good, "plain") EXCEPT !.listed = {<<"..", "main.c">>}],
     [Project(<<1, 9, 0>>, Good, "plain") EXCEPT !.descriptor = Torn]}
================================================================================
