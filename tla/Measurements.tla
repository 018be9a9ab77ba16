----------------------------- MODULE Measurements -----------------------------
(***************************************************************************)
(* The batches the exporter hands to WriteMeasurements, and how they come  *)
(* from what the cloud says of a site.  A scene answer lists the devices   *)
(* of a site in two lists; a listed device has a serial number, a name,    *)
(* perhaps a type, and perhaps a product number, of which only the prefix  *)
(* A17 matters.  Any of them may be blank, the empty string of an absent   *)
(* JSON field.  Of a measurement the labels are kept: the values and the   *)
(* timestamp are never read again.                                         *)
(***************************************************************************)
EXTENDS Naturals, Sequences

CONSTANTS SiteIDs, DeviceSNs, Names,
          Blank   \* the empty string

ASSUME BlankAssumption == Blank \in SiteIDs \cap DeviceSNs \cap Names

DeviceTypes == {"solar", "solarbank", Blank}
ProductNumbers == {"A17", "other", Blank}

ListedDevice == [sn : DeviceSNs, name : Names,
                 type : DeviceTypes, pn : ProductNumbers]

Measurement == [site : SiteIDs, siteName : Names,
                sn : DeviceSNs, name : Names, type : DeviceTypes]

\* The type of a device whose list entry may not name one: from the product
\* number, or left blank if that is absent as well.
InferredType(d) == IF d.type # Blank \/ d.pn = Blank THEN d.type
                   ELSE IF d.pn = "A17" THEN "solarbank" ELSE "solar"

\* Site.DeviceList: both lists of the answer, with types inferred.
DeviceList(scene) ==
    LET ds == scene.solar \o scene.bank
    IN [i \in DOMAIN ds |-> [ds[i] EXCEPT !.type = InferredType(ds[i])]]

\* One measurement of device d as a live reading: the site's name is the one
\* of the scene answer, the type is the list the device stands in.
Live(site, scene, d, type) ==
    [site |-> site, siteName |-> scene.siteName,
     sn |-> d.sn, name |-> d.name, type |-> type]

LiveBatch(site, scene) ==
    [i \in DOMAIN scene.bank |-> Live(site, scene, scene.bank[i], "solarbank")]
    \o [i \in DOMAIN scene.solar |-> Live(site, scene, scene.solar[i], "solar")]

\* n daily values of device d: the site's name is the one of the site list.
EnergyBatch(site, siteName, d, n) ==
    [i \in 1..n |-> [site |-> site, siteName |-> siteName,
                     sn |-> d.sn, name |-> d.name, type |-> d.type]]
==============================================================================
