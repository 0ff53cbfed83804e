--------------------------- MODULE TimezoneCatalog ----------------------------
(* The wizard's internal catalogue of time zones and countries, and its map of
   the world (ui/src/data, ui/src/utils/timezoneProjection.js and
   nearestTimezone.js): where a place is drawn, which place a click means, and
   which zone is the nearest.

   What the daemon's client answers for zones, countries and keymaps has no
   items: what the pages offer is these lists.

   Angles are in hundredths of a degree, positions on the map in hundredths of a
   pixel; the code's numbers are not whole, so a distance is known up to
   Rounding. *)
EXTENDS Integers, TLC

(* mergeCanonicalCatalog: the list of the wizard, and what the client's answer adds
   to it. *)
AnsweredItems == {}
MergedCatalog(listed) == listed \cup AnsweredItems

(* Where a zone is: latitude and longitude. *)
Regions ==
       "Pacific/Honolulu" :> <<2131, -15786>> @@ "America/Anchorage" :> <<6122, -14990>>
    @@ "America/Los_Angeles" :> <<3405, -11824>> @@ "America/Phoenix" :> <<3345, -11207>>
    @@ "America/Denver" :> <<3974, -10499>> @@ "America/Chicago" :> <<4188, -8763>>
    @@ "America/New_York" :> <<4071, -7401>> @@ "America/Mexico_City" :> <<1943, -9913>>
    @@ "America/Bogota" :> <<471, -7407>> @@ "America/Lima" :> <<-1205, -7704>>
    @@ "America/La_Paz" :> <<-1649, -6812>> @@ "America/Cuiaba" :> <<-1560, -5610>>
    @@ "America/Manaus" :> <<-312, -6002>> @@ "America/Sao_Paulo" :> <<-2355, -4663>>
    @@ "America/Santiago" :> <<-3345, -7067>>
    @@ "America/Argentina/Buenos_Aires" :> <<-3460, -5838>>
    @@ "Atlantic/Reykjavik" :> <<6415, -2194>> @@ "Atlantic/Azores" :> <<3774, -2568>>
    @@ "Europe/Lisbon" :> <<3872, -914>> @@ "Europe/London" :> <<5151, -13>>
    @@ "Europe/Madrid" :> <<4042, -370>> @@ "Europe/Berlin" :> <<5252, 1340>>
    @@ "Europe/Rome" :> <<4190, 1250>> @@ "Europe/Helsinki" :> <<6017, 2494>>
    @@ "Africa/Cairo" :> <<3004, 3124>> @@ "Africa/Lagos" :> <<652, 338>>
    @@ "Africa/Johannesburg" :> <<-2620, 2805>> @@ "Africa/Nairobi" :> <<-129, 3682>>
    @@ "Europe/Istanbul" :> <<4101, 2898>> @@ "Europe/Moscow" :> <<5576, 3762>>
    @@ "Asia/Dubai" :> <<2520, 5527>> @@ "Asia/Karachi" :> <<2486, 6700>>
    @@ "Asia/Kolkata" :> <<2257, 8836>> @@ "Asia/Dhaka" :> <<2381, 9041>>
    @@ "Asia/Bangkok" :> <<1376, 10050>> @@ "Asia/Singapore" :> <<135, 10382>>
    @@ "Asia/Jakarta" :> <<-621, 10685>> @@ "Asia/Shanghai" :> <<3123, 12147>>
    @@ "Asia/Hong_Kong" :> <<2232, 11417>> @@ "Asia/Seoul" :> <<3757, 12698>>
    @@ "Asia/Tokyo" :> <<3568, 13965>> @@ "Australia/Perth" :> <<-3195, 11586>>
    @@ "Australia/Adelaide" :> <<-3493, 13860>> @@ "Australia/Sydney" :> <<-3387, 15121>>
    @@ "Pacific/Auckland" :> <<-3685, 17476>>

(* The zone and the keymap a country comes with; the others come with nothing. *)
CountryPresets ==
       "BR" :> <<"America/Sao_Paulo", "br-abnt2">> @@ "US" :> <<"America/New_York", "us">>
    @@ "CA" :> <<"America/Toronto", "us">> @@ "MX" :> <<"America/Mexico_City", "latam">>
    @@ "AR" :> <<"America/Argentina/Buenos_Aires", "latam">>
    @@ "CL" :> <<"America/Santiago", "latam">> @@ "CO" :> <<"America/Bogota", "latam">>
    @@ "PE" :> <<"America/Lima", "latam">> @@ "UY" :> <<"America/Montevideo", "latam">>
    @@ "PY" :> <<"America/Asuncion", "latam">> @@ "BO" :> <<"America/La_Paz", "latam">>
    @@ "VE" :> <<"America/Caracas", "latam">> @@ "PT" :> <<"Europe/Lisbon", "pt-latin1">>
    @@ "ES" :> <<"Europe/Madrid", "es">> @@ "GB" :> <<"Europe/London", "uk">>
    @@ "IE" :> <<"Europe/Dublin", "uk">> @@ "FR" :> <<"Europe/Paris", "fr">>
    @@ "DE" :> <<"Europe/Berlin", "de">> @@ "IT" :> <<"Europe/Rome", "it">>
    @@ "NL" :> <<"Europe/Amsterdam", "us">> @@ "BE" :> <<"Europe/Brussels", "be-latin1">>
    @@ "CH" :> <<"Europe/Zurich", "ch">> @@ "AT" :> <<"Europe/Vienna", "de">>
    @@ "PL" :> <<"Europe/Warsaw", "pl">> @@ "CZ" :> <<"Europe/Prague", "cz-qwertz">>
    @@ "SE" :> <<"Europe/Stockholm", "sv-latin1">> @@ "NO" :> <<"Europe/Oslo", "no">>
    @@ "FI" :> <<"Europe/Helsinki", "fi">> @@ "DK" :> <<"Europe/Copenhagen", "dk">>
    @@ "GR" :> <<"Europe/Athens", "gr">> @@ "RO" :> <<"Europe/Bucharest", "ro">>
    @@ "HU" :> <<"Europe/Budapest", "hu">> @@ "TR" :> <<"Europe/Istanbul", "trq">>
    @@ "RU" :> <<"Europe/Moscow", "ru">> @@ "IL" :> <<"Asia/Jerusalem", "il">>
    @@ "AE" :> <<"Asia/Dubai", "us">> @@ "IN" :> <<"Asia/Kolkata", "us">>
    @@ "SG" :> <<"Asia/Singapore", "us">> @@ "HK" :> <<"Asia/Hong_Kong", "us">>
    @@ "TW" :> <<"Asia/Taipei", "us">> @@ "CN" :> <<"Asia/Shanghai", "cn">>
    @@ "KR" :> <<"Asia/Seoul", "kr">> @@ "JP" :> <<"Asia/Tokyo", "jp106">>
    @@ "AU" :> <<"Australia/Sydney", "us">> @@ "NZ" :> <<"Pacific/Auckland", "us">>
    @@ "ZA" :> <<"Africa/Johannesburg", "us">>

(* Two countries stand for the many without a preset. *)
Countries == DOMAIN CountryPresets \cup {"AD", "VA"}

Keymaps == {CountryPresets[c][2] : c \in DOMAIN CountryPresets} \cup {"br-abnt"}

Utc == "Etc/UTC"

-----------------------------------------------------------------------------
(* The map. *)

Width == 78000
Height == 34000
XOffset == -2886
YOffset == 4250

Lesser(a, b) == IF a < b THEN a ELSE b
Larger(a, b) == IF a < b THEN b ELSE a
Limit(v, low, high) == IF v < low THEN low ELSE IF v > high THEN high ELSE v

NormalizeLongitude(l) ==
    IF l < -18000 THEN ((l + 18000) % 36000) - 18000
    ELSE IF l > 18000 THEN 18000 - ((18000 - l) % 36000)
    ELSE l

(* The map is stretched in the north and in the south (nothing in the catalogue
   lies beyond 69 degrees north, where more is stretched). *)
PolarCorrection(y, latitude) ==
    LET north == IF latitude > 5900 THEN -400 * ((latitude - 5400) \div 500) ELSE 0
        high  == IF latitude > 5400 THEN -200 ELSE 0
        mid   == IF latitude > 4900 THEN -100 * ((latitude - 4400) \div 500) ELSE 0
        south == IF latitude < 0 THEN 100 * ((-latitude) \div 500) ELSE 0
    IN  IF latitude < -6000 THEN Height - 100 ELSE y + north + high + mid + south

Wrap(v, size) == IF v < 0 THEN v + size ELSE IF v >= size THEN v - size ELSE v

(* projectTimezoneCoordinate: <<x, y>>. *)
Project(place) ==
    LET latitude  == Limit(place[1], -9000, 9000)
        longitude == NormalizeLongitude(place[2])
        half      == Height \div 2
        x == Width \div 2 + ((Width \div 2) * longitude) \div 18000 + XOffset
        y == half - (half * latitude) \div 9000 + YOffset
    IN  <<Wrap(x, Width), Wrap(PolarCorrection(y, latitude), Height)>>

(* Mutant: the shift of the map is not taken back. *)
Unproject_Unshifted(point) ==
    LET x == Limit(point[1], 0, Width)
        y == Limit(point[2], 0, Height)
        half == Height \div 2
    IN  <<Limit(-(((y - half) * 9000) \div half), -9000, 9000),
          NormalizeLongitude(((x - Width \div 2) * 18000) \div (Width \div 2))>>

(* unprojectTimezoneCoordinate: <<latitude, longitude>>.  The stretching is not
   taken back. *)
Unproject(point) ==
    LET x == Limit(point[1], 0, Width)
        y == Limit(point[2], 0, Height)
        half == Height \div 2
    IN  <<Limit(-(((y - YOffset - half) * 9000) \div half), -9000, 9000),
          NormalizeLongitude(((x - XOffset - Width \div 2) * 18000) \div (Width \div 2))>>

Distance(a, b) == Larger(a, b) - Lesser(a, b)

(* The shorter way around, when one of the two is west and the other is not. *)
LongitudeDifference(a, b) ==
    LET west == Lesser(a, b)
        east == Larger(a, b)
    IN  IF west < 0 /\ east >= 0
        THEN Lesser(east - west, Distance(36000 + west, east))
        ELSE east - west

(* timezoneDistanceDegrees. *)
TimezoneDistance(place, other) ==
    Distance(place[1], other[1])
        + LongitudeDifference(NormalizeLongitude(place[2]), NormalizeLongitude(other[2]))

(* findNearestTimezoneByMapPoint: degrees count whole, pixels are the tie
   breaker, divided by the width.  Their Euclidean distance is between the
   larger and the sum of the two sides: any zone that may have the least score
   is a possible answer. *)
Rounding == 3 * (Width \div 100)

Score(point, zone) ==
    LET pin == Project(Regions[zone])
        dx  == Distance(pin[1], point[1])
        dy  == Distance(pin[2], point[2])
        geo == TimezoneDistance(Unproject(point), Regions[zone]) * (Width \div 100)
    IN  [least |-> geo - Rounding + Larger(dx, dy), most |-> geo + Rounding + dx + dy]

NearestZones(point) ==
    LET score == [zone \in DOMAIN Regions |-> Score(point, zone)]
    IN  {zone \in DOMAIN Regions : \A other \in DOMAIN Regions :
            score[zone].least <= score[other].most}

(* The zones that a click on their own pin selects for sure. *)
ClickableZones == {zone \in DOMAIN Regions : NearestZones(Project(Regions[zone])) = {zone}}
=============================================================================
